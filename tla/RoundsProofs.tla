---------------------------- MODULE RoundsProofs ----------------------------
(***************************************************************************)
(* Theorems about Rounds, for tournaments of any size, any number of       *)
(* rounds and any number of requests.                                      *)
(*                                                                         *)
(*   - Nobody has two matches in a round (NobodyTwice): what the circle    *)
(*     method, the table and the greedy pairing compute, for every size,   *)
(*     and that a round is filled by its creator alone.                    *)
(*   - With one request at a time, a round is drawn once the one before it *)
(*     stands (DrawsWait), and nobody sits out twice while another player  *)
(*     still in the tournament has not (ByesTakeTurns).                    *)
(*   - With one request at a time and no extra rounds, the top cut is of   *)
(*     the two on top (TheCutIsTheTop), a tournament with somebody left in *)
(*     it never stands still before it is over (NobodyWaitsForNothing),    *)
(*     and its winner is placed first (TitleAndFirstPrize).                *)
(*   - A round robin is every pair exactly once (EveryPairOnce).           *)
(*                                                                         *)
(* What a recursive function of the model computes is proved from its      *)
(* steps (WithoutSteps, PairingsSteps, LeaderboardsSteps), and these by    *)
(* induction on their number (Induct).                                     *)
(***************************************************************************)
EXTENDS Rounds, FiniteSetTheorems, WellFoundedInduction, TLAPS

MatchRow == {"n", "one", "two", "bye", "phase", "done", "winner", "scored"}
JobRow   == {"op", "n", "phase", "p", "draw", "todo", "open"}

---------------------------------------------------------------------------
LEMMA Least ==
    ASSUME NEW S, S \subseteq Nat, S # {}
    PROVE  \E x \in S : \A y \in S : x <= y
<1> DEFINE R == OpToRel(<, Nat)
<1>1. \E x \in S : \A y \in S : <<y, x>> \notin R
  BY NatLessThanWellFounded, WFMin
<1>2. \A x, y \in S : <<y, x>> \notin R => x <= y
  BY DEF OpToRel
<1> HIDE DEF R
<1> QED BY <1>1, <1>2

LEMMA Induct ==
    ASSUME NEW P, 0 \in P, \A k \in Nat : k \in P => k + 1 \in P
    PROVE  \A k \in Nat : k \in P
<1> SUFFICES ASSUME NEW k \in Nat, k \notin P
             PROVE  FALSE
  OBVIOUS
<1> DEFINE Q == {i \in Nat : i \notin P}
<1>1. PICK i \in Q : \A j \in Q : i <= j
  BY Least
<1>2. i # 0 /\ i - 1 \in Nat
  BY <1>1
<1>3. i - 1 \in P
  BY <1>1, <1>2
<1> QED BY <1>1, <1>2, <1>3

(* The sum that a fold computes over a finite set: h says what each member *)
(* adds, and x which member is taken next.                                 *)
Adds(S, h, it) ==
    LET x(s) == CHOOSE y \in s : TRUE
    IN  it = [s \in SUBSET S |-> IF s = {} THEN 0 ELSE h[x(s)] + it[s \ {x(s)}]]

LEMMA SumsAreIntegers ==
    ASSUME NEW S, IsFiniteSet(S), NEW h, \A y \in S : h[y] \in Int
    PROVE  /\ \E it : Adds(S, h, it)
           /\ \A it : Adds(S, h, it) => it[S] \in Int
<1> DEFINE x(s) == CHOOSE y \in s : TRUE
           T(n) == {s \in SUBSET S : Cardinality(s) <= n}
           G(it, t) == it = [s \in t |-> IF s = {} THEN 0
                                         ELSE h[x(s)] + it[s \ {x(s)}]]
           P == {n \in Nat : \E it : G(it, T(n))}
<1>2. \A s \in SUBSET S : IsFiniteSet(s) /\ Cardinality(s) \in Nat /\ Cardinality(s) <= Cardinality(S)
  BY FS_Subset, FS_CardinalityType
<1>3. ASSUME NEW s \in SUBSET S, s # {}
      PROVE  x(s) \in s /\ s \ {x(s)} \in SUBSET S /\ Cardinality(s \ {x(s)}) = Cardinality(s) - 1
  BY <1>2, <1>3, FS_RemoveElement
<1>4. \A s \in SUBSET S : Cardinality(s) = 0 <=> s = {}
  BY <1>2, FS_EmptySet
<1> HIDE DEF x
<1>5. 0 \in P
  <2> DEFINE it == [s \in T(0) |-> 0]
  <2>1. \A s \in T(0) : s = {}
    BY <1>2, <1>4
  <2>2. G(it, T(0))
    BY <2>1
  <2> QED BY <2>2
<1>6. ASSUME NEW n \in Nat, n \in P
      PROVE  n + 1 \in P
  <2>1. PICK it : G(it, T(n))
    BY <1>6
  <2> DEFINE jt == [s \in T(n + 1) |-> IF s = {} THEN 0
                                       ELSE h[x(s)] + it[s \ {x(s)}]]
  <2>2. \A s \in T(n) : s \in T(n + 1) /\ jt[s] = it[s]
    <3>1. \A s \in T(n) : it[s] = IF s = {} THEN 0 ELSE h[x(s)] + it[s \ {x(s)}]
      <4> HIDE DEF T
      <4> QED BY <2>1
    <3>2. T(n) \subseteq T(n + 1)
      BY <1>2
    <3> HIDE DEF T
    <3> QED BY <3>1, <3>2
  <2>3. \A s \in T(n + 1) : s # {} => s \ {x(s)} \in T(n)
    BY <1>2, <1>3
  <2>4. \A s \in T(n + 1) : s # {} => jt[s \ {x(s)}] = it[s \ {x(s)}]
    BY <2>2, <2>3
  <2>5. G(jt, T(n + 1))
    BY <2>4
  <2> HIDE DEF G, T, jt
  <2> QED BY <2>5
<1>7. Cardinality(S) \in P
  <2> HIDE DEF P
  <2> QED BY <1>2, <1>5, <1>6, Induct
<1>8. T(Cardinality(S)) = SUBSET S
  BY <1>2
<1>9. \E it : G(it, SUBSET S)
  BY <1>7, <1>8
<1>10. ASSUME NEW sum, G(sum, SUBSET S)
       PROVE  sum[S] \in Int
  <2> DEFINE Q == {n \in Nat : \A s \in T(n) : sum[s] \in Int}
  <2>1. 0 \in Q
    BY <1>4, <1>2, <1>10
  <2>2. ASSUME NEW n \in Nat, n \in Q
        PROVE  n + 1 \in Q
    <3> SUFFICES ASSUME NEW s \in T(n + 1)
                 PROVE  sum[s] \in Int
      OBVIOUS
    <3>1. sum[s] = IF s = {} THEN 0 ELSE h[x(s)] + sum[s \ {x(s)}]
      BY <1>10
    <3>2. s # {} => s \ {x(s)} \in T(n)
      BY <1>2, <1>3
    <3>3. s # {} => sum[s \ {x(s)}] \in Int
      BY <2>2, <3>2
    <3>4. s # {} => h[x(s)] \in Int
      BY <1>3
    <3> QED BY <3>1, <3>3, <3>4
  <2>3. Cardinality(S) \in Q
    <3> HIDE DEF Q
    <3> QED BY <1>2, <2>1, <2>2, Induct
  <2> QED BY <1>2, <2>3
<1> QED BY <1>9, <1>10 DEF Adds, x

LEMMA PointsAreIntegers ==
    ASSUME NEW M, NEW p, IsFiniteSet(Of(M, p)),
           PointsForWin \in Int, PointsForDraw \in Int, PointsForLoss \in Int
    PROVE  Points(M, p) \in Int
<1> DEFINE S == Of(M, p)
           h == [m \in S |-> Credit(m, p)]
           x(s) == CHOOSE y \in s : TRUE
           G(it) == it = [s \in SUBSET S |-> IF s = {} THEN 0 ELSE Credit(x(s), p) + it[s \ {x(s)}]]
           sum == CHOOSE it : G(it)
<1>1. \A m \in S : h[m] \in Int
  BY DEF Credit
<1>2. \A it : G(it) <=> Adds(S, h, it)
  <2>1. \A s \in SUBSET S : s # {} => h[x(s)] = Credit(x(s), p)
    OBVIOUS
  <2> HIDE DEF h, S
  <2> QED BY <2>1 DEF Adds
<1>3. sum[S] \in Int
  <2> HIDE DEF S, G, h
  <2> QED BY <1>1, <1>2, SumsAreIntegers DEF S
<1> QED BY <1>3 DEF Points, MapThenSumSet, MapThenFoldSet

LEMMA MatchesGivePoints ==
    ASSUME IsFiniteSet(matches)
    PROVE  \A q : Points(matches, q) \in Int
<1> SUFFICES ASSUME NEW q
             PROVE  Points(matches, q) \in Int
  OBVIOUS
<1>1. IsFiniteSet(Of(matches, q))
  BY FS_Subset DEF Of
<1> QED BY <1>1, PointsAreIntegers, PointsAssumption

LEMMA PartnerIsThere ==
    ASSUME NEW T, NEW order \in Seq(T), Len(order) >= 2,
           \A q : Points(matches, q) \in Int
    PROVE  \E i \in 2..Len(order) : Partner(order) = order[i]
<1> DEFINE gap(q) == Points(matches, order[1]) - Points(matches, q)
           far(q) == IF gap(q) < 0 THEN -gap(q) ELSE gap(q)
           closer(i, j) == far(order[i]) <= far(order[j])
           fresh == {i \in 2..Len(order) : ~Met(order[1], order[i])}
           rest  == IF fresh = {} THEN 2..Len(order) ELSE fresh
           First(i) == \A j \in rest : closer(i, j) /\ (closer(j, i) => i <= j)
<1>1. \A q : far(q) \in Nat
  <2> SUFFICES ASSUME NEW q
               PROVE  far(q) \in Nat
    OBVIOUS
  <2>1. gap(q) \in Int
    OBVIOUS
  <2> HIDE DEF gap
  <2> QED BY <2>1
<1>2. rest # {} /\ rest \subseteq 2..Len(order) /\ rest \subseteq Nat
  OBVIOUS
<1> HIDE DEF far, rest
<1>3. PICK v \in {far(order[i]) : i \in rest} : \A u \in {far(order[i]) : i \in rest} : v <= u
  <2> DEFINE F == {far(order[i]) : i \in rest}
  <2>1. F \subseteq Nat /\ F # {}
    BY <1>1, <1>2
  <2> HIDE DEF F
  <2>2. \E v \in F : \A u \in F : v <= u
    BY <2>1, Least
  <2> QED BY <2>2 DEF F
<1>4. PICK i \in {i \in rest : far(order[i]) = v} : \A j \in {j \in rest : far(order[j]) = v} : i <= j
  <2> DEFINE F == {j \in rest : far(order[j]) = v}
  <2>1. F \subseteq Nat /\ F # {}
    BY <1>2, <1>3
  <2> HIDE DEF F
  <2>2. \E j \in F : \A u \in F : j <= u
    BY <2>1, Least
  <2> QED BY <2>2 DEF F
<1>5. First(i)
  <2> SUFFICES ASSUME NEW j \in rest
               PROVE  closer(i, j) /\ (closer(j, i) => i <= j)
    OBVIOUS
  <2>1. far(order[i]) = v /\ v <= far(order[j]) /\ far(order[j]) \in Nat /\ v \in Nat
    BY <1>1, <1>3, <1>4
  <2>2. far(order[j]) <= v => far(order[j]) = v
    BY <2>1
  <2> QED BY <1>4, <2>1, <2>2
<1>6. i \in rest
  BY <1>4
<1> HIDE DEF closer
<1> DEFINE c == CHOOSE k \in rest : First(k)
<1>7. c \in rest
  <2> HIDE DEF First
  <2> QED BY <1>5, <1>6
<1>8. Partner(order) = order[c]
  BY DEF Partner, closer, rest, far
<1> HIDE DEF c
<1> QED BY <1>2, <1>7, <1>8

LEMMA WithoutSteps ==
    ASSUME NEW T, NEW order \in Seq(T), NEW S
    PROVE  \E f : /\ Without(order, S) = f[Len(order)]
                  /\ f[0] = <<>>
                  /\ \A k \in 1..Len(order) :
                        f[k] = IF order[k] \in S THEN f[k - 1] ELSE Append(f[k - 1], order[k])
<1> DEFINE G(f, n) == f = [k \in 0..n |-> IF k = 0 THEN <<>>
                                ELSE IF order[k] \in S THEN f[k - 1] ELSE Append(f[k - 1], order[k])]
           P == {n \in Nat : \E f : G(f, n)}
           kept == CHOOSE f : G(f, Len(order))
<1>1. 0 \in P
  <2>1. G([k \in 0..0 |-> <<>>], 0)
    OBVIOUS
  <2> QED BY <2>1
<1>2. ASSUME NEW n \in Nat, n \in P
      PROVE  n + 1 \in P
  <2>1. PICK f : G(f, n)
    BY <1>2
  <2> DEFINE g == [k \in 0..(n + 1) |-> IF k = 0 THEN <<>>
                      ELSE IF order[k] \in S THEN f[k - 1] ELSE Append(f[k - 1], order[k])]
  <2>2. \A k \in 0..n : g[k] = f[k]
    <3>1. \A k \in 0..n : f[k] = IF k = 0 THEN <<>>
             ELSE IF order[k] \in S THEN f[k - 1] ELSE Append(f[k - 1], order[k])
      BY <2>1
    <3>2. 0..n \subseteq 0..(n + 1)
      OBVIOUS
    <3> HIDE DEF G
    <3> QED BY <3>1, <3>2
  <2>3. \A k \in 1..(n + 1) : k - 1 \in 0..n /\ g[k - 1] = f[k - 1]
    <3> HIDE DEF g
    <3> QED BY <2>2
  <2>4. G(g, n + 1)
    <3>1. g = [k \in 0..(n + 1) |-> g[k]]
      OBVIOUS
    <3>2. \A k \in 0..(n + 1) : g[k] = IF k = 0 THEN <<>>
             ELSE IF order[k] \in S THEN g[k - 1] ELSE Append(g[k - 1], order[k])
      <4>1. \A k \in 0..(n + 1) : g[k] = IF k = 0 THEN <<>>
               ELSE IF order[k] \in S THEN f[k - 1] ELSE Append(f[k - 1], order[k])
        OBVIOUS
      <4>2. \A k \in 0..(n + 1) : k # 0 => g[k - 1] = f[k - 1]
        <5> HIDE DEF g
        <5> QED BY <2>3
      <4> HIDE DEF g
      <4> QED BY <4>1, <4>2
    <3> HIDE DEF g
    <3> QED BY <3>1, <3>2
  <2> HIDE DEF G, g
  <2> QED BY <2>4
<1>3. Len(order) \in P
  <2> HIDE DEF P
  <2> QED BY <1>1, <1>2, Induct
<1>4. G(kept, Len(order))
  BY <1>3
<1>5. Without(order, S) = kept[Len(order)]
  BY DEF Without
<1> HIDE DEF kept
<1>6. kept[0] = <<>>
  BY <1>4
<1>7. \A k \in 1..Len(order) :
         kept[k] = IF order[k] \in S THEN kept[k - 1] ELSE Append(kept[k - 1], order[k])
  <2> SUFFICES ASSUME NEW k \in 1..Len(order)
               PROVE  kept[k] = IF order[k] \in S THEN kept[k - 1]
                                ELSE Append(kept[k - 1], order[k])
    OBVIOUS
  <2>1. k \in 0..Len(order) /\ k # 0
    OBVIOUS
  <2>2. kept[k] = IF k = 0 THEN <<>>
                  ELSE IF order[k] \in S THEN kept[k - 1] ELSE Append(kept[k - 1], order[k])
    BY <1>4, <2>1
  <2> QED BY <2>1, <2>2
<1> HIDE DEF G
<1> QED BY <1>5, <1>6, <1>7

Distinct(order) == \A i, j \in DOMAIN order : order[i] = order[j] => i = j

LEMMA WithoutKeeps ==
    ASSUME NEW T, NEW order \in Seq(T), NEW S
    PROVE  /\ Without(order, S) \in Seq(T)
           /\ \A i \in DOMAIN Without(order, S) :
                 \E j \in DOMAIN order : Without(order, S)[i] = order[j] /\ order[j] \notin S
           /\ Distinct(order) => Distinct(Without(order, S))
<1>1. PICK f : /\ Without(order, S) = f[Len(order)]
               /\ f[0] = <<>>
               /\ \A k \in 1..Len(order) :
                     f[k] = IF order[k] \in S THEN f[k - 1] ELSE Append(f[k - 1], order[k])
  BY WithoutSteps
<1> DEFINE Good(k) == /\ f[k] \in Seq(T)
                      /\ \A i \in 1..Len(f[k]) :
                            \E j \in 1..k : f[k][i] = order[j] /\ order[j] \notin S
                      /\ Distinct(order) =>
                            \A i, j \in 1..Len(f[k]) : f[k][i] = f[k][j] => i = j
           P == {k \in Nat : k <= Len(order) => Good(k)}
<1>2. 0 \in P
  <2>1. f[0] = <<>> /\ f[0] \in Seq(T) /\ 1..Len(f[0]) = {}
    BY <1>1
  <2> QED BY <2>1
<1>3. ASSUME NEW k \in Nat, k \in P
      PROVE  k + 1 \in P
  <2> SUFFICES ASSUME k + 1 <= Len(order)
               PROVE  Good(k + 1)
    OBVIOUS
  <2>1. Good(k)
    BY <1>3
  <2>2. f[k + 1] = IF order[k + 1] \in S THEN f[k] ELSE Append(f[k], order[k + 1])
    BY <1>1
  <2>3. CASE order[k + 1] \in S
    BY <2>1, <2>2, <2>3
  <2>4. CASE order[k + 1] \notin S
    <3> PICK s \in Seq(T) : s = f[k]
      BY <2>1
    <3> PICK x \in T : x = order[k + 1]
      OBVIOUS
    <3>1. f[k + 1] = Append(s, x) /\ Append(s, x) \in Seq(T) /\ Len(Append(s, x)) = Len(s) + 1
      BY <2>2, <2>4
    <3>2. /\ \A i \in 1..Len(s) : Append(s, x)[i] = s[i]
          /\ Append(s, x)[Len(s) + 1] = x
      OBVIOUS
    <3>3. \A i \in 1..Len(s) : \E j \in 1..k : s[i] = order[j] /\ order[j] \notin S
      BY <2>1
    <3>4. \A i \in 1..(Len(s) + 1) :
             \E j \in 1..(k + 1) : Append(s, x)[i] = order[j] /\ order[j] \notin S
      <4> SUFFICES ASSUME NEW i \in 1..(Len(s) + 1)
                   PROVE  \E j \in 1..(k + 1) : Append(s, x)[i] = order[j] /\ order[j] \notin S
        OBVIOUS
      <4>1. i \in 1..Len(s) \/ i = Len(s) + 1
        OBVIOUS
      <4>2. CASE i = Len(s) + 1
        BY <2>4, <3>2, <4>2
      <4>3. CASE i \in 1..Len(s)
        BY <3>2, <3>3, <4>3
      <4> QED BY <4>1, <4>2, <4>3
    <3>5. ASSUME Distinct(order)
          PROVE  \A i, j \in 1..(Len(s) + 1) : Append(s, x)[i] = Append(s, x)[j] => i = j
      <4>1. \A i \in 1..Len(s) : s[i] # x
        <5> SUFFICES ASSUME NEW i \in 1..Len(s), s[i] = x
                     PROVE  FALSE
          OBVIOUS
        <5>1. PICK j \in 1..k : s[i] = order[j]
          BY <3>3
        <5>2. j \in DOMAIN order /\ k + 1 \in DOMAIN order /\ j # k + 1
          OBVIOUS
        <5> QED BY <3>5, <5>1, <5>2 DEF Distinct
      <4>2. \A i, j \in 1..Len(s) : s[i] = s[j] => i = j
        BY <2>1, <3>5
      <4> QED BY <3>2, <4>1, <4>2
    <3> QED BY <3>1, <3>4, <3>5
  <2> QED BY <2>3, <2>4
<1>4. Good(Len(order))
  <2>1. Len(order) \in P
    <3> HIDE DEF P
    <3> QED BY <1>2, <1>3, Induct
  <2> QED BY <2>1
<1>5. DOMAIN order = 1..Len(order)
  OBVIOUS
<1> PICK w : w = Without(order, S)
  OBVIOUS
<1>6. /\ w \in Seq(T) /\ DOMAIN w = 1..Len(w)
      /\ \A i \in 1..Len(w) : \E j \in 1..Len(order) : w[i] = order[j] /\ order[j] \notin S
      /\ Distinct(order) => \A i, j \in 1..Len(w) : w[i] = w[j] => i = j
  BY <1>1, <1>4
<1> HIDE DEF P, Good
<1> QED BY <1>5, <1>6 DEF Distinct

LEMMA WithoutOne ==
    ASSUME NEW T, NEW order \in Seq(T), Distinct(order), NEW i \in 1..Len(order)
    PROVE  Len(Without(order, {order[i]})) = Len(order) - 1
<1>1. PICK f : /\ Without(order, {order[i]}) = f[Len(order)]
               /\ f[0] = <<>>
               /\ \A k \in 1..Len(order) :
                     f[k] = IF order[k] \in {order[i]} THEN f[k - 1] ELSE Append(f[k - 1], order[k])
  BY WithoutSteps
<1> DEFINE Good(k) == /\ f[k] \in Seq(T)
                      /\ Len(f[k]) = IF k < i THEN k ELSE k - 1
           P == {k \in Nat : k <= Len(order) => Good(k)}
<1>2. 0 \in P
  <2>1. f[0] = <<>> /\ f[0] \in Seq(T) /\ Len(f[0]) = 0
    BY <1>1
  <2>2. Good(0)
    BY <2>1
  <2> HIDE DEF Good
  <2> QED BY <2>2
<1>3. ASSUME NEW k \in Nat, k \in P
      PROVE  k + 1 \in P
  <2> SUFFICES ASSUME k + 1 <= Len(order)
               PROVE  Good(k + 1)
    OBVIOUS
  <2>1. Good(k)
    BY <1>3
  <2>2. f[k + 1] = IF order[k + 1] = order[i] THEN f[k] ELSE Append(f[k], order[k + 1])
    BY <1>1
  <2>3. order[k + 1] = order[i] <=> k + 1 = i
    BY DEF Distinct
  <2>4. CASE k + 1 = i
    BY <2>1, <2>2, <2>3, <2>4
  <2>5. CASE k + 1 # i
    <3> PICK s \in Seq(T) : s = f[k]
      BY <2>1
    <3> PICK x \in T : x = order[k + 1]
      OBVIOUS
    <3>1. f[k + 1] = Append(s, x) /\ Append(s, x) \in Seq(T) /\ Len(Append(s, x)) = Len(s) + 1
      BY <2>2, <2>3, <2>5
    <3>2. Len(s) = IF k < i THEN k ELSE k - 1
      BY <2>1
    <3> QED BY <2>5, <3>1, <3>2
  <2> QED BY <2>4, <2>5
<1>4. Good(Len(order))
  <2>1. Len(order) \in P
    <3> HIDE DEF P
    <3> QED BY <1>2, <1>3, Induct
  <2> QED BY <2>1
<1> QED BY <1>1, <1>4

LEMMA PairingsSteps ==
    ASSUME NEW T, NEW order \in Seq(T)
    PROVE  \E f : /\ Pairings(order) = f[Len(order) \div 2].pairs
                  /\ f[0] = [pairs |-> <<>>, left |-> order]
                  /\ \A k \in 1..(Len(order) \div 2) :
                        f[k] = [pairs |-> Append(f[k - 1].pairs,
                                                 <<f[k - 1].left[1], Partner(f[k - 1].left)>>),
                                left  |-> Without(Tail(f[k - 1].left), {Partner(f[k - 1].left)})]
<1> DEFINE More(d) == [pairs |-> Append(d.pairs, <<d.left[1], Partner(d.left)>>),
                       left  |-> Without(Tail(d.left), {Partner(d.left)})]
           none == [pairs |-> <<>>, left |-> order]
           N == Len(order) \div 2
           G(f, n) == f = [k \in 0..n |-> IF k = 0 THEN none ELSE More(f[k - 1])]
           P == {n \in Nat : \E f : G(f, n)}
           draws == CHOOSE f : G(f, N)
<1>1. Pairings(order) = draws[N].pairs
  BY DEF Pairings
<1>2. N \in Nat
  OBVIOUS
<1> HIDE DEF More, none, N
<1>3. 0 \in P
  <2>1. G([k \in 0..0 |-> none], 0)
    OBVIOUS
  <2> QED BY <2>1
<1>4. ASSUME NEW n \in Nat, n \in P
      PROVE  n + 1 \in P
  <2>1. PICK f : G(f, n)
    BY <1>4
  <2> DEFINE g == [k \in 0..(n + 1) |-> IF k = 0 THEN none ELSE More(f[k - 1])]
  <2>2. \A k \in 0..n : f[k] = IF k = 0 THEN none ELSE More(f[k - 1])
    BY <2>1
  <2>3. \A k \in 0..(n + 1) : g[k] = IF k = 0 THEN none ELSE More(f[k - 1])
    OBVIOUS
  <2>4. g = [k \in 0..(n + 1) |-> g[k]]
    OBVIOUS
  <2> HIDE DEF g, G
  <2>5. \A k \in 0..n : g[k] = f[k]
    BY <2>2, <2>3
  <2>6. \A k \in 0..(n + 1) : k # 0 => g[k - 1] = f[k - 1]
    BY <2>5
  <2>7. \A k \in 0..(n + 1) : g[k] = IF k = 0 THEN none ELSE More(g[k - 1])
    BY <2>3, <2>6
  <2>8. G(g, n + 1)
    BY <2>4, <2>7 DEF G
  <2> QED BY <2>8
<1>5. N \in P
  <2> HIDE DEF P
  <2> QED BY <1>2, <1>3, <1>4, Induct
<1>6. G(draws, N)
  BY <1>5
<1> HIDE DEF draws
<1>7. draws[0] = none
  BY <1>2, <1>6
<1>8. ASSUME NEW k \in 1..N
      PROVE  draws[k] = More(draws[k - 1])
  <2>1. k \in 0..N /\ k # 0
    BY <1>2
  <2>2. draws[k] = IF k = 0 THEN none ELSE More(draws[k - 1])
    BY <1>6, <2>1
  <2> QED BY <2>1, <2>2
<1> QED BY <1>1, <1>7, <1>8 DEF More, none, N

Couple(pair) == {pair[1], pair[2]} \ {NoPlayer}
Apart(draw)  == \A i, j \in DOMAIN draw : i # j => Couple(draw[i]) \cap Couple(draw[j]) = {}

LEMMA TailIsApart ==
    ASSUME NEW T, NEW draw \in Seq(T), draw # <<>>, Apart(draw)
    PROVE  Apart(Tail(draw))
<1> SUFFICES ASSUME NEW i \in DOMAIN Tail(draw), NEW j \in DOMAIN Tail(draw), i # j
             PROVE  Couple(Tail(draw)[i]) \cap Couple(Tail(draw)[j]) = {}
  BY DEF Apart
<1>1. i + 1 \in DOMAIN draw /\ j + 1 \in DOMAIN draw /\ i + 1 # j + 1
      /\ Tail(draw)[i] = draw[i + 1] /\ Tail(draw)[j] = draw[j + 1]
  OBVIOUS
<1> QED BY <1>1 DEF Apart

LEMMA PairingsAreApart ==
    ASSUME NEW T, NEW order \in Seq(T), Distinct(order), \A q : Points(matches, q) \in Int
    PROVE  /\ Pairings(order) \in Seq(T \X T) /\ Len(Pairings(order)) = Len(order) \div 2
           /\ Apart(Pairings(order))
           /\ \A i \in DOMAIN Pairings(order) :
                 Couple(Pairings(order)[i]) \subseteq {order[j] : j \in DOMAIN order}
<1>1. PICK f : /\ Pairings(order) = f[Len(order) \div 2].pairs
               /\ f[0] = [pairs |-> <<>>, left |-> order]
               /\ \A k \in 1..(Len(order) \div 2) :
                     f[k] = [pairs |-> Append(f[k - 1].pairs,
                                              <<f[k - 1].left[1], Partner(f[k - 1].left)>>),
                             left  |-> Without(Tail(f[k - 1].left), {Partner(f[k - 1].left)})]
  BY PairingsSteps
<1> DEFINE N == Len(order) \div 2
           In == {order[j] : j \in DOMAIN order}
           Parted(pairs, left, k) ==
              /\ left \in Seq(T) /\ Distinct(left) /\ Len(left) = Len(order) - 2 * k
              /\ \A i \in 1..Len(left) : left[i] \in In
              /\ pairs \in Seq(T \X T) /\ Len(pairs) = k
              /\ \A i, j \in 1..Len(pairs) : i # j => Couple(pairs[i]) \cap Couple(pairs[j]) = {}
              /\ \A i \in 1..Len(pairs) : Couple(pairs[i]) \subseteq In
              /\ \A i \in 1..Len(pairs), j \in 1..Len(left) : left[j] \notin Couple(pairs[i])
           P == {k \in Nat : k <= N => Parted(f[k].pairs, f[k].left, k)}
<1>2. N \in Nat /\ 2 * N <= Len(order) /\ N = Len(order) \div 2
  OBVIOUS
<1> HIDE DEF N
<1>3. 0 \in P
  <2>1. Parted(<<>>, order, 0)
    OBVIOUS
  <2>2. f[0].pairs = <<>> /\ f[0].left = order
    BY <1>1
  <2> HIDE DEF Parted
  <2> QED BY <2>1, <2>2
<1>4. ASSUME NEW k \in Nat, k \in P
      PROVE  k + 1 \in P
  <2> HIDE DEF Parted
  <2> SUFFICES ASSUME k + 1 <= N
               PROVE  Parted(f[k + 1].pairs, f[k + 1].left, k + 1)
    OBVIOUS
  <2>1. PICK pairs, left : pairs = f[k].pairs /\ left = f[k].left
    OBVIOUS
  <2>2. Parted(pairs, left, k)
    <3>1. k <= N
      BY <1>2
    <3> QED BY <1>4, <2>1, <3>1
  <2> USE DEF Parted
  <2>3. PICK q : q = Partner(left)
    OBVIOUS
  <2>4. PICK rest : rest = Without(Tail(left), {q})
    OBVIOUS
  <2>5. f[k + 1].pairs = Append(pairs, <<left[1], q>>) /\ f[k + 1].left = rest
    <3>1. k + 1 \in 1..N /\ (k + 1) - 1 = k
      BY <1>2
    <3>2. f[k + 1] = [pairs |-> Append(pairs, <<left[1], q>>), left |-> rest]
      BY <1>1, <1>2, <2>1, <2>3, <2>4, <3>1
    <3> QED BY <3>2
  <2>6. Len(left) \in Nat /\ Len(left) >= 2 /\ left \in Seq(T)
    BY <1>2, <2>2
  <2>7. PICK h \in 2..Len(left) : q = left[h]
    BY <2>3, <2>6, PartnerIsThere
  <2>8. /\ Tail(left) \in Seq(T) /\ Len(Tail(left)) = Len(left) - 1
        /\ \A i \in 1..(Len(left) - 1) : Tail(left)[i] = left[i + 1]
        /\ Tail(left)[h - 1] = q /\ h - 1 \in 1..Len(Tail(left))
    BY <2>6, <2>7
  <2>9. Distinct(Tail(left))
    BY <2>2, <2>6, <2>8 DEF Distinct
  <2>10. rest \in Seq(T) /\ Distinct(rest)
         /\ \A i \in DOMAIN rest : \E j \in DOMAIN Tail(left) :
               rest[i] = Tail(left)[j] /\ Tail(left)[j] \notin {q}
    BY <2>4, <2>8, <2>9, WithoutKeeps
  <2>11. Len(rest) = Len(left) - 2
    <3>1. rest = Without(Tail(left), {Tail(left)[h - 1]})
      BY <2>4, <2>8
    <3>2. Len(rest) = Len(Tail(left)) - 1
      BY <2>8, <2>9, <3>1, WithoutOne
    <3> QED BY <2>6, <2>8, <3>2
  <2>12. \A i \in 1..Len(rest) : \E j \in 2..Len(left) : rest[i] = left[j] /\ left[j] # q
    <3> SUFFICES ASSUME NEW i \in 1..Len(rest)
                 PROVE  \E j \in 2..Len(left) : rest[i] = left[j] /\ left[j] # q
      OBVIOUS
    <3>1. i \in DOMAIN rest
      BY <2>10
    <3>2. PICK j \in DOMAIN Tail(left) : rest[i] = Tail(left)[j] /\ Tail(left)[j] \notin {q}
      BY <2>10, <3>1
    <3>3. j \in 1..(Len(left) - 1) /\ j + 1 \in 2..Len(left) /\ Tail(left)[j] = left[j + 1]
      BY <2>6, <2>8
    <3> QED BY <3>2, <3>3
  <2>13. \A i \in 1..Len(rest) : rest[i] # left[1] /\ rest[i] # q /\ rest[i] \in In
    <3> SUFFICES ASSUME NEW i \in 1..Len(rest)
                 PROVE  rest[i] # left[1] /\ rest[i] # q /\ rest[i] \in In
      OBVIOUS
    <3>1. PICK j \in 2..Len(left) : rest[i] = left[j] /\ left[j] # q
      BY <2>12
    <3>2. j \in DOMAIN left /\ 1 \in DOMAIN left /\ j # 1 /\ j \in 1..Len(left)
      BY <2>6
    <3> QED BY <2>2, <3>1, <3>2 DEF Distinct
  <2> PICK pair : pair = <<left[1], q>>
    OBVIOUS
  <2>14. pair \in T \X T /\ Couple(pair) \subseteq {left[1], left[h]} /\ 1 \in 1..Len(left) /\ h \in 1..Len(left)
    BY <2>6, <2>7 DEF Couple
  <2>15. Couple(pair) \subseteq In /\ \A i \in 1..Len(pairs) : Couple(pairs[i]) \cap Couple(pair) = {}
    <3>1. left[1] \in In /\ left[h] \in In
      BY <2>2, <2>14
    <3>2. \A i \in 1..Len(pairs) : left[1] \notin Couple(pairs[i]) /\ left[h] \notin Couple(pairs[i])
      BY <2>2, <2>14
    <3> HIDE DEF Parted, In
    <3> QED BY <2>14, <3>1, <3>2
  <2>16. PICK more : more = Append(pairs, pair)
    OBVIOUS
  <2>17. /\ more \in Seq(T \X T) /\ Len(more) = Len(pairs) + 1 /\ Len(pairs) \in Nat
         /\ \A i \in 1..Len(pairs) : more[i] = pairs[i]
         /\ more[Len(pairs) + 1] = pair
    BY <2>2, <2>14, <2>16
  <2>18. \A i \in 1..Len(more) : i \in 1..Len(pairs) \/ i = Len(pairs) + 1
    BY <2>17
  <2>19. \A i, j \in 1..Len(more) : i # j => Couple(more[i]) \cap Couple(more[j]) = {}
    <3>1. \A i, j \in 1..Len(pairs) : i # j => Couple(more[i]) \cap Couple(more[j]) = {}
      BY <2>2, <2>17
    <3>2. \A i \in 1..Len(pairs) : Couple(more[i]) \cap Couple(more[Len(pairs) + 1]) = {}
      BY <2>15, <2>17
    <3> QED BY <2>18, <3>1, <3>2
  <2>20. \A i \in 1..Len(more) : Couple(more[i]) \subseteq In
    BY <2>2, <2>15, <2>17, <2>18
  <2>21. \A i \in 1..Len(more), j \in 1..Len(rest) : rest[j] \notin Couple(more[i])
    <3> SUFFICES ASSUME NEW i \in 1..Len(more), NEW j \in 1..Len(rest)
                 PROVE  rest[j] \notin Couple(more[i])
      OBVIOUS
    <3>1. PICK l \in 2..Len(left) : rest[j] = left[l]
      BY <2>12
    <3>2. CASE i \in 1..Len(pairs)
      <4>1. l \in 1..Len(left)
        BY <2>6
      <4> QED BY <2>2, <2>17, <3>1, <3>2, <4>1
    <3>3. CASE i = Len(pairs) + 1
      BY <2>7, <2>13, <2>14, <2>17, <3>3
    <3> QED BY <2>18, <3>2, <3>3
  <2>22. Len(rest) = Len(order) - 2 * (k + 1)
    BY <2>2, <2>6, <2>11
  <2>23. Len(more) = k + 1
    BY <2>2, <2>17
  <2> QED BY <2>5, <2>10, <2>13, <2>16, <2>17, <2>19, <2>20, <2>21, <2>22, <2>23
<1>5. Parted(f[N].pairs, f[N].left, N)
  <2>1. N \in P
    <3> HIDE DEF P
    <3> QED BY <1>2, <1>3, <1>4, Induct
  <2> HIDE DEF Parted
  <2> QED BY <1>2, <2>1
<1>6. DOMAIN Pairings(order) = 1..Len(Pairings(order))
  BY <1>1, <1>2, <1>5
<1> QED BY <1>1, <1>2, <1>5, <1>6 DEF Apart

LEMMA WithoutLast ==
    ASSUME NEW T, NEW order \in Seq(T), NEW S, Without(order, S) # <<>>
    PROVE  \E i \in 1..Len(order) : Without(order, S)[Len(Without(order, S))] = order[i]
<1>1. /\ Without(order, S) \in Seq(T)
      /\ \A i \in DOMAIN Without(order, S) :
            \E j \in DOMAIN order : Without(order, S)[i] = order[j] /\ order[j] \notin S
  BY WithoutKeeps
<1>2. DOMAIN order = 1..Len(order)
  OBVIOUS
<1> PICK w : w = Without(order, S)
  OBVIOUS
<1>3. Len(w) \in DOMAIN w
  BY <1>1
<1> QED BY <1>1, <1>2, <1>3

LEMMA WithoutAvoids ==
    ASSUME NEW T, NEW order \in Seq(T), NEW S, Without(order, S) # <<>>
    PROVE  Without(order, S)[Len(Without(order, S))] \notin S
<1>1. /\ Without(order, S) \in Seq(T)
      /\ \A i \in DOMAIN Without(order, S) :
            \E j \in DOMAIN order : Without(order, S)[i] = order[j] /\ order[j] \notin S
  BY WithoutKeeps
<1> PICK w : w = Without(order, S)
  OBVIOUS
<1>2. Len(w) \in DOMAIN w
  BY <1>1
<1> QED BY <1>1, <1>2

LEMMA BenchIsThere ==
    ASSUME NEW T, NEW order \in Seq(T), order # <<>>
    PROVE  \E i \in 1..Len(order) : BenchOf(order) = order[i]
<1> DEFINE S == {p \in Player : SatOut(p)}
<1>1. BenchOf(order) = IF Without(order, S) = <<>> THEN order[Len(order)]
                       ELSE Without(order, S)[Len(Without(order, S))]
  BY DEF BenchOf
<1>2. Len(order) \in 1..Len(order)
  OBVIOUS
<1> HIDE DEF S
<1> QED BY <1>1, <1>2, WithoutLast

LEMMA DrawIsApart ==
    ASSUME NEW order \in Seq(Player), Distinct(order), \A q : Points(matches, q) \in Int
    PROVE  /\ SwissDraw(order) \in Seq(Player \X (Player \cup {NoPlayer}))
           /\ Apart(SwissDraw(order))
<1>1. CASE Len(order) % 2 = 0
  <2>1. SwissDraw(order) = Pairings(order)
    BY <1>1 DEF SwissDraw
  <2>2. Pairings(order) \in Seq(Player \X Player) /\ Apart(Pairings(order))
    BY PairingsAreApart
  <2>3. Pairings(order) \in Seq(Player \X (Player \cup {NoPlayer}))
    <3> HIDE DEF Player
    <3> QED BY <2>2
  <2> QED BY <2>1, <2>2, <2>3
<1>2. CASE Len(order) % 2 # 0
  <2>1. PICK b : b = BenchOf(order)
    OBVIOUS
  <2>2. order # <<>>
    BY <1>2
  <2>3. PICK h \in 1..Len(order) : b = order[h]
    BY <2>1, <2>2, BenchIsThere
  <2>4. PICK rest : rest = Without(order, {b})
    OBVIOUS
  <2>5. PICK draw : draw = Pairings(rest)
    OBVIOUS
  <2>6. PICK sit : sit = <<b, NoPlayer>>
    OBVIOUS
  <2>7. SwissDraw(order) = Append(draw, sit)
    BY <1>2, <2>1, <2>4, <2>5, <2>6 DEF SwissDraw
  <2>8. rest \in Seq(Player) /\ Distinct(rest) /\ \A i \in DOMAIN rest : rest[i] # b
    BY <2>4, WithoutKeeps
  <2>9. /\ draw \in Seq(Player \X Player) /\ Apart(draw)
        /\ \A i \in DOMAIN draw : Couple(draw[i]) \subseteq {rest[j] : j \in DOMAIN rest}
    BY <2>5, <2>8, PairingsAreApart
  <2>10. sit \in Player \X (Player \cup {NoPlayer}) /\ Couple(sit) \subseteq {b}
    BY <2>3, <2>6 DEF Couple
  <2>11. \A i \in DOMAIN draw : Couple(draw[i]) \cap Couple(sit) = {}
    BY <2>8, <2>9, <2>10
  <2>12. draw \in Seq(Player \X (Player \cup {NoPlayer}))
    <3> HIDE DEF Player
    <3> QED BY <2>9
  <2>13. PICK more : more = Append(draw, sit)
    OBVIOUS
  <2>14. /\ more \in Seq(Player \X (Player \cup {NoPlayer})) /\ DOMAIN more = 1..(Len(draw) + 1)
         /\ Len(draw) \in Nat /\ DOMAIN draw = 1..Len(draw)
         /\ \A i \in 1..Len(draw) : more[i] = draw[i]
         /\ more[Len(draw) + 1] = sit
    <3> HIDE DEF Player
    <3> QED BY <2>10, <2>12, <2>13
  <2>15. \A i \in DOMAIN more : i \in DOMAIN draw \/ i = Len(draw) + 1
    BY <2>14
  <2>16. Apart(more)
    BY <2>9, <2>11, <2>14, <2>15 DEF Apart
  <2> QED BY <2>7, <2>13, <2>14, <2>16
<1> QED BY <1>1, <1>2

LEMMA LeaderboardsSteps ==
    ASSUME NEW M, NEW S, IsFiniteSet(S)
    PROVE  \E f : /\ Leaderboards(M, S) = f[Cardinality(S)]
                  /\ f[0] = {<<>>}
                  /\ \A k \in 1..Cardinality(S) : \A t \in f[k] :
                        \E u \in f[k - 1], p \in S : p \notin ToSet(u) /\ t = Append(u, p)
                  /\ \A k \in 1..Cardinality(S) : \A u \in f[k - 1], p \in S :
                        /\ p \notin ToSet(u)
                        /\ \A q \in S : q \notin ToSet(u) => Key(M, q) <= Key(M, p)
                        => Append(u, p) \in f[k]
<1> DEFINE entries == {<<p, Key(M, p)>> : p \in S}
           below(t) == {e \in entries : e[1] \notin ToSet(t)}
           best(E)  == {e \in E : \A g \in E : g[2] <= e[2]}
           More(tables) == UNION {{Append(t, e[1]) : e \in best(below(t))} : t \in tables}
           N == Cardinality(S)
           G(f, n) == f = [k \in 0..n |-> IF k = 0 THEN {<<>>} ELSE More(f[k - 1])]
           P == {n \in Nat : \E f : G(f, n)}
           tables == CHOOSE f : G(f, N)
<1>1. Leaderboards(M, S) = tables[N]
  BY DEF Leaderboards
<1>2. N \in Nat
  BY FS_CardinalityType
<1>3. \A T : \A t \in More(T) : \E u \in T, p \in S : p \notin ToSet(u) /\ t = Append(u, p)
  <2> HIDE DEF P, G, N, tables
  <2> SUFFICES ASSUME NEW T, NEW t \in More(T)
               PROVE  \E u \in T, p \in S : p \notin ToSet(u) /\ t = Append(u, p)
    OBVIOUS
  <2>1. PICK u \in T : t \in {Append(u, e[1]) : e \in best(below(u))}
    OBVIOUS
  <2>2. PICK e \in entries : e[1] \notin ToSet(u) /\ t = Append(u, e[1])
    BY <2>1
  <2>3. e[1] \in S
    BY <2>2
  <2> QED BY <2>2, <2>3
<1>10. ASSUME NEW T, NEW u \in T, NEW p \in S, p \notin ToSet(u),
              \A q \in S : q \notin ToSet(u) => Key(M, q) <= Key(M, p)
       PROVE  Append(u, p) \in More(T)
  <2> HIDE DEF P, G, N, tables
  <2>1. <<p, Key(M, p)>> \in best(below(u))
    BY <1>10
  <2> HIDE DEF best, below
  <2>2. Append(u, p) \in {Append(u, e[1]) : e \in best(below(u))}
    BY <2>1
  <2> QED BY <2>2
<1> HIDE DEF More, N
<1>4. 0 \in P
  <2>1. G([k \in 0..0 |-> {<<>>}], 0)
    OBVIOUS
  <2> QED BY <2>1
<1>5. ASSUME NEW n \in Nat, n \in P
      PROVE  n + 1 \in P
  <2>1. PICK f : G(f, n)
    BY <1>5
  <2> DEFINE g == [k \in 0..(n + 1) |-> IF k = 0 THEN {<<>>} ELSE More(f[k - 1])]
  <2>2. \A k \in 0..n : f[k] = IF k = 0 THEN {<<>>} ELSE More(f[k - 1])
    BY <2>1
  <2>3. \A k \in 0..(n + 1) : g[k] = IF k = 0 THEN {<<>>} ELSE More(f[k - 1])
    OBVIOUS
  <2>4. g = [k \in 0..(n + 1) |-> g[k]]
    OBVIOUS
  <2> HIDE DEF g, G
  <2>5. \A k \in 0..n : g[k] = f[k]
    BY <2>2, <2>3
  <2>6. \A k \in 0..(n + 1) : k # 0 => g[k - 1] = f[k - 1]
    BY <2>5
  <2>7. \A k \in 0..(n + 1) : g[k] = IF k = 0 THEN {<<>>} ELSE More(g[k - 1])
    BY <2>3, <2>6
  <2>8. G(g, n + 1)
    BY <2>4, <2>7 DEF G
  <2> QED BY <2>8
<1>6. N \in P
  <2> HIDE DEF P
  <2> QED BY <1>2, <1>4, <1>5, Induct
<1>7. G(tables, N)
  BY <1>6
<1> HIDE DEF tables
<1>8. tables[0] = {<<>>}
  BY <1>2, <1>7
<1>9. ASSUME NEW k \in 1..N
      PROVE  tables[k] = More(tables[k - 1])
  <2>1. k \in 0..N /\ k # 0
    BY <1>2
  <2>2. tables[k] = IF k = 0 THEN {<<>>} ELSE More(tables[k - 1])
    BY <1>7, <2>1
  <2> QED BY <2>1, <2>2
<1> HIDE DEF G, P
<1> QED BY <1>1, <1>3, <1>8, <1>9, <1>10 DEF N

(* A table lists nobody twice, and as many as there are players.           *)
LEMMA TablesAreOrders ==
    ASSUME NEW M, NEW S, IsFiniteSet(S), NEW table \in Leaderboards(M, S)
    PROVE  table \in Seq(S) /\ Distinct(table) /\ Len(table) = Cardinality(S)
<1>1. PICK f : /\ Leaderboards(M, S) = f[Cardinality(S)]
               /\ f[0] = {<<>>}
               /\ \A k \in 1..Cardinality(S) : \A t \in f[k] :
                     \E u \in f[k - 1], p \in S : p \notin ToSet(u) /\ t = Append(u, p)
  BY LeaderboardsSteps
<1> DEFINE Good(t, k) == t \in Seq(S) /\ Distinct(t) /\ Len(t) = k
           P == {k \in Nat : k <= Cardinality(S) => \A t \in f[k] : Good(t, k)}
<1>2. 0 \in P
  <2>1. Good(<<>>, 0)
    BY DEF Distinct
  <2> HIDE DEF Good
  <2> QED BY <1>1, <2>1
<1>3. ASSUME NEW k \in Nat, k \in P
      PROVE  k + 1 \in P
  <2> HIDE DEF Good
  <2> SUFFICES ASSUME k + 1 <= Cardinality(S), NEW t \in f[k + 1]
               PROVE  Good(t, k + 1)
    OBVIOUS
  <2>1. Cardinality(S) \in Nat
    BY FS_CardinalityType
  <2>2. k + 1 \in 1..Cardinality(S) /\ (k + 1) - 1 = k /\ k <= Cardinality(S)
    BY <2>1
  <2>3. PICK u \in f[k], p \in S : p \notin ToSet(u) /\ t = Append(u, p)
    BY <1>1, <2>2
  <2>4. Good(u, k)
    BY <1>3, <2>2, <2>3
  <2>5. u \in Seq(S) /\ Distinct(u) /\ Len(u) = k /\ \A i \in DOMAIN u : u[i] # p
    BY <2>3, <2>4 DEF Good, ToSet
  <2>6. /\ t \in Seq(S) /\ Len(t) = k + 1 /\ DOMAIN t = 1..(k + 1) /\ DOMAIN u = 1..k
        /\ \A i \in 1..k : t[i] = u[i]
        /\ t[k + 1] = p
    BY <2>3, <2>5
  <2>7. \A i \in DOMAIN t : i \in DOMAIN u \/ i = k + 1
    BY <2>6
  <2>8. Distinct(t)
    BY <2>5, <2>6, <2>7 DEF Distinct
  <2> QED BY <2>6, <2>8 DEF Good
<1>4. Cardinality(S) \in P
  <2> HIDE DEF P
  <2> QED BY <1>2, <1>3, Induct, FS_CardinalityType
<1> HIDE DEF Good
<1>5. Good(table, Cardinality(S))
  BY <1>1, <1>4, FS_CardinalityType
<1> QED BY <1>5 DEF Good

---------------------------------------------------------------------------
(* Nobody is drawn twice into a round, and the row of a round, created     *)
(* once, is filled by its creator alone.                                   *)
Draft(j) ==
    /\ DOMAIN j = JobRow
    /\ j.op \in {"Open", "Seat", "Bye"} =>
          /\ \E T : j.draw \in Seq(T)
          /\ Apart(j.draw)
    /\ j.op \in {"Seat", "Bye"} => j.n \in rounds
    /\ j.op = "Seat" =>
          \A m \in RoundOf(j.n) : \A i \in DOMAIN j.draw : Sides(m) \cap Couple(j.draw[i]) = {}
    /\ j.op = "Bye" =>
          /\ j.draw # <<>>
          /\ \A m \in RoundOf(j.n) : \A i \in DOMAIN j.draw :
                i # 1 => Sides(m) \cap Couple(j.draw[i]) = {}

DrawInv ==
    /\ field \in Fields
    /\ IsFiniteSet(matches)
    /\ \A m \in matches : DOMAIN m = MatchRow /\ m.n \in rounds
    /\ job = [r \in Request |-> job[r]]
    /\ \A r \in Request : Draft(job[r])
    /\ \A r, q \in Request :
          r # q /\ {job[r].op, job[q].op} \subseteq {"Seat", "Bye"} => job[r].n # job[q].n
    /\ OncePerRound

LEMMA PlayersAreFinite ==
    ASSUME field \in Fields
    PROVE  IsFiniteSet(Player) /\ Cardinality(Player) = field.n /\ NoPlayer \notin Player
<1>1. field.n \in Nat \ {0, 1} /\ NoPlayer \notin 1..field.n
  BY RoundsAssumption
<1>2. PICK n \in Nat \ {0, 1} : n = field.n
  BY <1>1
<1>3. IsFiniteSet(1..n) /\ Cardinality(1..n) = n
  BY FS_Interval
<1> QED BY <1>1, <1>2, <1>3 DEF Player

LEMMA NeighboursApart ==
    ASSUME NEW n \in Nat \ {0}, NEW m \in Neighbours(n), NEW g \in Neighbours(n), m # g
    PROVE  Sides(m) \cap Sides(g) = {}
<1>1. PICK i \in 1..((n + 1) \div 2) :
          m = Match(1, <<2 * i - 1, IF 2 * i <= n THEN 2 * i ELSE NoPlayer>>, 1)
  BY DEF Neighbours
<1>2. PICK j \in 1..((n + 1) \div 2) :
          g = Match(1, <<2 * j - 1, IF 2 * j <= n THEN 2 * j ELSE NoPlayer>>, 1)
  BY DEF Neighbours
<1>3. i # j
  BY <1>1, <1>2
<1>4. Sides(m) \subseteq {2 * i - 1, 2 * i} /\ Sides(g) \subseteq {2 * j - 1, 2 * j}
  BY <1>1, <1>2 DEF Sides, Match
<1>5. {2 * i - 1, 2 * i} \cap {2 * j - 1, 2 * j} = {}
  BY <1>3
<1> QED BY <1>4, <1>5

LEMMA CircleApart ==
    ASSUME NEW n \in Nat \ {0}, NEW m \in Circle(n), NEW g \in Circle(n), m.n = g.n, m # g
    PROVE  Sides(m) \cap Sides(g) = {}
<1> DEFINE size == n + (n % 2)
           seat(r, i) == IF i = 0 THEN 1 ELSE IF i > r THEN i - r + 1 ELSE i - r + size
           who(p) == IF p > n THEN NoPlayer ELSE p
           pair(r, i) == LET p == who(seat(r, i)) q == who(seat(r, size - 1 - i))
                         IN  IF p = NoPlayer THEN <<q, p>> ELSE <<p, q>>
<1>1. size \in Nat /\ size > 0 /\ size = 2 * (size \div 2)
  OBVIOUS
<1>2. PICK r \in 0..(size - 2), i \in 0..(size \div 2 - 1) : m = Match(r + 1, pair(r, i), 1)
  BY DEF Circle
<1>3. PICK s \in 0..(size - 2), j \in 0..(size \div 2 - 1) : g = Match(s + 1, pair(s, j), 1)
  BY DEF Circle
<1>4. \A a, b : /\ Match(a + 1, b, 1).n = a + 1
                /\ Match(a + 1, b, 1).one = b[1] /\ Match(a + 1, b, 1).two = b[2]
  BY DEF Match
<1>5. r = s
  <2>1. m.n = r + 1 /\ g.n = s + 1
    BY <1>2, <1>3, <1>4
  <2>2. r \in Int /\ s \in Int
    OBVIOUS
  <2>3. r + 1 = s + 1
    <3> HIDE DEF size, pair
    <3> QED BY <2>1
  <2>4. \A a, b \in Int : a + 1 = b + 1 => a = b
    OBVIOUS
  <2> HIDE DEF size, pair
  <2> QED BY <2>2, <2>3, <2>4
<1>6. i # j
  BY <1>2, <1>3, <1>5
<1>7. Sides(m) \subseteq {seat(r, i), seat(r, size - 1 - i)}
      /\ Sides(g) \subseteq {seat(r, j), seat(r, size - 1 - j)}
  <2>1. \A p : who(p) \in {p, NoPlayer}
    OBVIOUS
  <2>2. \A k : pair(r, k)[1] \in {seat(r, k), seat(r, size - 1 - k), NoPlayer}
               /\ pair(r, k)[2] \in {seat(r, k), seat(r, size - 1 - k), NoPlayer}
    <3> HIDE DEF who, seat, size
    <3> QED BY <2>1
  <2>3. m.one = pair(r, i)[1] /\ m.two = pair(r, i)[2]
        /\ g.one = pair(r, j)[1] /\ g.two = pair(r, j)[2]
    <3> HIDE DEF pair, size
    <3> QED BY <1>2, <1>3, <1>4, <1>5
  <2> HIDE DEF pair, seat, size
  <2> QED BY <2>2, <2>3 DEF Sides
<1>8. \A a, b \in 0..(size - 1) : seat(r, a) = seat(r, b) => a = b
  BY <1>1
<1>9. /\ {i, j, size - 1 - i, size - 1 - j} \subseteq 0..(size - 1)
      /\ i # size - 1 - j /\ j # size - 1 - i /\ size - 1 - i # size - 1 - j
  BY <1>1, <1>6
<1> HIDE DEF seat, size
<1> QED BY <1>6, <1>7, <1>8, <1>9

LEMMA FiniteImage ==
    ASSUME NEW S, IsFiniteSet(S), NEW f, DOMAIN f = S
    PROVE  IsFiniteSet({f[x] : x \in S})
<1> DEFINE g == [x \in S |-> f[x]]
           T == {f[x] : x \in S}
<1>1. g \in Surjection(S, T)
  BY DEF Surjection
<1> QED BY <1>1, FS_Surjection

LEMMA FirstRoundsFinite ==
    ASSUME NEW n \in Nat \ {0}
    PROVE  IsFiniteSet(Neighbours(n)) /\ IsFiniteSet(Circle(n))
<1>1. IsFiniteSet(Neighbours(n))
  <2> DEFINE S == 1..((n + 1) \div 2)
             f == [i \in S |-> Match(1, <<2 * i - 1, IF 2 * i <= n THEN 2 * i ELSE NoPlayer>>, 1)]
  <2>1. IsFiniteSet(S)
    BY FS_Interval
  <2>2. Neighbours(n) = {f[i] : i \in S}
    BY DEF Neighbours
  <2> HIDE DEF S, f
  <2>3. DOMAIN f = S
    BY DEF f
  <2> QED BY <2>1, <2>2, <2>3, FiniteImage
<1>2. IsFiniteSet(Circle(n))
  <2> DEFINE size == n + (n % 2)
             seat(r, i) == IF i = 0 THEN 1 ELSE IF i > r THEN i - r + 1 ELSE i - r + size
             who(p) == IF p > n THEN NoPlayer ELSE p
             pair(r, i) == LET p == who(seat(r, i)) q == who(seat(r, size - 1 - i))
                           IN  IF p = NoPlayer THEN <<q, p>> ELSE <<p, q>>
             A == 0..(size - 2)
             B == 0..(size \div 2 - 1)
             f == [c \in A \X B |-> Match(c[1] + 1, pair(c[1], c[2]), 1)]
  <2>1. IsFiniteSet(A \X B)
    <3>1. size - 2 \in Int /\ size \div 2 - 1 \in Int
      OBVIOUS
    <3>2. IsFiniteSet(A) /\ IsFiniteSet(B)
      BY <3>1, FS_Interval
    <3> HIDE DEF A, B
    <3> QED BY <3>2, FS_Product
  <2>2. Circle(n) = {Match(r + 1, pair(r, i), 1) : r \in A, i \in B}
    BY DEF Circle
  <2> HIDE DEF A, B, pair
  <2>3. Circle(n) = {f[c] : c \in A \X B}
    <3> DEFINE Z(r, i) == Match(r + 1, pair(r, i), 1)
    <3>1. \A r \in A, i \in B : <<r, i>> \in A \X B /\ f[<<r, i>>] = Z(r, i)
      OBVIOUS
    <3>2. \A c \in A \X B : c[1] \in A /\ c[2] \in B /\ f[c] = Z(c[1], c[2])
      OBVIOUS
    <3>3. Circle(n) = {Z(r, i) : r \in A, i \in B}
      BY <2>2
    <3> HIDE DEF f, Z
    <3>4. \A m \in Circle(n) : m \in {f[c] : c \in A \X B}
      <4> SUFFICES ASSUME NEW m \in Circle(n)
                   PROVE  m \in {f[c] : c \in A \X B}
        OBVIOUS
      <4>1. PICK r \in A, i \in B : m = Z(r, i)
        BY <3>3
      <4> QED BY <3>1, <4>1
    <3>5. \A c \in A \X B : f[c] \in Circle(n)
      BY <3>2, <3>3
    <3> QED BY <3>4, <3>5
  <2>4. DOMAIN f = A \X B
    OBVIOUS
  <2> HIDE DEF f
  <2> QED BY <2>1, <2>3, <2>4, FiniteImage
<1> QED BY <1>1, <1>2

LEMMA DrawInit == Init => DrawInv
<1> SUFFICES ASSUME Init
             PROVE  DrawInv
  OBVIOUS
<1> DEFINE M == IF field.system = "ROUND_ROBIN" THEN Circle(field.n) ELSE Neighbours(field.n)
<1>1. field.n \in Nat \ {0} /\ field \in Fields
  BY RoundsAssumption DEF Init
<1>2. IsFiniteSet(M)
  BY <1>1, FirstRoundsFinite
<1>3. \A m, g \in M : m.n = g.n /\ m # g => Sides(m) \cap Sides(g) = {}
  BY <1>1, NeighboursApart, CircleApart
<1>4. \A m \in M : DOMAIN m = MatchRow
  <2>1. \A m \in Neighbours(field.n) : DOMAIN m = MatchRow
    BY DEF Neighbours, Match, MatchRow
  <2>2. \A m \in Circle(field.n) : DOMAIN m = MatchRow
    BY DEF Circle, Match, MatchRow
  <2> QED BY <2>1, <2>2
<1> HIDE DEF M
<1>5. matches = {IF m.bye THEN Benched(m) ELSE m : m \in M}
  BY DEF Init, Drawn, M
<1>6. IsFiniteSet(matches)
  <2> DEFINE f == [m \in M |-> IF m.bye THEN Benched(m) ELSE m]
  <2>1. matches = {f[m] : m \in M}
    BY <1>5
  <2>2. DOMAIN f = M
    OBVIOUS
  <2> HIDE DEF f
  <2> QED BY <1>2, <2>1, <2>2, FiniteImage
<1>7. \A x \in matches : \E m \in M :
         /\ x = IF m.bye THEN Benched(m) ELSE m
         /\ DOMAIN x = MatchRow /\ x.n = m.n /\ Sides(x) = Sides(m)
  BY <1>4, <1>5 DEF Benched, Sides, MatchRow
<1>8. OncePerRound
  BY <1>3, <1>7 DEF OncePerRound
<1>9. \A r \in Request : job[r] = Idle
  BY DEF Init
<1>10. Idle.op = "Idle" /\ DOMAIN Idle = JobRow
  BY DEF Idle, Job, JobRow
<1>11. \A r \in Request : Draft(job[r])
  BY <1>9, <1>10 DEF Draft
<1>12. \A m \in matches : m.n \in rounds
  BY DEF Init
<1>13. job = [r \in Request |-> job[r]]
  BY DEF Init
<1> QED BY <1>1, <1>6, <1>7, <1>8, <1>9, <1>10, <1>11, <1>12, <1>13 DEF DrawInv

(* What a step writes for request r, and the rows it adds or rewrites,     *)
(* leave the drafts of the others alone.                                   *)
LEMMA DrawStep ==
    ASSUME DrawInv, UNCHANGED field, rounds \subseteq rounds', IsFiniteSet(matches'),
           NEW r \in Request, NEW j, job' = [job EXCEPT ![r] = j], Draft(j)',
           j.op \in {"Seat", "Bye"} => \A q \in Request \ {r} :
              job[q].op \in {"Seat", "Bye"} => job[q].n # j.n,
           \A m \in matches' \ matches :
              /\ DOMAIN m = MatchRow /\ m.n \in rounds'
              /\ \/ \E g \in matches : g.n = m.n /\ Sides(g) = Sides(m)
                 \/ \A q \in Request \ {r} : job[q].op \in {"Seat", "Bye"} => job[q].n # m.n,
           OncePerRound'
    PROVE  DrawInv'
<1>1. job' = [q \in Request |-> job'[q]] /\ job'[r] = j /\ \A q \in Request \ {r} : job'[q] = job[q]
  BY DEF DrawInv
<1>2. \A m \in matches' : DOMAIN m = MatchRow /\ m.n \in rounds'
  BY DEF DrawInv
<1>3. ASSUME NEW q \in Request \ {r}
      PROVE  Draft(job[q])'
  <2> PICK k : k = job[q]
    OBVIOUS
  <2>1. Draft(k) /\ job'[q] = k
    BY <1>1 DEF DrawInv
  <2>2. ASSUME k.op \in {"Seat", "Bye"}, NEW m \in RoundOf(k.n)'
        PROVE  \E g \in RoundOf(k.n) : Sides(g) = Sides(m)
    <3>1. m \in matches' /\ m.n = k.n
      BY DEF RoundOf
    <3>2. CASE m \in matches
      BY <3>1, <3>2 DEF RoundOf
    <3>3. CASE m \notin matches
      <4>1. \E g \in matches : g.n = m.n /\ Sides(g) = Sides(m)
        BY <2>2, <3>1, <3>3
      <4> QED BY <3>1, <4>1 DEF RoundOf
    <3> QED BY <3>2, <3>3
  <2>3. Draft(k)'
    BY <2>1, <2>2 DEF Draft
  <2> QED BY <2>1, <2>3
<1>4. \A q \in Request : Draft(job[q])'
  BY <1>1, <1>3
<1>5. \A p, q \in Request :
         p # q /\ {job'[p].op, job'[q].op} \subseteq {"Seat", "Bye"} => job'[p].n # job'[q].n
  BY <1>1 DEF DrawInv
<1> QED BY <1>1, <1>2, <1>4, <1>5 DEF DrawInv

(* A match is rewritten with the same players in the same round.           *)
LEMMA DrawRewrite ==
    ASSUME DrawInv, UNCHANGED <<field, rounds>>, NEW m \in matches, NEW g, Replace(m, g),
           DOMAIN g = MatchRow, g.n = m.n, Sides(g) = Sides(m),
           NEW r \in Request, NEW j, job' = [job EXCEPT ![r] = j], Draft(j)',
           j.op \in {"Seat", "Bye"} => \A q \in Request \ {r} :
              job[q].op \in {"Seat", "Bye"} => job[q].n # j.n
    PROVE  DrawInv'
<1>1. matches' = (matches \ {m}) \cup {g}
  BY DEF Replace
<1>2. IsFiniteSet(matches')
  <2>1. IsFiniteSet(matches \ {m})
    BY FS_Subset DEF DrawInv
  <2> QED BY <1>1, <2>1, FS_AddElement
<1>3. OncePerRound'
  <2> SUFFICES ASSUME NEW x \in matches', NEW y \in matches', x.n = y.n, x # y
               PROVE  Sides(x) \cap Sides(y) = {}
    BY DEF OncePerRound
  <2>1. \A a, b \in matches : a.n = b.n /\ a # b => Sides(a) \cap Sides(b) = {}
    BY DEF DrawInv, OncePerRound
  <2>2. x = g \/ (x \in matches /\ x # m)
    BY <1>1
  <2>3. y = g \/ (y \in matches /\ y # m)
    BY <1>1
  <2> QED BY <2>1, <2>2, <2>3
<1>4. \A x \in matches' \ matches : DOMAIN x = MatchRow /\ x.n \in rounds'
         /\ \E y \in matches : y.n = x.n /\ Sides(y) = Sides(x)
  BY <1>1 DEF DrawInv
<1> QED BY <1>2, <1>3, <1>4, DrawStep

(* Nothing is written but what a request does next, and it is not seating. *)
LEMMA DrawOn ==
    ASSUME DrawInv, UNCHANGED <<field, rows>>, NEW r \in Request, NEW j,
           job' = [job EXCEPT ![r] = j], DOMAIN j = JobRow, j.op \notin {"Open", "Seat", "Bye"}
    PROVE  DrawInv'
<1>1. Draft(j)'
  BY DEF Draft
<1>2. IsFiniteSet(matches') /\ OncePerRound'
  BY DEF DrawInv, OncePerRound, rows
<1> QED BY <1>1, <1>2, DrawStep DEF rows

LEMMA DrawReport ==
    ASSUME DrawInv, NEW r \in Request, NEW m \in matches, NEW w, Report(r, m, w)
    PROVE  DrawInv'
<1> DEFINE g == [m EXCEPT !.done = TRUE, !.winner = w, !.scored = w # NoPlayer /\ ~m.bye]
           j == [Job("Check", 0) EXCEPT !.todo = <<Name(m)>>]
<1>1. UNCHANGED <<field, rounds>> /\ job' = [job EXCEPT ![r] = j] /\ Replace(m, g)
  BY DEF Report, Begins
<1>2. DOMAIN m = MatchRow
  BY DEF DrawInv
<1>3. DOMAIN g = MatchRow /\ g.n = m.n /\ Sides(g) = Sides(m)
  BY <1>2 DEF MatchRow, Sides
<1>4. DOMAIN j = JobRow /\ j.op = "Check"
  BY DEF Job, JobRow
<1> HIDE DEF g, j
<1>5. Draft(j)'
  BY <1>4 DEF Draft
<1> QED BY <1>1, <1>3, <1>4, <1>5, DrawRewrite

LEMMA DrawReset ==
    ASSUME DrawInv, NEW r \in Request, NEW m \in matches, Reset(r, m)
    PROVE  DrawInv'
<1> DEFINE g == [m EXCEPT !.done = FALSE, !.winner = NoPlayer, !.scored = FALSE]
<1>1. UNCHANGED <<field, rounds, job>> /\ Replace(m, g) /\ job[r] = Idle
  BY DEF Reset
<1>2. DOMAIN m = MatchRow
  BY DEF DrawInv
<1>3. DOMAIN g = MatchRow /\ g.n = m.n /\ Sides(g) = Sides(m)
  BY <1>2 DEF MatchRow, Sides
<1> HIDE DEF g
<1>4. PICK j : j = Idle
  OBVIOUS
<1>5. DOMAIN j = JobRow /\ j.op = "Idle"
  BY <1>4 DEF Idle, Job, JobRow
<1>6. Draft(j)'
  BY <1>5 DEF Draft
<1>7. job' = [job EXCEPT ![r] = j]
  BY <1>1, <1>4 DEF DrawInv
<1> QED BY <1>1, <1>3, <1>5, <1>6, <1>7, DrawRewrite

LEMMA DrawForfeit ==
    ASSUME DrawInv, NEW r \in Request, NEW p, Forfeit(r, p)
    PROVE  DrawInv'
<1>1. PICK open : Begins(r, [Job("Walkover", 0) EXCEPT !.p = p, !.open = open])
  BY DEF Forfeit
<1>2. PICK j : j = [Job("Walkover", 0) EXCEPT !.p = p, !.open = open]
  OBVIOUS
<1>3. DOMAIN j = JobRow /\ j.op = "Walkover"
  BY <1>2 DEF Job, JobRow
<1>4. UNCHANGED <<field, rows>> /\ job' = [job EXCEPT ![r] = j]
  BY <1>1, <1>2 DEF Forfeit, Begins
<1> QED BY <1>3, <1>4, DrawOn

LEMMA DrawThen ==
    ASSUME DrawInv, UNCHANGED <<field, rows>>, NEW r \in Request, NEW op, Then(r, op),
           op \notin {"Open", "Seat", "Bye"}
    PROVE  DrawInv'
<1>1. PICK j : j = [job[r] EXCEPT !.op = op]
  OBVIOUS
<1>2. DOMAIN j = JobRow /\ j.op = op
  BY <1>1 DEF DrawInv, Draft, JobRow
<1> QED BY <1>1, <1>2, DrawOn DEF Then

LEMMA DrawFails ==
    ASSUME DrawInv, UNCHANGED <<field, rows>>, NEW r \in Request, Fails(r)
    PROVE  DrawInv'
<1>1. PICK j : j = Idle
  OBVIOUS
<1>2. DOMAIN j = JobRow /\ j.op = "Idle"
  BY <1>1 DEF Idle, Job, JobRow
<1> QED BY <1>1, <1>2, DrawOn DEF Fails

LEMMA DrawWalkover ==
    ASSUME DrawInv, NEW r \in Request, Walkover(r)
    PROVE  DrawInv'
<1>1. UNCHANGED <<field, rounds>>
  BY DEF Walkover
<1>2. CASE job[r].open = {}
  BY <1>2, DrawFails DEF Walkover, rows
<1>3. CASE job[r].open # {}
  <2>1. PICK k \in job[r].open : \E m \in Named(k) :
            IF m.done
            THEN job' = [job EXCEPT ![r].open = @ \ {k}] /\ UNCHANGED matches
            ELSE /\ Replace(m, [m EXCEPT !.done = TRUE, !.winner = Opponent(m, job[r].p)])
                 /\ job' = [job EXCEPT ![r].open = @ \ {k}, ![r].op = "Check", ![r].todo = <<k>>]
    BY <1>3 DEF Walkover
  <2>2. PICK m \in matches :
            IF m.done
            THEN job' = [job EXCEPT ![r].open = @ \ {k}] /\ UNCHANGED matches
            ELSE /\ Replace(m, [m EXCEPT !.done = TRUE, !.winner = Opponent(m, job[r].p)])
                 /\ job' = [job EXCEPT ![r].open = @ \ {k}, ![r].op = "Check", ![r].todo = <<k>>]
    BY <2>1 DEF Named
  <2>3. DOMAIN job[r] = JobRow /\ job[r].op = "Walkover" /\ r \in DOMAIN job
    BY DEF DrawInv, Draft, Walkover, Runs
  <2>4. CASE m.done
    <3> PICK j : j = [job[r] EXCEPT !.open = @ \ {k}]
      OBVIOUS
    <3>1. job' = [job EXCEPT ![r] = j] /\ UNCHANGED matches
      BY <2>2, <2>4
    <3>2. DOMAIN j = JobRow /\ j.op = "Walkover"
      BY <2>3 DEF JobRow
    <3> QED BY <1>1, <3>1, <3>2, DrawOn DEF rows
  <2>5. CASE ~m.done
    <3> PICK j : j = [job[r] EXCEPT !.open = @ \ {k}, !.op = "Check", !.todo = <<k>>]
      OBVIOUS
    <3> DEFINE g == [m EXCEPT !.done = TRUE, !.winner = Opponent(m, job[r].p)]
    <3>1. job' = [job EXCEPT ![r] = j] /\ Replace(m, g)
      BY <2>2, <2>3, <2>5
    <3>2. DOMAIN j = JobRow /\ j.op = "Check"
      BY <2>3 DEF JobRow
    <3>3. DOMAIN m = MatchRow
      BY DEF DrawInv
    <3>4. DOMAIN g = MatchRow /\ g.n = m.n /\ Sides(g) = Sides(m)
      BY <3>3 DEF MatchRow, Sides
    <3>5. Draft(j)'
      BY <3>2 DEF Draft
    <3>6. PICK h : h = g
      OBVIOUS
    <3> HIDE DEF g
    <3> QED BY <1>1, <3>1, <3>2, <3>4, <3>5, <3>6, DrawRewrite
  <2> QED BY <2>4, <2>5
<1> QED BY <1>2, <1>3

LEMMA DrawCheck ==
    ASSUME DrawInv, NEW r \in Request, Check(r)
    PROVE  DrawInv'
<1>1. UNCHANGED <<field, rows>>
  BY DEF Check
<1>2. CASE job[r].todo = <<>>
  BY <1>1, <1>2, DrawThen DEF Check
<1>3. CASE job[r].todo # <<>>
  <2>1. PICK m \in matches :
            LET j   == [job[r] EXCEPT !.todo = Tail(@), !.n = m.n + 1, !.phase = 1]
                won == {g.winner : g \in RoundOf(m.n)} \ {NoPlayer}
                go(op) == job' = [job EXCEPT ![r] = [j EXCEPT !.op = op]]
            IN  IF ~Over(m) THEN go("Check")
                ELSE IF m.phase = 2
                THEN IF won = {} THEN go("Check")
                     ELSE job' = [job EXCEPT ![r] =
                                     [j EXCEPT !.op = "Crown", !.p = Max(won)]]
                ELSE IF field.system # "ROUND_ROBIN" /\ m.n < field.rounds THEN go("Pair")
                ELSE go(IF field.system = "HYBRID" THEN "Cut" ELSE "Final")
    BY <1>3 DEF Check, Named
  <2>2. PICK j : j = [job[r] EXCEPT !.todo = Tail(@), !.n = m.n + 1, !.phase = 1]
    OBVIOUS
  <2>3. PICK won : won = {g.winner : g \in RoundOf(m.n)} \ {NoPlayer}
    OBVIOUS
  <2>4. DOMAIN j = JobRow
    BY <2>2 DEF DrawInv, Draft, JobRow
  <2>5. \/ \E op \in {"Check", "Pair", "Cut", "Final"} : job' = [job EXCEPT ![r] = [j EXCEPT !.op = op]]
        \/ job' = [job EXCEPT ![r] = [j EXCEPT !.op = "Crown", !.p = Max(won)]]
    BY <2>1, <2>2, <2>3
  <2>6. ASSUME NEW op \in {"Check", "Pair", "Cut", "Final"},
               job' = [job EXCEPT ![r] = [j EXCEPT !.op = op]]
        PROVE  DrawInv'
    <3> PICK i : i = [j EXCEPT !.op = op]
      OBVIOUS
    <3>1. DOMAIN i = JobRow /\ i.op = op
      BY <2>4 DEF JobRow
    <3> QED BY <1>1, <2>6, <3>1, DrawOn
  <2>7. ASSUME job' = [job EXCEPT ![r] = [j EXCEPT !.op = "Crown", !.p = Max(won)]]
        PROVE  DrawInv'
    <3> PICK i : i = [j EXCEPT !.op = "Crown", !.p = Max(won)]
      OBVIOUS
    <3>1. DOMAIN i = JobRow /\ i.op = "Crown"
      BY <2>4 DEF JobRow
    <3> QED BY <1>1, <2>7, <3>1, DrawOn
  <2> QED BY <2>5, <2>6, <2>7
<1> QED BY <1>2, <1>3

LEMMA DrawPair ==
    ASSUME DrawInv, NEW r \in Request, Pair(r)
    PROVE  DrawInv'
<1>1. PICK table \in Leaderboards(matches, Player) :
         LET draw == SwissDraw(Without(table, forfeited))
         IN  job' = [job EXCEPT ![r].op = "Open", ![r].draw = draw,
                ![r].todo = [i \in DOMAIN draw |-> <<job[r].n, draw[i][1]>>] \o @]
  BY DEF Pair
<1>2. UNCHANGED <<field, rows>> /\ field \in Fields /\ IsFiniteSet(matches)
  BY DEF Pair, DrawInv
<1>3. table \in Seq(Player) /\ Distinct(table)
  BY <1>2, PlayersAreFinite, TablesAreOrders
<1>4. PICK order : order = Without(table, forfeited)
  OBVIOUS
<1>5. order \in Seq(Player) /\ Distinct(order)
  BY <1>3, <1>4, WithoutKeeps
<1>6. \A q : Points(matches, q) \in Int
  BY <1>2, MatchesGivePoints
<1>7. PICK draw : draw = SwissDraw(order)
  OBVIOUS
<1>8. (\E T : draw \in Seq(T)) /\ Apart(draw)
  BY <1>5, <1>6, <1>7, DrawIsApart
<1>9. PICK todo : job' = [job EXCEPT ![r].op = "Open", ![r].draw = draw, ![r].todo = todo]
  BY <1>1, <1>4, <1>7
<1>10. PICK j : j = [job[r] EXCEPT !.op = "Open", !.draw = draw, !.todo = todo]
  OBVIOUS
<1>11. DOMAIN j = JobRow /\ j.op = "Open" /\ j.draw = draw
  BY <1>10 DEF DrawInv, Draft, JobRow
<1>12. job' = [job EXCEPT ![r] = j]
  BY <1>9, <1>10 DEF DrawInv
<1>13. Draft(j)'
  BY <1>8, <1>11 DEF Draft
<1>14. OncePerRound' /\ IsFiniteSet(matches')
  BY <1>2 DEF DrawInv, OncePerRound, rows
<1> QED BY <1>2, <1>11, <1>12, <1>13, <1>14, DrawStep DEF rows

LEMMA DrawCut ==
    ASSUME DrawInv, NEW r \in Request, Cut(r)
    PROVE  DrawInv'
<1>1. PICK table : job' = [job EXCEPT ![r] =
                    IF field.cut < 2 THEN [@ EXCEPT !.op = "Complete"]
                    ELSE [@ EXCEPT !.op = "Open", !.n = Max(rounds) + 1, !.phase = 2,
                                   !.draw = <<<<table[1], table[2]>>>>]]
  BY DEF Cut
<1>2. UNCHANGED <<field, rows>>
  BY DEF Cut
<1>3. CASE field.cut < 2
  <2>1. Then(r, "Complete")
    BY <1>1, <1>3 DEF Then
  <2> QED BY <1>2, <2>1, DrawThen
<1>4. CASE ~(field.cut < 2)
  <2>1. PICK pair : pair = <<table[1], table[2]>>
    OBVIOUS
  <2>2. PICK n : n = Max(rounds) + 1
    OBVIOUS
  <2>3. PICK j : j = [job[r] EXCEPT !.op = "Open", !.n = n, !.phase = 2, !.draw = <<pair>>]
    OBVIOUS
  <2>4. job' = [job EXCEPT ![r] = j]
    BY <1>1, <1>4, <2>1, <2>2, <2>3
  <2>5. DOMAIN j = JobRow /\ j.op = "Open" /\ j.draw = <<pair>>
    BY <2>3 DEF DrawInv, Draft, JobRow
  <2>6. <<pair>> \in Seq({pair}) /\ Apart(<<pair>>)
    BY DEF Apart
  <2>7. Draft(j)'
    BY <2>5, <2>6 DEF Draft
  <2>8. OncePerRound' /\ IsFiniteSet(matches')
    BY <1>2 DEF DrawInv, OncePerRound, rows
  <2> QED BY <1>2, <2>4, <2>5, <2>7, <2>8, DrawStep DEF rows
<1> QED BY <1>3, <1>4

LEMMA DrawOpen ==
    ASSUME DrawInv, NEW r \in Request, Open(r)
    PROVE  DrawInv'
<1>1. UNCHANGED <<field, matches>> /\ job[r].op = "Open"
  BY DEF Open, Runs
<1>2. CASE job[r].n \in rounds
  BY <1>1, <1>2, DrawFails DEF Open, rows
<1>3. CASE job[r].n \notin rounds
  <2> PICK n : n = job[r].n
    OBVIOUS
  <2>1. rounds' = rounds \cup {n} /\ Then(r, "Seat")
    BY <1>3 DEF Open
  <2>2. PICK j : j = [job[r] EXCEPT !.op = "Seat"]
    OBVIOUS
  <2>3. job' = [job EXCEPT ![r] = j]
    BY <2>1, <2>2 DEF Then
  <2>4. DOMAIN j = JobRow /\ j.n = n /\ j.op = "Seat" /\ j.draw = job[r].draw
    BY <2>2 DEF DrawInv, Draft, JobRow
  <2>5. RoundOf(n)' = {}
    BY <1>1, <1>3 DEF RoundOf, DrawInv
  <2>6. (\E T : j.draw \in Seq(T)) /\ Apart(j.draw)
    BY <1>1, <2>4 DEF DrawInv, Draft
  <2>7. Draft(j)'
    BY <2>1, <2>4, <2>5, <2>6 DEF Draft
  <2>8. ASSUME NEW q \in Request \ {r}, job[q].op \in {"Seat", "Bye"}
        PROVE  job[q].n # j.n
    BY <1>3, <2>4, <2>8 DEF DrawInv, Draft
  <2>9. OncePerRound' /\ IsFiniteSet(matches')
    BY <1>1 DEF DrawInv, OncePerRound
  <2> QED BY <1>1, <2>1, <2>3, <2>7, <2>8, <2>9, DrawStep
<1> QED BY <1>2, <1>3

LEMMA DrawSeat ==
    ASSUME DrawInv, NEW r \in Request, Seat(r)
    PROVE  DrawInv'
<1>1. UNCHANGED <<field, rounds>> /\ job[r].op = "Seat"
  BY DEF Seat, Runs
<1>2. CASE job[r].draw = <<>>
  BY <1>1, <1>2, DrawThen DEF Seat, rows
<1>3. CASE job[r].draw # <<>>
  <2> PICK n, draw : n = job[r].n /\ draw = job[r].draw
    OBVIOUS
  <2>1. PICK T : draw \in Seq(T)
    BY <1>1 DEF DrawInv, Draft
  <2>2. PICK first, rest : first = Head(draw) /\ rest = Tail(draw)
    OBVIOUS
  <2>3. /\ rest \in Seq(T) /\ first = draw[1] /\ 1 \in DOMAIN draw
        /\ \A i \in DOMAIN rest : rest[i] = draw[i + 1] /\ i + 1 \in DOMAIN draw /\ i + 1 # 1 /\ i \in Nat
    BY <1>3, <2>1, <2>2
  <2>4. PICK m : m = Match(n, first, job[r].phase)
    OBVIOUS
  <2>5. matches' = matches \cup {m}
        /\ job' = IF m.bye THEN [job EXCEPT ![r].op = "Bye"]
                  ELSE [job EXCEPT ![r].draw = Tail(@)]
    BY <1>3, <2>2, <2>4 DEF Seat
  <2>6. DOMAIN m = MatchRow /\ m.n = n /\ Sides(m) = Couple(first)
    BY <2>4 DEF Match, MatchRow, Sides, Couple
  <2>7. /\ Apart(draw) /\ n \in rounds /\ DOMAIN job[r] = JobRow
        /\ \A g \in RoundOf(n) : \A i \in DOMAIN draw : Sides(g) \cap Couple(draw[i]) = {}
        /\ \A q \in Request \ {r} : job[q].op \in {"Seat", "Bye"} => job[q].n # n
    BY <1>1 DEF DrawInv, Draft
  <2>8. \A i \in DOMAIN draw : i # 1 => Sides(m) \cap Couple(draw[i]) = {}
    BY <2>3, <2>6, <2>7 DEF Apart
  <2>9. \A g \in RoundOf(n)' : g \in RoundOf(n) \/ g = m
    BY <2>5 DEF RoundOf
  <2>10. OncePerRound'
    <3>1. \A g \in matches : g.n = n => Sides(g) \cap Sides(m) = {}
      BY <2>3, <2>6, <2>7 DEF RoundOf
    <3> QED BY <2>5, <2>6, <3>1 DEF OncePerRound, DrawInv
  <2>11. IsFiniteSet(matches')
    BY <2>5, FS_AddElement DEF DrawInv
  <2>12. PICK j : /\ job' = [job EXCEPT ![r] = j]
                  /\ j = IF m.bye THEN [job[r] EXCEPT !.op = "Bye"]
                          ELSE [job[r] EXCEPT !.draw = rest]
    BY <2>2, <2>5
  <2>13. \A x \in matches' \ matches :
            /\ DOMAIN x = MatchRow /\ x.n \in rounds'
            /\ \A q \in Request \ {r} : job[q].op \in {"Seat", "Bye"} => job[q].n # x.n
    BY <1>1, <2>5, <2>6, <2>7
  <2>14. rounds \subseteq rounds'
    BY <1>1
  <2>15. CASE m.bye
    <3>1. DOMAIN j = JobRow /\ j.op = "Bye" /\ j.n = n /\ j.draw = draw
      BY <2>7, <2>12, <2>15 DEF JobRow
    <3>2. \A g \in RoundOf(n)' : \A i \in DOMAIN draw :
             i # 1 => Sides(g) \cap Couple(draw[i]) = {}
      BY <2>7, <2>8, <2>9
    <3>3. Draft(j)'
      BY <1>1, <1>3, <2>1, <2>7, <3>1, <3>2 DEF Draft
    <3> QED BY <1>1, <2>7, <2>10, <2>11, <2>12, <2>13, <2>14, <3>1, <3>3, DrawStep
  <2>16. CASE ~m.bye
    <3>1. DOMAIN j = JobRow /\ j.op = "Seat" /\ j.n = n /\ j.draw = rest
      BY <1>1, <2>7, <2>12, <2>16 DEF JobRow
    <3>2. \A g \in RoundOf(n)' : \A i \in DOMAIN rest : Sides(g) \cap Couple(rest[i]) = {}
      BY <2>3, <2>7, <2>8, <2>9
    <3>3. Apart(rest)
      BY <1>3, <2>1, <2>2, <2>7, TailIsApart
    <3>4. Draft(j)'
      BY <1>1, <2>3, <2>7, <3>1, <3>2, <3>3 DEF Draft
    <3>5. \A q \in Request \ {r} : job[q].op \in {"Seat", "Bye"} => job[q].n # j.n
      BY <2>7, <3>1
    <3>6. job' = [job EXCEPT ![r] = j]
      BY <2>12
    <3> QED BY <1>1, <2>10, <2>11, <2>13, <2>14, <3>4, <3>5, <3>6, DrawStep
  <2> QED BY <2>15, <2>16
<1> QED BY <1>2, <1>3

LEMMA DrawBye ==
    ASSUME DrawInv, NEW r \in Request, Bye(r)
    PROVE  DrawInv'
<1>1. UNCHANGED <<field, rounds>> /\ job[r].op = "Bye"
      /\ job' = [job EXCEPT ![r].op = "Seat", ![r].draw = Tail(@)]
  BY DEF Bye, Runs
<1> PICK n, draw : n = job[r].n /\ draw = job[r].draw
  OBVIOUS
<1>2. PICK m \in matches : m.n = n /\ Replace(m, Benched(m))
  BY DEF Bye, Named, Name
<1>3. PICK g : g = Benched(m)
  OBVIOUS
<1>4. DOMAIN m = MatchRow
  BY DEF DrawInv
<1>5. DOMAIN g = MatchRow /\ g.n = m.n /\ Sides(g) = Sides(m)
  BY <1>3, <1>4 DEF MatchRow, Benched, Sides
<1>6. /\ Apart(draw) /\ n \in rounds /\ DOMAIN job[r] = JobRow /\ draw # <<>>
      /\ \A x \in RoundOf(n) : \A i \in DOMAIN draw : i # 1 => Sides(x) \cap Couple(draw[i]) = {}
      /\ \A q \in Request \ {r} : job[q].op \in {"Seat", "Bye"} => job[q].n # n
  BY <1>1 DEF DrawInv, Draft
<1>7. PICK T : draw \in Seq(T)
  BY <1>1 DEF DrawInv, Draft
<1>8. PICK rest : rest = Tail(draw)
  OBVIOUS
<1>9. /\ rest \in Seq(T)
      /\ \A i \in DOMAIN rest : rest[i] = draw[i + 1] /\ i + 1 \in DOMAIN draw /\ i + 1 # 1 /\ i \in Nat
  BY <1>6, <1>7, <1>8
<1>10. PICK j : j = [job[r] EXCEPT !.op = "Seat", !.draw = rest]
  OBVIOUS
<1>11. job' = [job EXCEPT ![r] = j]
  BY <1>1, <1>8, <1>10 DEF DrawInv
<1>12. DOMAIN j = JobRow /\ j.op = "Seat" /\ j.n = n /\ j.draw = rest
  BY <1>6, <1>10 DEF JobRow
<1>13. \A x \in RoundOf(n)' : \E y \in RoundOf(n) : Sides(x) = Sides(y)
  BY <1>2, <1>3, <1>5 DEF RoundOf, Replace
<1>14. \A x \in RoundOf(n)' : \A i \in DOMAIN rest : Sides(x) \cap Couple(rest[i]) = {}
  BY <1>6, <1>9, <1>13
<1>15. Apart(rest)
  BY <1>6, <1>7, <1>8, TailIsApart
<1>16. Draft(j)'
  BY <1>1, <1>6, <1>9, <1>12, <1>14, <1>15 DEF Draft
<1> QED BY <1>1, <1>2, <1>3, <1>5, <1>6, <1>11, <1>12, <1>16, DrawRewrite

LEMMA DrawTie ==
    ASSUME DrawInv, NEW r \in Request, ApplyTiebreakers(r) \/ ExtendRound(r)
    PROVE  DrawInv'
<1>1. CASE ApplyTiebreakers(r)
  <2>1. PICK p : Begins(r, [Job("Crown", 0) EXCEPT !.p = p])
    BY <1>1 DEF ApplyTiebreakers
  <2>2. PICK j : j = [Job("Crown", 0) EXCEPT !.p = p]
    OBVIOUS
  <2>3. UNCHANGED <<field, rows>> /\ job' = [job EXCEPT ![r] = j]
    BY <1>1, <2>1, <2>2 DEF ApplyTiebreakers, Begins
  <2>4. DOMAIN j = JobRow /\ j.op = "Crown"
    BY <2>2 DEF Job, JobRow
  <2> QED BY <2>3, <2>4, DrawOn
<1>2. CASE ExtendRound(r)
  <2>1. PICK j : j = Job("Pair", Max(rounds) + 1)
    OBVIOUS
  <2>2. UNCHANGED <<field, rows>> /\ job' = [job EXCEPT ![r] = j]
    BY <1>2, <2>1 DEF ExtendRound, Begins
  <2>3. DOMAIN j = JobRow /\ j.op = "Pair"
    BY <2>1 DEF Job, JobRow
  <2> QED BY <2>2, <2>3, DrawOn
<1> QED BY <1>1, <1>2

LEMMA DrawFinal ==
    ASSUME DrawInv, NEW r \in Request, Final(r)
    PROVE  DrawInv'
<1>1. UNCHANGED <<field, rows>>
  BY DEF Final
<1>2. CASE TiedOnTop(matches, Player)
  BY <1>1, <1>2, DrawThen DEF Final
<1>3. CASE ~TiedOnTop(matches, Player)
  <2>1. PICK p : job' = [job EXCEPT ![r].op = "Crown", ![r].p = p]
    BY <1>3 DEF Final
  <2>2. PICK j : j = [job[r] EXCEPT !.op = "Crown", !.p = p]
    OBVIOUS
  <2>3. job' = [job EXCEPT ![r] = j]
    BY <2>1, <2>2 DEF DrawInv
  <2>4. DOMAIN j = JobRow /\ j.op = "Crown"
    BY <2>2 DEF DrawInv, Draft, JobRow
  <2> QED BY <1>1, <2>3, <2>4, DrawOn
<1> QED BY <1>2, <1>3

LEMMA DrawNext ==
    ASSUME DrawInv, [Next]_vars
    PROVE  DrawInv'
<1>1. ASSUME NEW r \in Request, Statement(r)
      PROVE  DrawInv'
  <2>1. CASE Crown(r) \/ Complete(r)
    BY <2>1, DrawThen DEF Crown, Complete
  <2> QED BY <1>1, <2>1, DrawWalkover, DrawCheck, DrawFinal, DrawPair, DrawCut, DrawOpen, DrawSeat,
             DrawBye DEF Statement
<1>2. CASE UNCHANGED vars
  BY <1>2 DEF DrawInv, Draft, RoundOf, OncePerRound, vars, rows
<1> QED BY <1>1, <1>2, DrawReport, DrawReset, DrawForfeit, DrawTie DEF Next, Played

(* However many requests draw rounds at once, and whoever is forfeited     *)
(* meanwhile, nobody has two matches in one round, in a field of any size: *)
(* the tables, the greedy pairing and the circle method never name a player*)
(* twice, and a round is created once, under its unique index, and filled  *)
(* by its creator (formats.service.ts 846).                                *)
THEOREM NobodyTwice == Spec => []OncePerRound
<1>1. DrawInv => OncePerRound
  BY DEF DrawInv
<1> QED BY <1>1, DrawInit, DrawNext, PTL DEF Spec

---------------------------------------------------------------------------
(* One request r runs at a time, and the rounds are numbered without gaps. *)
(* A round still to be drawn or seated follows one that is complete, and   *)
(* a round is seated only while it is the last one.                        *)
Follows(n) ==
    /\ n - 1 \in rounds
    /\ n \in extra \/ n > field.rounds + 1 \/ AllDone(RoundOf(n - 1))

Turn(j) ==
    /\ DOMAIN j = JobRow /\ j.n \in Nat /\ j.phase \in {1, 2}
    /\ j.op \in {"Pair", "Open"} => Follows(j.n)
    /\ j.op \in {"Pair", "Open", "Seat", "Bye"} => j.phase = 1 \/ j.n > field.rounds
    /\ j.op = "Cut" =>
          \/ field.rounds + 1 \in rounds
          \/ field.rounds \in rounds /\ AllDone(RoundOf(field.rounds))
    /\ j.op \in {"Seat", "Bye"} => j.n \in rounds /\ j.n + 1 \notin rounds

TurnInv(r) ==
    /\ field.rounds \in Nat
    /\ job = [q \in Request |-> job[q]]
    /\ \A q \in Request \ {r} : job[q] = Idle
    /\ Turn(job[r])
    /\ \E k \in Nat \ {0} : rounds = 1..k
    /\ \A m \in matches :
          /\ DOMAIN m = MatchRow
          /\ m.n \in rounds /\ m.phase \in {1, 2}
          /\ m.phase = 2 => m.n > field.rounds
    /\ \A n \in rounds \cap (2..(field.rounds + 1)) :
          {n - 1, n} \cap extra = {} => AllDone(RoundOf(n - 1))

LEMMA LastRound ==
    ASSUME NEW k \in Nat \ {0}
    PROVE  Max(1..k) = k
  BY DEF Max

LEMMA OneOfACrowd ==
    ASSUME field \in Fields, Serial
    PROVE  \E r \in Request : field.crowd = {r}
<1>1. IsFiniteSet(field.crowd) /\ field.crowd \subseteq Request
  BY RoundsAssumption
<1>2. \E r : field.crowd = {r}
  BY <1>1, FS_Singleton DEF Serial
<1> QED BY <1>1, <1>2

(* Rows that are added, but for those completed, are of rounds that are    *)
(* not over yet.                                                           *)
LEMMA StaysDone ==
    ASSUME NEW n, AllDone(RoundOf(n)), UNCHANGED field,
           \A m \in matches' \ matches : m.done \/ m.n # n
    PROVE  AllDone(RoundOf(n))'
  BY DEF AllDone, RoundOf

LEMMA TurnInit ==
    ASSUME NEW r \in Request, Init, field.system # "ROUND_ROBIN"
    PROVE  TurnInv(r)
<1>1. field.n \in Nat \ {0} /\ field.rounds \in Nat
  BY RoundsAssumption DEF Init
<1>2. \A m \in Neighbours(field.n) :
        DOMAIN m = MatchRow /\ m.n = 1 /\ m.phase = 1
  BY DEF Neighbours, Match, MatchRow
<1>3. \A m \in matches : DOMAIN m = MatchRow /\ m.n = 1 /\ m.phase = 1
  BY <1>2 DEF Init, Drawn, Benched, MatchRow
<1>4. matches # {}
  <2>1. 1 \in 1..((field.n + 1) \div 2)
    BY <1>1
  <2>2. Neighbours(field.n) # {}
    BY <2>1 DEF Neighbours
  <2> QED BY <2>2 DEF Init, Drawn
<1>5. rounds = {1}
  BY <1>3, <1>4 DEF Init
<1>6. rounds = 1..1 /\ 1 \in Nat \ {0}
  BY <1>5
<1>7. Turn(job[r])
  BY DEF Init, Turn, Idle, Job, JobRow
<1>8. rounds \cap (2..(field.rounds + 1)) = {}
  BY <1>1, <1>5
<1>9. \E k \in Nat \ {0} : rounds = 1..k
  BY <1>6
<1>10. job = [q \in Request |-> job[q]] /\ \A q \in Request \ {r} : job[q] = Idle
  BY DEF Init
<1>11. \A m \in matches : m.n \in rounds
  BY <1>3, <1>5
<1> QED BY <1>1, <1>3, <1>7, <1>8, <1>9, <1>10, <1>11 DEF TurnInv

(* A row that a step writes does not undo a round that another follows.    *)
Harmless(m) ==
    /\ DOMAIN m = MatchRow /\ m.n \in rounds /\ m.phase \in {1, 2}
    /\ m.phase = 2 => m.n > field.rounds
    /\ m.done \/ m.n + 1 \notin rounds \/ m.n > field.rounds

LEMMA SameRounds ==
    ASSUME NEW r \in Request, TurnInv(r), UNCHANGED <<field, rounds>>, extra \subseteq extra',
           NEW j, job' = [job EXCEPT ![r] = j], Turn(j)',
           \A m \in matches' \ matches : Harmless(m)
    PROVE  TurnInv(r)'
<1>1. DOMAIN job' = Request /\ (\A q \in Request \ {r} : job'[q] = Idle') /\ job'[r] = j
  BY DEF TurnInv, Idle, Job
<1>2. Turn(job[r])'
  BY <1>1
<1>3. \A m \in matches' : DOMAIN m = MatchRow /\ m.n \in rounds /\ m.phase \in {1, 2}
                            /\ (m.phase = 2 => m.n > field.rounds)
  BY DEF TurnInv, Harmless
<1>4. ASSUME NEW n \in rounds \cap (2..(field.rounds + 1)), {n - 1, n} \cap extra' = {}
      PROVE  AllDone(RoundOf(n - 1))'
  <2>1. AllDone(RoundOf(n - 1))
    BY <1>4 DEF TurnInv
  <2>2. field.rounds \in Nat
    BY DEF TurnInv
  <2>3. ASSUME NEW m \in matches' \ matches, m.n = n - 1
        PROVE  m.done
    BY <2>2, <2>3 DEF Harmless
  <2> QED BY <2>1, <2>3, StaysDone
<1> QED BY <1>1, <1>2, <1>3, <1>4 DEF TurnInv

LEMMA TurnReport ==
    ASSUME NEW r \in Request, TurnInv(r), NEW m \in matches, NEW w, Report(r, m, w)
    PROVE  TurnInv(r)'
<1> DEFINE g == [m EXCEPT !.done = TRUE, !.winner = w, !.scored = w # NoPlayer /\ ~m.bye]
           j == [Job("Check", 0) EXCEPT !.todo = <<Name(m)>>]
<1>1. UNCHANGED <<field, rounds, extra>> /\ job' = [job EXCEPT ![r] = j]
      /\ matches' = (matches \ {m}) \cup {g}
  BY DEF Report, Begins, Replace
<1>2. DOMAIN m = MatchRow /\ m.n \in rounds /\ m.phase \in {1, 2}
      /\ (m.phase = 2 => m.n > field.rounds)
  BY DEF TurnInv
<1>3. DOMAIN g = MatchRow /\ g.n = m.n /\ g.phase = m.phase /\ g.done
  BY <1>2 DEF MatchRow
<1> HIDE DEF g
<1>4. \A x \in matches' \ matches : Harmless(x)
  BY <1>1, <1>2, <1>3 DEF Harmless
<1>5. DOMAIN j = JobRow /\ j.n = 0 /\ j.phase = 1 /\ j.op = "Check"
  BY DEF Job, JobRow
<1> HIDE DEF j
<1>6. Turn(j)'
  BY <1>5 DEF Turn
<1> QED BY <1>1, <1>4, <1>6, SameRounds

LEMMA TurnReset ==
    ASSUME NEW r \in Request, TurnInv(r), field.system # "ROUND_ROBIN",
           NEW m \in matches, Reset(r, m)
    PROVE  TurnInv(r)'
<1> DEFINE g == [m EXCEPT !.done = FALSE, !.winner = NoPlayer, !.scored = FALSE]
<1>1. UNCHANGED <<field, rounds, extra, job>> /\ matches' = (matches \ {m}) \cup {g}
      /\ (m.phase = 1 => \A n \in rounds : n <= m.n)
  BY DEF Reset, Replace
<1>2. DOMAIN m = MatchRow /\ m.n \in rounds /\ m.phase \in {1, 2}
      /\ (m.phase = 2 => m.n > field.rounds) /\ rounds \subseteq Nat
  BY DEF TurnInv
<1>3. DOMAIN g = MatchRow /\ g.n = m.n /\ g.phase = m.phase
  BY <1>2 DEF MatchRow
<1> HIDE DEF g
<1>4. m.n + 1 \notin rounds \/ m.n > field.rounds
  <2>1. m.phase = 1 => \A n \in rounds : n <= m.n
    BY <1>1
  <2>2. m.n \in Nat
    BY <1>2
  <2> QED BY <1>2, <2>1, <2>2
<1>5. \A x \in matches' \ matches : Harmless(x)
  BY <1>1, <1>2, <1>3, <1>4 DEF Harmless
<1>6. job[r] = Idle
  BY DEF Reset
<1>7. Idle.op = "Idle" /\ Idle.n = 0 /\ Idle.phase = 1 /\ DOMAIN Idle = JobRow
  BY DEF Idle, Job, JobRow
<1>8. Turn(Idle)'
  BY <1>7, <1>1 DEF Turn, Idle, Job, JobRow
<1>9. job' = [job EXCEPT ![r] = Idle]
  BY <1>1, <1>6 DEF TurnInv
<1> QED BY <1>1, <1>5, <1>8, <1>9, SameRounds DEF Idle, Job

LEMMA TurnForfeit ==
    ASSUME NEW r \in Request, TurnInv(r), NEW p, Forfeit(r, p)
    PROVE  TurnInv(r)'
<1>1. PICK open : Begins(r, [Job("Walkover", 0) EXCEPT !.p = p, !.open = open])
  BY DEF Forfeit
<1> DEFINE j == [Job("Walkover", 0) EXCEPT !.p = p, !.open = open]
<1>2. DOMAIN j = JobRow /\ j.n = 0 /\ j.phase = 1 /\ j.op = "Walkover"
  BY DEF Job, JobRow
<1>4. UNCHANGED <<field, rounds, matches, extra>> /\ job' = [job EXCEPT ![r] = j]
  BY <1>1 DEF Forfeit, Begins, rows
<1> HIDE DEF j
<1>3. Turn(j)'
  BY <1>2 DEF Turn
<1> QED BY <1>3, <1>4, SameRounds

(* A request goes on with another statement that draws and seats nothing.  *)
LEMMA TurnOver ==
    ASSUME NEW r \in Request, TurnInv(r), UNCHANGED <<field, rows, extra>>, NEW op,
           Then(r, op), op \notin {"Pair", "Open", "Seat", "Bye", "Cut"}
    PROVE  TurnInv(r)'
<1> PICK j : j = [job[r] EXCEPT !.op = op]
  OBVIOUS
<1>1. UNCHANGED <<field, rounds, matches, extra>> /\ job' = [job EXCEPT ![r] = j]
  BY DEF Then, rows
<1>2. DOMAIN j = JobRow /\ j.n = job[r].n /\ j.phase = job[r].phase /\ j.op = op
      /\ j.n \in Nat /\ j.phase \in {1, 2}
  BY DEF TurnInv, Turn, JobRow
<1>3. Turn(j)'
  BY <1>2 DEF Turn
<1> QED BY <1>1, <1>3, SameRounds

LEMMA TurnFails ==
    ASSUME NEW r \in Request, TurnInv(r), UNCHANGED <<field, rows, extra>>, Fails(r)
    PROVE  TurnInv(r)'
<1>1. Idle.op = "Idle" /\ Idle.n = 0 /\ Idle.phase = 1 /\ DOMAIN Idle = JobRow
  BY DEF Idle, Job, JobRow
<1>2. Turn(Idle)'
  BY <1>1 DEF Turn, Idle, Job, JobRow
<1> QED BY <1>2, SameRounds DEF Fails, rows, Idle, Job

LEMMA TurnWalkover ==
    ASSUME NEW r \in Request, TurnInv(r), Walkover(r)
    PROVE  TurnInv(r)'
<1>1. UNCHANGED <<field, rounds, extra>>
  BY DEF Walkover
<1>2. CASE job[r].open = {}
  BY <1>2, TurnFails DEF Walkover, rows
<1>3. CASE job[r].open # {}
  <2>1. PICK k \in job[r].open : \E m \in Named(k) :
            IF m.done
            THEN job' = [job EXCEPT ![r].open = @ \ {k}] /\ UNCHANGED matches
            ELSE /\ Replace(m, [m EXCEPT !.done = TRUE, !.winner = Opponent(m, job[r].p)])
                 /\ job' = [job EXCEPT ![r].open = @ \ {k}, ![r].op = "Check", ![r].todo = <<k>>]
    BY <1>3 DEF Walkover
  <2>2. PICK m \in matches :
            IF m.done
            THEN job' = [job EXCEPT ![r].open = @ \ {k}] /\ UNCHANGED matches
            ELSE /\ Replace(m, [m EXCEPT !.done = TRUE, !.winner = Opponent(m, job[r].p)])
                 /\ job' = [job EXCEPT ![r].open = @ \ {k}, ![r].op = "Check", ![r].todo = <<k>>]
    BY <2>1 DEF Named
  <2>3. DOMAIN job[r] = JobRow /\ job[r].n \in Nat /\ job[r].phase \in {1, 2}
        /\ job[r].op = "Walkover" /\ r \in DOMAIN job
    BY DEF TurnInv, Turn, Walkover, Runs
  <2>4. CASE m.done
    <3> PICK j : j = [job[r] EXCEPT !.open = @ \ {k}]
      OBVIOUS
    <3>1. job' = [job EXCEPT ![r] = j] /\ UNCHANGED matches
      BY <2>2, <2>4
    <3>2. DOMAIN j = JobRow /\ j.n = job[r].n /\ j.phase = job[r].phase /\ j.op = "Walkover"
      BY <2>3 DEF JobRow
    <3>3. Turn(j)'
      BY <2>3, <3>2 DEF Turn
    <3> QED BY <1>1, <3>1, <3>3, SameRounds
  <2>5. CASE ~m.done
    <3> PICK j : j = [job[r] EXCEPT !.open = @ \ {k}, !.op = "Check", !.todo = <<k>>]
      OBVIOUS
    <3> DEFINE g == [m EXCEPT !.done = TRUE, !.winner = Opponent(m, job[r].p)]
    <3>1. job' = [job EXCEPT ![r] = j] /\ matches' = (matches \ {m}) \cup {g}
      BY <2>2, <2>3, <2>5 DEF Replace
    <3>2. DOMAIN j = JobRow /\ j.n = job[r].n /\ j.phase = job[r].phase /\ j.op = "Check"
      BY <2>3 DEF JobRow
    <3>3. DOMAIN m = MatchRow /\ m.n \in rounds /\ m.phase \in {1, 2}
          /\ (m.phase = 2 => m.n > field.rounds)
      BY DEF TurnInv
    <3>4. DOMAIN g = MatchRow /\ g.n = m.n /\ g.phase = m.phase /\ g.done
      BY <3>3 DEF MatchRow
    <3> HIDE DEF g
    <3>5. Turn(j)'
      BY <2>3, <3>2 DEF Turn
    <3>6. \A x \in matches' \ matches : Harmless(x)
      BY <3>1, <3>3, <3>4 DEF Harmless
    <3> QED BY <1>1, <3>1, <3>5, <3>6, SameRounds
  <2> QED BY <2>4, <2>5
<1> QED BY <1>2, <1>3

LEMMA TurnCheck ==
    ASSUME NEW r \in Request, TurnInv(r), field.system # "ROUND_ROBIN", Check(r)
    PROVE  TurnInv(r)'
<1>1. UNCHANGED <<field, rows, extra>> /\ field.rounds \in Nat
  BY DEF Check, TurnInv
<1>2. CASE job[r].todo = <<>>
  BY <1>1, <1>2, TurnOver DEF Check
<1>3. CASE job[r].todo # <<>>
  <2>1. PICK m \in matches :
            LET j   == [job[r] EXCEPT !.todo = Tail(@), !.n = m.n + 1, !.phase = 1]
                won == {g.winner : g \in RoundOf(m.n)} \ {NoPlayer}
                go(op) == job' = [job EXCEPT ![r] = [j EXCEPT !.op = op]]
            IN  IF ~Over(m) THEN go("Check")
                ELSE IF m.phase = 2
                THEN IF won = {} THEN go("Check")
                     ELSE job' = [job EXCEPT ![r] =
                                     [j EXCEPT !.op = "Crown", !.p = Max(won)]]
                ELSE IF field.system # "ROUND_ROBIN" /\ m.n < field.rounds THEN go("Pair")
                ELSE go(IF field.system = "HYBRID" THEN "Cut" ELSE "Final")
    BY <1>3 DEF Check, Named
  <2>2. PICK j : j = [job[r] EXCEPT !.todo = Tail(@), !.n = m.n + 1, !.phase = 1]
    OBVIOUS
  <2>3. PICK won : won = {g.winner : g \in RoundOf(m.n)} \ {NoPlayer}
    OBVIOUS
  <2>4. DOMAIN job[r] = JobRow /\ m.n \in rounds /\ m.n \in Nat
    BY DEF TurnInv, Turn
  <2>5. DOMAIN j = JobRow /\ j.n = m.n + 1 /\ j.phase = 1 /\ j.op = job[r].op
    BY <2>2, <2>4 DEF JobRow
  <2>6. \/ job' = [job EXCEPT ![r] = [j EXCEPT !.op = "Check"]]
        \/ job' = [job EXCEPT ![r] = [j EXCEPT !.op = "Crown", !.p = Max(won)]]
        \/ Over(m) /\ m.n < field.rounds /\ job' = [job EXCEPT ![r] = [j EXCEPT !.op = "Pair"]]
        \/ Over(m) /\ ~(m.n < field.rounds) /\ job' = [job EXCEPT ![r] = [j EXCEPT !.op = "Cut"]]
        \/ job' = [job EXCEPT ![r] = [j EXCEPT !.op = "Final"]]
    BY <2>1, <2>2, <2>3
  <2>7. ASSUME NEW op, op \in {"Check", "Final"}, job' = [job EXCEPT ![r] = [j EXCEPT !.op = op]]
        PROVE  TurnInv(r)'
    <3> PICK i : i = [j EXCEPT !.op = op]
      OBVIOUS
    <3>1. DOMAIN i = JobRow /\ i.n = m.n + 1 /\ i.phase = 1 /\ i.op = op
      BY <2>5 DEF JobRow
    <3>2. Turn(i)'
      BY <2>4, <2>7, <3>1 DEF Turn
    <3> QED BY <1>1, <2>7, <3>2, SameRounds DEF rows
  <2>8. ASSUME job' = [job EXCEPT ![r] = [j EXCEPT !.op = "Crown", !.p = Max(won)]]
        PROVE  TurnInv(r)'
    <3> PICK i : i = [j EXCEPT !.op = "Crown", !.p = Max(won)]
      OBVIOUS
    <3>1. DOMAIN i = JobRow /\ i.n = m.n + 1 /\ i.phase = 1 /\ i.op = "Crown"
      BY <2>5 DEF JobRow
    <3>2. Turn(i)'
      BY <2>4, <3>1 DEF Turn
    <3> QED BY <1>1, <2>8, <3>2, SameRounds DEF rows
  <2>9. ASSUME Over(m), m.n < field.rounds, job' = [job EXCEPT ![r] = [j EXCEPT !.op = "Pair"]]
        PROVE  TurnInv(r)'
    <3> PICK i : i = [j EXCEPT !.op = "Pair"]
      OBVIOUS
    <3>1. DOMAIN i = JobRow /\ i.n = m.n + 1 /\ i.phase = 1 /\ i.op = "Pair" /\ i.n - 1 = m.n
      BY <2>4, <2>5 DEF JobRow
    <3>2. AllDone(RoundOf(m.n))'
      BY <1>1, <2>9 DEF Over, AllDone, RoundOf, rows
    <3>3. Follows(i.n)'
      BY <1>1, <2>4, <3>1, <3>2 DEF Follows, rows
    <3>4. Turn(i)'
      BY <2>4, <3>1, <3>3 DEF Turn
    <3> QED BY <1>1, <2>9, <3>4, SameRounds DEF rows
  <2>10. ASSUME Over(m), ~(m.n < field.rounds), job' = [job EXCEPT ![r] = [j EXCEPT !.op = "Cut"]]
         PROVE  TurnInv(r)'
    <3> PICK i : i = [j EXCEPT !.op = "Cut"]
      OBVIOUS
    <3>1. DOMAIN i = JobRow /\ i.n = m.n + 1 /\ i.phase = 1 /\ i.op = "Cut"
      BY <2>5 DEF JobRow
    <3>2. m.n = field.rounds \/ m.n > field.rounds
      BY <1>1, <2>4, <2>10
    <3>3. m.n > field.rounds => field.rounds + 1 \in rounds
      BY <1>1, <2>4 DEF TurnInv
    <3>4. m.n = field.rounds => AllDone(RoundOf(field.rounds))
      BY <2>10 DEF Over
    <3>5. \/ field.rounds + 1 \in rounds
          \/ field.rounds \in rounds /\ AllDone(RoundOf(field.rounds))
      BY <2>4, <3>2, <3>3, <3>4
    <3>6. Turn(i)'
      BY <1>1, <2>4, <3>1, <3>5 DEF Turn, AllDone, RoundOf, rows
    <3> QED BY <1>1, <2>10, <3>6, SameRounds DEF rows
  <2> QED BY <2>6, <2>7, <2>8, <2>9, <2>10
<1> QED BY <1>2, <1>3

LEMMA TurnPair ==
    ASSUME NEW r \in Request, TurnInv(r), Pair(r)
    PROVE  TurnInv(r)'
<1>1. PICK draw, todo :
          job' = [job EXCEPT ![r].op = "Open", ![r].draw = draw, ![r].todo = todo]
  BY DEF Pair
<1>2. UNCHANGED <<field, rows, extra>> /\ job[r].op = "Pair"
  BY DEF Pair, Runs
<1>3. PICK j : j = [job[r] EXCEPT !.op = "Open", !.draw = draw, !.todo = todo]
  OBVIOUS
<1>4. job' = [job EXCEPT ![r] = j]
  BY <1>1, <1>3 DEF TurnInv
<1>5. DOMAIN j = JobRow /\ j.n = job[r].n /\ j.phase = job[r].phase /\ j.op = "Open"
  BY <1>3 DEF TurnInv, Turn, JobRow
<1>6. Turn(j)'
  BY <1>2, <1>5 DEF TurnInv, Turn, Follows, AllDone, RoundOf, rows
<1> QED BY <1>2, <1>4, <1>6, SameRounds DEF rows

LEMMA TurnCut ==
    ASSUME NEW r \in Request, TurnInv(r), Cut(r)
    PROVE  TurnInv(r)'
<1>1. PICK table : job' = [job EXCEPT ![r] =
                    IF field.cut < 2 THEN [@ EXCEPT !.op = "Complete"]
                    ELSE [@ EXCEPT !.op = "Open", !.n = Max(rounds) + 1, !.phase = 2,
                                   !.draw = <<<<table[1], table[2]>>>>]]
  BY DEF Cut
<1>2. UNCHANGED <<field, rows, extra>> /\ job[r].op = "Cut" /\ field.rounds \in Nat
  BY DEF Cut, Runs, TurnInv
<1>3. PICK k \in Nat \ {0} : rounds = 1..k
  BY DEF TurnInv
<1>4. CASE field.cut < 2
  <2>1. Then(r, "Complete")
    BY <1>1, <1>4 DEF Then
  <2> QED BY <1>2, <2>1, TurnOver
<1>5. CASE ~(field.cut < 2)
  <2>1. PICK j : j = [job[r] EXCEPT !.op = "Open", !.n = Max(rounds) + 1, !.phase = 2,
                                    !.draw = <<<<table[1], table[2]>>>>]
    OBVIOUS
  <2>2. job' = [job EXCEPT ![r] = j]
    BY <1>1, <1>5, <2>1
  <2>3. DOMAIN j = JobRow /\ j.n = Max(rounds) + 1 /\ j.phase = 2 /\ j.op = "Open"
    BY <2>1 DEF TurnInv, Turn, JobRow
  <2>4. j.n = k + 1 /\ j.n - 1 = k /\ k \in rounds
    BY <1>3, <2>3, LastRound
  <2>5. \/ field.rounds + 1 \in rounds
        \/ field.rounds \in rounds /\ AllDone(RoundOf(field.rounds))
    BY <1>2 DEF TurnInv, Turn
  <2>6. j.n > field.rounds + 1 \/ (k = field.rounds /\ AllDone(RoundOf(k)))
    BY <1>2, <1>3, <2>4, <2>5
  <2>7. j.n > field.rounds
    BY <1>2, <2>4, <2>6
  <2>8. Follows(j.n)'
    BY <1>2, <2>4, <2>6 DEF Follows, AllDone, RoundOf, rows
  <2>9. Turn(j)'
    BY <1>2, <2>3, <2>4, <2>7, <2>8 DEF Turn
  <2> QED BY <1>2, <2>2, <2>9, SameRounds DEF rows
<1> QED BY <1>4, <1>5

LEMMA TurnOpen ==
    ASSUME NEW r \in Request, TurnInv(r), Open(r)
    PROVE  TurnInv(r)'
<1>1. UNCHANGED <<field, matches, extra>> /\ job[r].op = "Open" /\ field.rounds \in Nat
  BY DEF Open, Runs, TurnInv
<1>2. CASE job[r].n \in rounds
  BY <1>1, <1>2, TurnFails DEF Open, rows
<1>3. CASE job[r].n \notin rounds
  <2> PICK n : n = job[r].n
    OBVIOUS
  <2>1. rounds' = rounds \cup {n} /\ Then(r, "Seat")
    BY <1>3 DEF Open
  <2>2. PICK k \in Nat \ {0} : rounds = 1..k
    BY DEF TurnInv
  <2>3. Follows(n) /\ n \in Nat /\ (job[r].phase = 1 \/ n > field.rounds)
    BY <1>1 DEF TurnInv, Turn
  <2>4. n = k + 1
    BY <1>3, <2>2, <2>3 DEF Follows
  <2>5. rounds' = 1..n
    BY <2>1, <2>2, <2>4
  <2>6. PICK j : j = [job[r] EXCEPT !.op = "Seat"]
    OBVIOUS
  <2>7. job' = [job EXCEPT ![r] = j]
    BY <2>1, <2>6 DEF Then
  <2>8. DOMAIN j = JobRow /\ j.n = n /\ j.phase = job[r].phase /\ j.op = "Seat"
    BY <2>6 DEF TurnInv, Turn, JobRow
  <2>9. n \in rounds' /\ n + 1 \notin rounds'
    <3>1. n \in 1..n /\ n + 1 \notin 1..n
      BY <2>2, <2>4
    <3> QED BY <2>5, <3>1
  <2>10. Turn(j)'
    BY <1>1, <2>3, <2>8, <2>9 DEF Turn, TurnInv
  <2>11. job' = [q \in Request |-> job'[q]] /\ job'[r] = j
         /\ \A q \in Request \ {r} : job'[q] = Idle'
    BY <2>7 DEF TurnInv, Idle, Job
  <2>12. ASSUME NEW i \in rounds' \cap (2..(field.rounds + 1)), {i - 1, i} \cap extra = {}
         PROVE  AllDone(RoundOf(i - 1))
    <3>1. i \in rounds \/ i = n
      BY <2>1
    <3>2. i = n => n - 1 = i - 1 /\ ~(n > field.rounds + 1) /\ n \notin extra
      BY <1>1, <2>12
    <3>3. CASE i = n
      BY <2>3, <3>2, <3>3 DEF Follows
    <3>4. CASE i \in rounds
      BY <2>12, <3>4 DEF TurnInv
    <3> QED BY <3>1, <3>3, <3>4
  <2>13. \A i \in rounds' \cap (2..(field.rounds + 1)) :
            {i - 1, i} \cap extra = {} => AllDone(RoundOf(i - 1))
    BY <2>12
  <2>14. n \in Nat \ {0}
    BY <2>2, <2>4
  <2> QED BY <1>1, <2>1, <2>5, <2>10, <2>11, <2>13, <2>14 DEF TurnInv, AllDone, RoundOf
<1> QED BY <1>2, <1>3

LEMMA TurnSeat ==
    ASSUME NEW r \in Request, TurnInv(r), Seat(r)
    PROVE  TurnInv(r)'
<1>1. UNCHANGED <<field, rounds, extra>> /\ job[r].op = "Seat"
  BY DEF Seat, Runs
<1>2. CASE job[r].draw = <<>>
  BY <1>1, <1>2, TurnOver DEF Seat, rows
<1>3. CASE job[r].draw # <<>>
  <2>1. PICK m : m = Match(job[r].n, Head(job[r].draw), job[r].phase)
    OBVIOUS
  <2>2. matches' = matches \cup {m}
        /\ job' = IF m.bye THEN [job EXCEPT ![r].op = "Bye"]
                  ELSE [job EXCEPT ![r].draw = Tail(@)]
    BY <1>3, <2>1 DEF Seat
  <2>3. DOMAIN job[r] = JobRow /\ job[r].n \in rounds /\ job[r].n + 1 \notin rounds
        /\ job[r].phase \in {1, 2} /\ job[r].n \in Nat
        /\ (job[r].phase = 1 \/ job[r].n > field.rounds)
    BY <1>1 DEF TurnInv, Turn
  <2>4. Harmless(m)
    BY <2>1, <2>3 DEF Harmless, Match, MatchRow
  <2>5. PICK j : /\ j \in {[job[r] EXCEPT !.op = "Bye"], [job[r] EXCEPT !.draw = Tail(@)]}
                 /\ job' = [job EXCEPT ![r] = j]
    BY <2>2
  <2>6. DOMAIN j = JobRow /\ j.n = job[r].n /\ j.phase = job[r].phase /\ j.op \in {"Seat", "Bye"}
    BY <1>1, <2>3, <2>5 DEF JobRow
  <2>7. Turn(j)'
    BY <1>1, <2>3, <2>6 DEF Turn
  <2> QED BY <1>1, <2>2, <2>4, <2>5, <2>7, SameRounds
<1> QED BY <1>2, <1>3

LEMMA TurnBye ==
    ASSUME NEW r \in Request, TurnInv(r), Bye(r)
    PROVE  TurnInv(r)'
<1>1. UNCHANGED <<field, rounds, extra>> /\ job[r].op = "Bye"
      /\ job' = [job EXCEPT ![r].op = "Seat", ![r].draw = Tail(@)]
  BY DEF Bye, Runs
<1>2. PICK m \in matches : Replace(m, Benched(m))
  BY DEF Bye, Named
<1>3. PICK g : g = Benched(m)
  OBVIOUS
<1>4. DOMAIN m = MatchRow /\ m.n \in rounds /\ m.phase \in {1, 2}
      /\ (m.phase = 2 => m.n > field.rounds)
  BY DEF TurnInv
<1>5. DOMAIN g = MatchRow /\ g.n = m.n /\ g.phase = m.phase /\ g.done
  BY <1>3, <1>4 DEF MatchRow, Benched
<1>6. \A x \in matches' \ matches : Harmless(x)
  BY <1>2, <1>3, <1>4, <1>5 DEF Harmless, Replace
<1>7. PICK j : j = [job[r] EXCEPT !.op = "Seat", !.draw = Tail(@)]
  OBVIOUS
<1>8. job' = [job EXCEPT ![r] = j]
  BY <1>1, <1>7 DEF TurnInv
<1>9. DOMAIN j = JobRow /\ j.n = job[r].n /\ j.phase = job[r].phase /\ j.op = "Seat"
  BY <1>7 DEF TurnInv, Turn, JobRow
<1>10. Turn(j)'
  BY <1>1, <1>9 DEF TurnInv, Turn
<1> QED BY <1>1, <1>6, <1>8, <1>10, SameRounds

LEMMA TurnTie ==
    ASSUME NEW r \in Request, TurnInv(r), ApplyTiebreakers(r) \/ ExtendRound(r)
    PROVE  TurnInv(r)'
<1>1. CASE ApplyTiebreakers(r)
  <2>1. PICK p : Begins(r, [Job("Crown", 0) EXCEPT !.p = p])
    BY <1>1 DEF ApplyTiebreakers
  <2>2. PICK j : j = [Job("Crown", 0) EXCEPT !.p = p]
    OBVIOUS
  <2>3. UNCHANGED <<field, rows, extra>> /\ job' = [job EXCEPT ![r] = j]
    BY <1>1, <2>1, <2>2 DEF ApplyTiebreakers, Begins
  <2>4. DOMAIN j = JobRow /\ j.n = 0 /\ j.phase = 1 /\ j.op = "Crown"
    BY <2>2 DEF Job, JobRow
  <2>5. Turn(j)'
    BY <2>4 DEF Turn
  <2> QED BY <2>3, <2>5, SameRounds DEF rows
<1>2. CASE ExtendRound(r)
  <2>1. PICK k \in Nat \ {0} : rounds = 1..k
    BY DEF TurnInv
  <2>2. PICK j : j = Job("Pair", k + 1)
    OBVIOUS
  <2>3. UNCHANGED <<field, rows>> /\ job' = [job EXCEPT ![r] = j] /\ extra' = extra \cup {k + 1}
    BY <1>2, <2>1, <2>2, LastRound DEF ExtendRound, Begins
  <2>4. DOMAIN j = JobRow /\ j.n = k + 1 /\ j.phase = 1 /\ j.op = "Pair"
    BY <2>2 DEF Job, JobRow
  <2>5. j.n - 1 \in rounds' /\ j.n \in extra' /\ j.n \in Nat
    BY <2>1, <2>3, <2>4 DEF rows
  <2>6. Turn(j)'
    BY <2>4, <2>5 DEF Turn, Follows
  <2> QED BY <2>3, <2>6, SameRounds DEF rows
<1> QED BY <1>1, <1>2

LEMMA TurnStatement ==
    ASSUME NEW r \in Request, TurnInv(r), field.system # "ROUND_ROBIN", Statement(r)
    PROVE  TurnInv(r)'
<1>1. CASE Final(r)
  <2>1. UNCHANGED <<field, rows, extra>> /\ job[r].op = "Final"
    BY <1>1 DEF Final, Runs
  <2>2. CASE TiedOnTop(matches, Player)
    BY <1>1, <2>1, <2>2, TurnOver DEF Final
  <2>3. CASE ~TiedOnTop(matches, Player)
    <3>1. PICK p : job' = [job EXCEPT ![r].op = "Crown", ![r].p = p]
      BY <1>1, <2>3 DEF Final
    <3>2. PICK j : j = [job[r] EXCEPT !.op = "Crown", !.p = p]
      OBVIOUS
    <3>3. job' = [job EXCEPT ![r] = j]
      BY <3>1, <3>2 DEF TurnInv
    <3>4. DOMAIN j = JobRow /\ j.n = job[r].n /\ j.phase = job[r].phase /\ j.op = "Crown"
          /\ j.n \in Nat /\ j.phase \in {1, 2}
      BY <3>2 DEF TurnInv, Turn, JobRow
    <3>5. Turn(j)'
      BY <3>4 DEF Turn
    <3> QED BY <2>1, <3>3, <3>5, SameRounds DEF rows
  <2> QED BY <2>2, <2>3
<1>2. CASE Crown(r)
  BY <1>2, TurnOver DEF Crown
<1>3. CASE Complete(r)
  BY <1>3, TurnOver DEF Complete
<1> QED
  BY <1>1, <1>2, <1>3, TurnWalkover, TurnCheck, TurnPair, TurnCut, TurnOpen, TurnSeat, TurnBye
     DEF Statement

LEMMA TurnNext ==
    ASSUME NEW r \in Request, field.crowd = {r}, field.system # "ROUND_ROBIN",
           TurnInv(r), [Next]_vars
    PROVE  TurnInv(r)'
<1>1. ASSUME NEW q \in Request, NEW m \in matches, NEW w, Report(q, m, w)
      PROVE  TurnInv(r)'
  BY <1>1, TurnReport DEF Report, Begins
<1>2. ASSUME NEW q \in Request, Statement(q) \/ ApplyTiebreakers(q) \/ ExtendRound(q)
      PROVE  TurnInv(r)'
  <2>1. CASE Statement(q)
    <3>1. job[q].op # "Idle"
      BY <2>1 DEF Statement, Walkover, Check, Final, Pair, Cut, Open, Seat, Bye, Crown, Complete,
                  Runs
    <3>2. q = r
      BY <3>1 DEF TurnInv, Idle, Job
    <3> QED BY <2>1, <3>2, TurnStatement
  <2>2. CASE ApplyTiebreakers(q) \/ ExtendRound(q)
    BY <2>2, TurnTie DEF ApplyTiebreakers, ExtendRound, Begins
  <2> QED BY <1>2, <2>1, <2>2
<1>3. ASSUME NEW q \in Request, NEW m \in matches, Reset(q, m)
      PROVE  TurnInv(r)'
  BY <1>3, TurnReset DEF Reset
<1>4. ASSUME NEW q \in Request, NEW p, Forfeit(q, p)
      PROVE  TurnInv(r)'
  BY <1>4, TurnForfeit DEF Forfeit, Begins
<1>5. CASE UNCHANGED vars
  BY <1>5 DEF TurnInv, Turn, Follows, AllDone, RoundOf, vars, rows, Idle, Job
<1> QED BY <1>1, <1>2, <1>3, <1>4, <1>5 DEF Next, Played

(* With one request at a time, a round of a Swiss or hybrid tournament that*)
(* is drawn from the results of the one before it is there only while all  *)
(* of those stand, however results, walkovers, resets and extra rounds are *)
(* ordered: a reset is refused once a round depends on the result, and a   *)
(* round is created only by the completion that closed the one before it   *)
(* (match.service.ts 472, formats.service.ts 764).                         *)
THEOREM DrawsWait == Spec => []NextRoundWaits
<1> DEFINE Inv == /\ field \in Fields
                  /\ \A r \in Request :
                        field.crowd = {r} /\ field.system # "ROUND_ROBIN" => TurnInv(r)
<1>1. Init => Inv
  BY TurnInit DEF Init
<1>2. Inv /\ [Next]_vars => Inv'
  <2> SUFFICES ASSUME Inv, [Next]_vars
               PROVE  Inv'
    OBVIOUS
  <2>1. UNCHANGED field
    BY DEF Next, Played, Statement, Report, Walkover, Check, Final, Pair, Cut, Open, Seat, Bye,
           Crown, Complete, ApplyTiebreakers, ExtendRound, Reset, Forfeit, vars
  <2>2. ASSUME NEW r \in Request, field.crowd = {r}, field.system # "ROUND_ROBIN"
        PROVE  TurnInv(r)'
    BY <2>2, TurnNext
  <2> QED BY <2>1, <2>2
<1>3. Inv => NextRoundWaits
  BY OneOfACrowd DEF NextRoundWaits, TurnInv
<1> HIDE DEF Inv
<1> QED BY <1>1, <1>2, <1>3, PTL DEF Spec

---------------------------------------------------------------------------
(* With one request r at a time, a second bye is given only when everybody *)
(* still in the tournament has had one.  A draw has at most one bye, its   *)
(* last entry, and it was fair when it was drawn; nothing comes in between.*)
Twice(p) ==
    \E m, g \in matches : m # g /\ m.bye /\ g.bye /\ m.one = p /\ g.one = p
Rested   == \A q \in Player \ forfeited : SatOut(q)
Fair(p)  == SatOut(p) => Rested

Benching(j) ==
    /\ j.op \in {"Open", "Seat"} => \A i \in DOMAIN j.draw :
          j.draw[i][2] = NoPlayer => i = Len(j.draw) /\ Fair(j.draw[i][1])
    /\ j.op = "Bye" => \A i \in DOMAIN j.draw : i # 1 => j.draw[i][2] # NoPlayer

ByeInv(r) ==
    /\ DrawInv
    /\ \A q \in Request \ {r} : job[q] = Idle
    /\ Benching(job[r])
    /\ \A p \in Player : Twice(p) => Rested

LEMMA WithoutCovers ==
    ASSUME NEW T, NEW order \in Seq(T), NEW S, NEW h \in 1..Len(order), order[h] \notin S
    PROVE  \E i \in DOMAIN Without(order, S) : Without(order, S)[i] = order[h]
<1>1. PICK f : /\ Without(order, S) = f[Len(order)]
               /\ f[0] = <<>>
               /\ \A k \in 1..Len(order) :
                     f[k] = IF order[k] \in S THEN f[k - 1] ELSE Append(f[k - 1], order[k])
  BY WithoutSteps
<1> DEFINE Good(k) == /\ f[k] \in Seq(T)
                      /\ h <= k => \E i \in 1..Len(f[k]) : f[k][i] = order[h]
           P == {k \in Nat : k <= Len(order) => Good(k)}
<1>2. 0 \in P
  <2>1. Good(0)
    BY <1>1
  <2> HIDE DEF Good
  <2> QED BY <2>1
<1>3. ASSUME NEW k \in Nat, k \in P
      PROVE  k + 1 \in P
  <2> SUFFICES ASSUME k + 1 <= Len(order)
               PROVE  Good(k + 1)
    OBVIOUS
  <2>1. Good(k)
    BY <1>3
  <2>2. f[k + 1] = IF order[k + 1] \in S THEN f[k] ELSE Append(f[k], order[k + 1])
    BY <1>1
  <2>3. CASE order[k + 1] \in S
    BY <2>1, <2>2, <2>3
  <2>4. CASE order[k + 1] \notin S
    <3> PICK s \in Seq(T) : s = f[k]
      BY <2>1
    <3> PICK x \in T : x = order[k + 1]
      OBVIOUS
    <3>1. f[k + 1] = Append(s, x) /\ Append(s, x) \in Seq(T) /\ Len(Append(s, x)) = Len(s) + 1
          /\ Len(s) \in Nat
      BY <2>2, <2>4
    <3>2. /\ \A i \in 1..Len(s) : Append(s, x)[i] = s[i]
          /\ Append(s, x)[Len(s) + 1] = x
      OBVIOUS
    <3>3. h <= k => \E i \in 1..Len(s) : s[i] = order[h]
      BY <2>1
    <3>4. h <= k + 1 => h <= k \/ h = k + 1
      OBVIOUS
    <3>5. h <= k + 1 => \E i \in 1..(Len(s) + 1) : Append(s, x)[i] = order[h]
      BY <3>1, <3>2, <3>3, <3>4
    <3> QED BY <3>1, <3>5
  <2> QED BY <2>3, <2>4
<1>4. Good(Len(order))
  <2>1. Len(order) \in P
    <3> HIDE DEF P
    <3> QED BY <1>2, <1>3, Induct
  <2> QED BY <2>1
<1> QED BY <1>1, <1>4

(* A table lists everybody.                                                *)
LEMMA TablesCover ==
    ASSUME NEW M, NEW S, IsFiniteSet(S), NEW table \in Leaderboards(M, S), NEW p \in S
    PROVE  \E i \in 1..Len(table) : table[i] = p
<1>1. table \in Seq(S) /\ Distinct(table) /\ Len(table) = Cardinality(S) /\ Cardinality(S) \in Nat
  BY TablesAreOrders, FS_CardinalityType
<1>2. table \in Injection(1..Len(table), S)
  BY <1>1 DEF Injection, Distinct, IsInjective
<1>3. Cardinality(1..Len(table)) = Cardinality(S)
  BY <1>1, FS_Interval
<1>4. table \in Surjection(1..Len(table), S)
  BY <1>2, <1>3, FS_Injection
<1> QED BY <1>4 DEF Surjection

LEMMA TwoOfThem ==
    ASSUME NEW S, IsFiniteSet(S), Cardinality(S) > 1
    PROVE  \E x, y \in S : x # y
<1> SUFFICES ASSUME \A x, y \in S : x = y
             PROVE  FALSE
  OBVIOUS
<1>1. S # {}
  BY FS_EmptySet
<1>2. PICK x : S = {x}
  BY <1>1
<1> QED BY <1>2, FS_Singleton

(* The bench of a Swiss draw is fair.                                      *)
LEMMA DrawIsFair ==
    ASSUME field \in Fields, IsFiniteSet(matches), NEW table \in Leaderboards(matches, Player),
           NEW draw, draw = SwissDraw(Without(table, forfeited)),
           NEW i \in DOMAIN draw, draw[i][2] = NoPlayer
    PROVE  i = Len(draw) /\ Fair(draw[i][1])
<1>1. IsFiniteSet(Player) /\ NoPlayer \notin Player
  BY PlayersAreFinite
<1>2. table \in Seq(Player) /\ Distinct(table)
  BY <1>1, TablesAreOrders
<1>3. PICK order : order = Without(table, forfeited)
  OBVIOUS
<1>4. order \in Seq(Player) /\ Distinct(order)
  BY <1>2, <1>3, WithoutKeeps
<1>5. \A q : Points(matches, q) \in Int
  BY MatchesGivePoints
<1>6. \A o \in Seq(Player) : Distinct(o) => Pairings(o) \in Seq(Player \X Player)
  BY <1>5, PairingsAreApart
<1>7. \A o \in Seq(Player) : Distinct(o) => \A k \in DOMAIN Pairings(o) : Pairings(o)[k][2] \in Player
  <2> HIDE DEF Player
  <2> QED BY <1>6
<1>8. CASE Len(order) % 2 = 0
  <2>1. draw = Pairings(order)
    BY <1>3, <1>8 DEF SwissDraw
  <2> QED BY <1>1, <1>4, <1>7, <2>1
<1>9. CASE Len(order) % 2 # 0
  <2>1. PICK b : b = BenchOf(order)
    OBVIOUS
  <2>2. PICK rest : rest = Without(order, {b})
    OBVIOUS
  <2>3. rest \in Seq(Player) /\ Distinct(rest)
    BY <1>4, <2>2, WithoutKeeps
  <2>4. PICK pairs : pairs = Pairings(rest)
    OBVIOUS
  <2>5. draw = Append(pairs, <<b, NoPlayer>>)
    BY <1>3, <1>9, <2>1, <2>2, <2>4 DEF SwissDraw
  <2>6. pairs \in Seq(Player \X Player) /\ \A k \in DOMAIN pairs : pairs[k][2] \in Player
    BY <1>6, <1>7, <2>3, <2>4
  <2>7. /\ Len(draw) = Len(pairs) + 1 /\ DOMAIN draw = 1..(Len(pairs) + 1) /\ Len(pairs) \in Nat
        /\ \A k \in 1..Len(pairs) : draw[k] = pairs[k] /\ k \in DOMAIN pairs
        /\ draw[Len(pairs) + 1] = <<b, NoPlayer>>
    <3> HIDE DEF Player
    <3> QED BY <2>5, <2>6
  <2>8. i \in 1..Len(pairs) \/ i = Len(pairs) + 1
    BY <2>7
  <2>9. i = Len(draw) /\ draw[i][1] = b
    BY <1>1, <2>6, <2>7, <2>8
  <2>10. SatOut(b) => Rested
    <3> SUFFICES ASSUME SatOut(b), NEW q \in Player \ forfeited
                 PROVE  SatOut(q)
      BY DEF Rested
    <3> DEFINE S == {p \in Player : SatOut(p)}
    <3>1. b = IF Without(order, S) = <<>> THEN order[Len(order)]
              ELSE Without(order, S)[Len(Without(order, S))]
      BY <2>1 DEF BenchOf
    <3>2. b \in S => SatOut(b) /\ b \in Player
      OBVIOUS
    <3>3. b \in Player
      <4>1. order # <<>>
        BY <1>9
      <4>2. \E k \in 1..Len(order) : b = order[k]
        BY <1>4, <2>1, <4>1, BenchIsThere
      <4> HIDE DEF Player
      <4> QED BY <1>4, <4>2
    <3>4. b \in S
      BY <3>3
    <3>5. q \in S => SatOut(q)
      OBVIOUS
    <3> HIDE DEF S
    <3>6. Without(order, S) = <<>>
      <4> SUFFICES ASSUME Without(order, S) # <<>>
                   PROVE  FALSE
        OBVIOUS
      <4>1. b \notin S
        BY <1>4, <3>1, WithoutAvoids
      <4> QED BY <3>4, <4>1
    <3>7. PICK h \in 1..Len(table) : table[h] = q
      BY <1>1, TablesCover
    <3>8. PICK k \in DOMAIN order : order[k] = q
      BY <1>2, <1>3, <3>7, WithoutCovers
    <3>9. order[k] \in S
      <4> SUFFICES ASSUME order[k] \notin S
                   PROVE  FALSE
        OBVIOUS
      <4>1. k \in 1..Len(order)
        BY <1>4
      <4>2. \E l \in DOMAIN Without(order, S) : Without(order, S)[l] = order[k]
        BY <1>4, <4>1, WithoutCovers
      <4> QED BY <3>6, <4>2
    <3> QED BY <3>5, <3>8, <3>9
  <2> QED BY <2>9, <2>10 DEF Fair
<1> QED BY <1>8, <1>9

(* The byes of the first rounds go to different players.                   *)
LEMMA NeighboursRestOnce ==
    ASSUME NEW n \in Nat \ {0, 1}, NoPlayer \notin 1..n,
           NEW m \in Neighbours(n), NEW g \in Neighbours(n), m.bye, g.bye
    PROVE  m = g
<1>1. PICK i \in 1..((n + 1) \div 2) :
          m = Match(1, <<2 * i - 1, IF 2 * i <= n THEN 2 * i ELSE NoPlayer>>, 1)
  BY DEF Neighbours
<1>2. PICK j \in 1..((n + 1) \div 2) :
          g = Match(1, <<2 * j - 1, IF 2 * j <= n THEN 2 * j ELSE NoPlayer>>, 1)
  BY DEF Neighbours
<1>3. ~(2 * i <= n)
  <2>1. 2 * i <= n => 2 * i \in 1..n
    OBVIOUS
  <2> QED BY <1>1, <2>1 DEF Match
<1>4. ~(2 * j <= n)
  <2>1. 2 * j <= n => 2 * j \in 1..n
    OBVIOUS
  <2> QED BY <1>2, <2>1 DEF Match
<1>5. i = j
  BY <1>3, <1>4
<1> QED BY <1>1, <1>2, <1>5

LEMMA CircleRestsOnce ==
    ASSUME NEW n \in Nat \ {0, 1}, NoPlayer \notin 1..n,
           NEW m \in Circle(n), NEW g \in Circle(n), m.bye, g.bye, m.one = g.one
    PROVE  m = g
<1> DEFINE size == n + (n % 2)
           seat(r, i) == IF i = 0 THEN 1 ELSE IF i > r THEN i - r + 1 ELSE i - r + size
           who(p) == IF p > n THEN NoPlayer ELSE p
           pair(r, i) == LET p == who(seat(r, i)) q == who(seat(r, size - 1 - i))
                         IN  IF p = NoPlayer THEN <<q, p>> ELSE <<p, q>>
<1>1. size \in Nat /\ size >= 2 /\ size <= n + 1 /\ size = 2 * (size \div 2) /\ size \div 2 \in Nat
  OBVIOUS
<1>2. PICK r \in 0..(size - 2), i \in 0..(size \div 2 - 1) : m = Match(r + 1, pair(r, i), 1)
  BY DEF Circle
<1>3. PICK s \in 0..(size - 2), j \in 0..(size \div 2 - 1) : g = Match(s + 1, pair(s, j), 1)
  BY DEF Circle
<1>4. \A a, b : Match(a, b, 1).one = b[1] /\ (Match(a, b, 1).bye => b[2] = NoPlayer)
  BY DEF Match
<1>5. pair(r, i)[2] = NoPlayer /\ pair(s, j)[2] = NoPlayer /\ pair(r, i)[1] = pair(s, j)[1]
  <2> PICK a, b : a = pair(r, i) /\ b = pair(s, j)
    BY Zenon
  <2>1. m = Match(r + 1, a, 1) /\ g = Match(s + 1, b, 1)
    BY <1>2, <1>3
  <2>2. a[2] = NoPlayer /\ b[2] = NoPlayer /\ a[1] = b[1]
    <3> HIDE DEF pair, size
    <3> QED BY <1>4, <2>1
  <2> HIDE DEF pair, size
  <2> QED BY <2>2
<1> PICK h \in Nat : h = size \div 2
  BY <1>1
<1> HIDE DEF size
(* Who sits out in round t sits opposite the empty place.                  *)
<1>6. ASSUME NEW t \in 0..(size - 2), NEW k \in 0..(h - 1), pair(t, k)[2] = NoPlayer
      PROVE  \/ seat(t, k) = size /\ pair(t, k)[1] = seat(t, size - 1 - k)
             \/ seat(t, size - 1 - k) = size /\ pair(t, k)[1] = seat(t, k)
  <2>1. /\ seat(t, k) \in 1..size /\ seat(t, size - 1 - k) \in 1..size
        /\ seat(t, k) # seat(t, size - 1 - k)
    BY <1>1
  <2>2. PICK a, b : a = seat(t, k) /\ b = seat(t, size - 1 - k)
    OBVIOUS
  <2>3. a \in 1..size /\ b \in 1..size /\ a # b
    BY <2>1, <2>2
  <2>4. pair(t, k) = IF who(a) = NoPlayer THEN <<who(b), who(a)>> ELSE <<who(a), who(b)>>
    BY <2>2
  <2>5. \A p \in 1..size : /\ p <= n => who(p) = p /\ who(p) # NoPlayer
                           /\ p > n => who(p) = NoPlayer /\ p = size
    BY <1>1
  <2> HIDE DEF pair, seat, who
  <2>6. CASE who(a) = NoPlayer
    <3>1. a = size /\ b <= n
      BY <1>1, <2>3, <2>5, <2>6
    <3> QED BY <2>2, <2>3, <2>4, <2>5, <2>6, <3>1
  <2>7. CASE who(a) # NoPlayer
    <3>1. pair(t, k)[1] = who(a) /\ pair(t, k)[2] = who(b)
      BY <2>4, <2>7
    <3>2. a <= n /\ b > n
      BY <1>1, <1>6, <2>3, <2>5, <2>7, <3>1
    <3> QED BY <2>2, <2>3, <2>5, <3>1, <3>2
  <2> QED BY <2>6, <2>7
<1>7. ASSUME NEW t \in 0..(size - 2), NEW k \in 0..(h - 1), pair(t, k)[2] = NoPlayer
      PROVE  /\ t = 0 => k = 0 /\ pair(t, k)[1] = 1
             /\ t > 0 /\ t < h =>
                   /\ k = t
                   /\ pair(t, k)[1] = IF size - 1 - t > t THEN size - 2 * t ELSE 2 * size - 1 - 2 * t
             /\ t > 0 /\ t >= h => k = size - 1 - t /\ pair(t, k)[1] = 2 * size - 1 - 2 * t
  <2>1. PICK o : o = pair(t, k)[1]
    OBVIOUS
  <2>2. \/ seat(t, k) = size /\ o = seat(t, size - 1 - k)
        \/ seat(t, size - 1 - k) = size /\ o = seat(t, k)
    BY <1>6, <1>7, <2>1
  <2>3. size = 2 * h /\ size \in Nat /\ size >= 2
    BY <1>1
  <2> HIDE DEF pair
  <2>4. CASE t = 0
    BY <2>1, <2>2, <2>3, <2>4
  <2>5. CASE t > 0 /\ t < h
    BY <2>1, <2>2, <2>3, <2>5
  <2>6. CASE t > 0 /\ t >= h
    BY <2>1, <2>2, <2>3, <2>6
  <2> QED BY <2>4, <2>5, <2>6
<1>8. PICK o : o = pair(r, i)[1] /\ o = pair(s, j)[1]
  BY <1>5
<1>9. /\ r = 0 => i = 0 /\ o = 1
      /\ r > 0 /\ r < h => i = r /\ o = IF size - 1 - r > r THEN size - 2 * r ELSE 2 * size - 1 - 2 * r
      /\ r > 0 /\ r >= h => i = size - 1 - r /\ o = 2 * size - 1 - 2 * r
  BY <1>5, <1>7, <1>8
<1>10. /\ s = 0 => j = 0 /\ o = 1
       /\ s > 0 /\ s < h => j = s /\ o = IF size - 1 - s > s THEN size - 2 * s ELSE 2 * size - 1 - 2 * s
       /\ s > 0 /\ s >= h => j = size - 1 - s /\ o = 2 * size - 1 - 2 * s
  BY <1>5, <1>7, <1>8
<1>11. r = s /\ i = j
  <2>1. size = 2 * h /\ size \in Nat /\ size >= 2
    BY <1>1
  <2> HIDE DEF pair, seat, who
  <2> QED BY <1>9, <1>10, <2>1
<1> QED BY <1>2, <1>3, <1>11

LEMMA ByeInit ==
    ASSUME NEW r \in Request, Init
    PROVE  ByeInv(r)
<1> DEFINE M == IF field.system = "ROUND_ROBIN" THEN Circle(field.n) ELSE Neighbours(field.n)
<1>1. field.n \in Nat \ {0, 1} /\ NoPlayer \notin 1..field.n
  BY RoundsAssumption DEF Init
<1>2. \A m, g \in M : m.bye /\ g.bye /\ m.one = g.one => m = g
  BY <1>1, NeighboursRestOnce, CircleRestsOnce
<1>3. \A m \in M : DOMAIN m = MatchRow
  <2>1. \A m \in Neighbours(field.n) : DOMAIN m = MatchRow
    BY DEF Neighbours, Match, MatchRow
  <2>2. \A m \in Circle(field.n) : DOMAIN m = MatchRow
    BY DEF Circle, Match, MatchRow
  <2> QED BY <2>1, <2>2
<1>4. matches = {IF m.bye THEN Benched(m) ELSE m : m \in M}
  BY DEF Init, Drawn
<1> HIDE DEF M
<1>5. \A x \in matches : x.bye => \E m \in M : m.bye /\ x = Benched(m) /\ x.one = m.one
  BY <1>3, <1>4 DEF Benched, MatchRow
<1>6. \A p : ~Twice(p)
  BY <1>2, <1>5 DEF Twice
<1>7. \A q \in Request : job[q] = Idle
  BY DEF Init
<1>8. Benching(job[r])
  BY <1>7 DEF Benching, Idle, Job
<1> QED BY <1>6, <1>7, <1>8, DrawInit DEF ByeInv

(* A step that gives nobody a bye: the byes stay with those who have them, *)
(* and a draw that was fair remains so.                                    *)
SameByes ==
    \/ UNCHANGED matches
    \/ \E m \in matches, g \in matches' : Replace(m, g) /\ g.bye = m.bye /\ g.one = m.one
    \/ \E m \in matches' : matches' = matches \cup {m} /\ ~m.bye

LEMMA ByesStay ==
    ASSUME UNCHANGED field, forfeited \subseteq forfeited', SameByes
    PROVE  /\ \A p : SatOut(p)' <=> SatOut(p)
           /\ \A p : Twice(p)' => Twice(p)
           /\ Rested => Rested'
           /\ \A p : Fair(p) => Fair(p)'
<1>1. \A p : (SatOut(p)' <=> SatOut(p)) /\ (Twice(p)' => Twice(p))
  <2>1. CASE UNCHANGED matches
    BY <2>1 DEF SatOut, Twice
  <2>2. CASE \E m \in matches, g \in matches' : Replace(m, g) /\ g.bye = m.bye /\ g.one = m.one
    <3>1. PICK m \in matches, g \in matches' :
             matches' = (matches \ {m}) \cup {g} /\ g.bye = m.bye /\ g.one = m.one
      BY <2>2 DEF Replace
    <3>2. \A p : SatOut(p)' <=> SatOut(p)
      BY <3>1 DEF SatOut
    <3>3. \A p : Twice(p)' => Twice(p)
      BY <3>1 DEF Twice
    <3> QED BY <3>2, <3>3
  <2>3. CASE \E m \in matches' : matches' = matches \cup {m} /\ ~m.bye
    BY <2>3 DEF SatOut, Twice
  <2> QED BY <2>1, <2>2, <2>3 DEF SameByes
<1>2. Player' = Player
  BY DEF Player
<1>3. Rested => Rested'
  BY <1>1, <1>2 DEF Rested
<1> QED BY <1>1, <1>3 DEF Fair

LEMMA ByesGoOn ==
    ASSUME NEW r \in Request, ByeInv(r), DrawInv', UNCHANGED field,
           forfeited \subseteq forfeited', SameByes,
           NEW j, job' = [job EXCEPT ![r] = j], Benching(j)'
    PROVE  ByeInv(r)'
<1>1. job'[r] = j /\ \A q \in Request \ {r} : job'[q] = Idle'
  BY DEF ByeInv, DrawInv, Idle, Job
<1>2. Player' = Player
  BY DEF Player
<1>3. \A p \in Player : Twice(p)' => Rested'
  BY ByesStay DEF ByeInv
<1> QED BY <1>1, <1>2, <1>3 DEF ByeInv

(* The request goes on with something else than the rows of a round.       *)
LEMMA ByesWait ==
    ASSUME NEW r \in Request, ByeInv(r), DrawInv', UNCHANGED field,
           forfeited \subseteq forfeited', SameByes,
           NEW j, job' = [job EXCEPT ![r] = j], j.op \notin {"Open", "Seat", "Bye"}
    PROVE  ByeInv(r)'
<1>1. Benching(j)'
  BY DEF Benching
<1> QED BY <1>1, ByesGoOn

LEMMA ByesThen ==
    ASSUME NEW r \in Request, ByeInv(r), DrawInv', UNCHANGED <<field, matches, forfeited>>,
           NEW op, Then(r, op), op \notin {"Open", "Seat", "Bye"}
    PROVE  ByeInv(r)'
<1>1. PICK j : j = [job[r] EXCEPT !.op = op]
  OBVIOUS
<1>2. j.op = op
  BY <1>1 DEF ByeInv, DrawInv, Draft, JobRow
<1> QED BY <1>1, <1>2, ByesWait DEF Then, SameByes

LEMMA ByesFail ==
    ASSUME NEW r \in Request, ByeInv(r), DrawInv', UNCHANGED <<field, matches, forfeited>>, Fails(r)
    PROVE  ByeInv(r)'
<1>1. PICK j : j = Idle
  OBVIOUS
<1>2. j.op = "Idle"
  BY <1>1 DEF Idle, Job
<1> QED BY <1>1, <1>2, ByesWait DEF Fails, SameByes

LEMMA ByeReport ==
    ASSUME NEW r \in Request, ByeInv(r), DrawInv', NEW m \in matches, NEW w, Report(r, m, w)
    PROVE  ByeInv(r)'
<1> DEFINE g == [m EXCEPT !.done = TRUE, !.winner = w, !.scored = w # NoPlayer /\ ~m.bye]
           j == [Job("Check", 0) EXCEPT !.todo = <<Name(m)>>]
<1>1. UNCHANGED <<field, forfeited>> /\ job' = [job EXCEPT ![r] = j] /\ Replace(m, g)
  BY DEF Report, Begins
<1>2. DOMAIN m = MatchRow
  BY DEF ByeInv, DrawInv
<1>3. g.bye = m.bye /\ g.one = m.one
  BY <1>2 DEF MatchRow
<1>4. j.op = "Check"
  BY DEF Job, JobRow
<1> HIDE DEF g, j
<1>5. SameByes
  BY <1>1, <1>3 DEF SameByes, Replace
<1> QED BY <1>1, <1>4, <1>5, ByesWait

LEMMA ByeReset ==
    ASSUME NEW r \in Request, ByeInv(r), DrawInv', NEW m \in matches, NEW q, Reset(q, m)
    PROVE  ByeInv(r)'
<1> DEFINE g == [m EXCEPT !.done = FALSE, !.winner = NoPlayer, !.scored = FALSE]
<1>1. UNCHANGED <<field, forfeited, job>> /\ Replace(m, g)
  BY DEF Reset
<1>2. DOMAIN m = MatchRow
  BY DEF ByeInv, DrawInv
<1>3. g.bye = m.bye /\ g.one = m.one
  BY <1>2 DEF MatchRow
<1> HIDE DEF g
<1>4. SameByes
  BY <1>1, <1>3 DEF SameByes, Replace
<1>5. PICK j : j = job[r]
  OBVIOUS
<1>6. job' = [job EXCEPT ![r] = j]
  BY <1>1, <1>5 DEF ByeInv, DrawInv
<1>7. \A p : Fair(p) => Fair(p)'
  BY <1>1, <1>4, ByesStay
<1>8. Benching(j)'
  BY <1>5, <1>7 DEF ByeInv, Benching
<1> QED BY <1>1, <1>4, <1>6, <1>8, ByesGoOn

LEMMA ByeForfeit ==
    ASSUME NEW r \in Request, ByeInv(r), DrawInv', NEW p, Forfeit(r, p)
    PROVE  ByeInv(r)'
<1>1. PICK open : Begins(r, [Job("Walkover", 0) EXCEPT !.p = p, !.open = open])
  BY DEF Forfeit
<1>2. PICK j : j = [Job("Walkover", 0) EXCEPT !.p = p, !.open = open]
  OBVIOUS
<1>3. j.op = "Walkover"
  BY <1>2 DEF Job, JobRow
<1>4. UNCHANGED field /\ forfeited \subseteq forfeited' /\ job' = [job EXCEPT ![r] = j] /\ SameByes
  BY <1>1, <1>2 DEF Forfeit, Begins, SameByes, rows
<1> QED BY <1>3, <1>4, ByesWait

LEMMA ByeWalkover ==
    ASSUME NEW r \in Request, ByeInv(r), DrawInv', Walkover(r)
    PROVE  ByeInv(r)'
<1>1. UNCHANGED <<field, forfeited>>
  BY DEF Walkover
<1>2. CASE job[r].open = {}
  BY <1>1, <1>2, ByesFail DEF Walkover
<1>3. CASE job[r].open # {}
  <2>1. PICK k \in job[r].open, m \in matches :
            IF m.done
            THEN job' = [job EXCEPT ![r].open = @ \ {k}] /\ UNCHANGED matches
            ELSE /\ Replace(m, [m EXCEPT !.done = TRUE, !.winner = Opponent(m, job[r].p)])
                 /\ job' = [job EXCEPT ![r].open = @ \ {k}, ![r].op = "Check", ![r].todo = <<k>>]
    BY <1>3 DEF Walkover, Named
  <2>2. DOMAIN job[r] = JobRow /\ job[r].op = "Walkover" /\ r \in DOMAIN job
    BY DEF ByeInv, DrawInv, Draft, Walkover, Runs
  <2>3. CASE m.done
    <3> PICK j : j = [job[r] EXCEPT !.open = @ \ {k}]
      OBVIOUS
    <3>1. job' = [job EXCEPT ![r] = j] /\ SameByes
      BY <2>1, <2>3 DEF SameByes
    <3>2. j.op = "Walkover"
      BY <2>2 DEF JobRow
    <3> QED BY <1>1, <3>1, <3>2, ByesWait
  <2>4. CASE ~m.done
    <3> PICK j : j = [job[r] EXCEPT !.open = @ \ {k}, !.op = "Check", !.todo = <<k>>]
      OBVIOUS
    <3> DEFINE g == [m EXCEPT !.done = TRUE, !.winner = Opponent(m, job[r].p)]
    <3>1. job' = [job EXCEPT ![r] = j] /\ Replace(m, g)
      BY <2>1, <2>2, <2>4
    <3>2. j.op = "Check"
      BY <2>2 DEF JobRow
    <3>3. DOMAIN m = MatchRow
      BY DEF ByeInv, DrawInv
    <3>4. g.bye = m.bye /\ g.one = m.one
      BY <3>3 DEF MatchRow
    <3> HIDE DEF g
    <3>5. SameByes
      BY <3>1, <3>4 DEF SameByes, Replace
    <3> QED BY <1>1, <3>1, <3>2, <3>5, ByesWait
  <2> QED BY <2>3, <2>4
<1> QED BY <1>2, <1>3

LEMMA ByeCheck ==
    ASSUME NEW r \in Request, ByeInv(r), DrawInv', Check(r)
    PROVE  ByeInv(r)'
<1>1. UNCHANGED <<field, matches, forfeited>> /\ SameByes
  BY DEF Check, rows, SameByes
<1>2. CASE job[r].todo = <<>>
  BY <1>1, <1>2, ByesThen DEF Check
<1>3. CASE job[r].todo # <<>>
  <2>1. PICK m \in matches :
            LET j   == [job[r] EXCEPT !.todo = Tail(@), !.n = m.n + 1, !.phase = 1]
                won == {g.winner : g \in RoundOf(m.n)} \ {NoPlayer}
                go(op) == job' = [job EXCEPT ![r] = [j EXCEPT !.op = op]]
            IN  IF ~Over(m) THEN go("Check")
                ELSE IF m.phase = 2
                THEN IF won = {} THEN go("Check")
                     ELSE job' = [job EXCEPT ![r] =
                                     [j EXCEPT !.op = "Crown", !.p = Max(won)]]
                ELSE IF field.system # "ROUND_ROBIN" /\ m.n < field.rounds THEN go("Pair")
                ELSE go(IF field.system = "HYBRID" THEN "Cut" ELSE "Final")
    BY <1>3 DEF Check, Named
  <2>2. PICK j : j = [job[r] EXCEPT !.todo = Tail(@), !.n = m.n + 1, !.phase = 1]
    OBVIOUS
  <2>3. PICK won : won = {g.winner : g \in RoundOf(m.n)} \ {NoPlayer}
    OBVIOUS
  <2>4. DOMAIN j = JobRow
    BY <2>2 DEF ByeInv, DrawInv, Draft, JobRow
  <2>5. \/ \E op \in {"Check", "Pair", "Cut", "Final"} : job' = [job EXCEPT ![r] = [j EXCEPT !.op = op]]
        \/ job' = [job EXCEPT ![r] = [j EXCEPT !.op = "Crown", !.p = Max(won)]]
    BY <2>1, <2>2, <2>3
  <2>6. ASSUME NEW op \in {"Check", "Pair", "Cut", "Final"},
               job' = [job EXCEPT ![r] = [j EXCEPT !.op = op]]
        PROVE  ByeInv(r)'
    <3> PICK i : i = [j EXCEPT !.op = op]
      OBVIOUS
    <3>1. i.op = op
      BY <2>4 DEF JobRow
    <3> QED BY <1>1, <2>6, <3>1, ByesWait
  <2>7. ASSUME job' = [job EXCEPT ![r] = [j EXCEPT !.op = "Crown", !.p = Max(won)]]
        PROVE  ByeInv(r)'
    <3> PICK i : i = [j EXCEPT !.op = "Crown", !.p = Max(won)]
      OBVIOUS
    <3>1. i.op = "Crown"
      BY <2>4 DEF JobRow
    <3> QED BY <1>1, <2>7, <3>1, ByesWait
  <2> QED BY <2>5, <2>6, <2>7
<1> QED BY <1>2, <1>3

LEMMA ByePair ==
    ASSUME NEW r \in Request, ByeInv(r), DrawInv', Pair(r)
    PROVE  ByeInv(r)'
<1>1. PICK table \in Leaderboards(matches, Player) :
         LET draw == SwissDraw(Without(table, forfeited))
         IN  job' = [job EXCEPT ![r].op = "Open", ![r].draw = draw,
                ![r].todo = [i \in DOMAIN draw |-> <<job[r].n, draw[i][1]>>] \o @]
  BY DEF Pair
<1>2. UNCHANGED <<field, matches, forfeited>> /\ SameByes
  BY DEF Pair, rows, SameByes
<1>3. PICK draw : draw = SwissDraw(Without(table, forfeited))
  OBVIOUS
<1>4. field \in Fields /\ IsFiniteSet(matches)
  BY DEF ByeInv, DrawInv
<1>5. \A i \in DOMAIN draw : draw[i][2] = NoPlayer => i = Len(draw) /\ Fair(draw[i][1])
  BY <1>3, <1>4, DrawIsFair
<1>6. PICK todo : job' = [job EXCEPT ![r].op = "Open", ![r].draw = draw, ![r].todo = todo]
  BY <1>1, <1>3
<1>7. PICK j : j = [job[r] EXCEPT !.op = "Open", !.draw = draw, !.todo = todo]
  OBVIOUS
<1>8. job' = [job EXCEPT ![r] = j]
  BY <1>6, <1>7 DEF ByeInv, DrawInv
<1>9. j.op = "Open" /\ j.draw = draw
  BY <1>7 DEF ByeInv, DrawInv, Draft, JobRow
<1>10. \A p : Fair(p) => Fair(p)'
  BY <1>2, ByesStay
<1>11. Benching(j)'
  BY <1>5, <1>9, <1>10 DEF Benching
<1> QED BY <1>2, <1>8, <1>11, ByesGoOn

LEMMA ByeCut ==
    ASSUME NEW r \in Request, ByeInv(r), DrawInv', Cut(r)
    PROVE  ByeInv(r)'
<1>1. PICK table \in Leaderboards(matches, Player) : job' = [job EXCEPT ![r] =
                    IF field.cut < 2 THEN [@ EXCEPT !.op = "Complete"]
                    ELSE [@ EXCEPT !.op = "Open", !.n = Max(rounds) + 1, !.phase = 2,
                                   !.draw = <<<<table[1], table[2]>>>>]]
  BY DEF Cut
<1>2. UNCHANGED <<field, matches, forfeited>> /\ SameByes
  BY DEF Cut, rows, SameByes
<1>3. CASE field.cut < 2
  <2>1. Then(r, "Complete")
    BY <1>1, <1>3 DEF Then
  <2> QED BY <1>2, <2>1, ByesThen
<1>4. CASE ~(field.cut < 2)
  <2>1. table[2] # NoPlayer
    <3>1. field \in Fields
      BY DEF ByeInv, DrawInv
    <3>2. IsFiniteSet(Player) /\ Cardinality(Player) = field.n /\ NoPlayer \notin Player
          /\ field.n \in Nat \ {0, 1}
      BY <3>1, PlayersAreFinite, RoundsAssumption
    <3>3. table \in Seq(Player) /\ Len(table) = field.n
      BY <3>2, TablesAreOrders
    <3>4. 2 \in DOMAIN table
      BY <3>2, <3>3
    <3> HIDE DEF Player
    <3> QED BY <3>2, <3>3, <3>4
  <2>2. PICK pair : pair = <<table[1], table[2]>>
    OBVIOUS
  <2>3. PICK n : n = Max(rounds) + 1
    OBVIOUS
  <2>4. PICK j : j = [job[r] EXCEPT !.op = "Open", !.n = n, !.phase = 2, !.draw = <<pair>>]
    OBVIOUS
  <2>5. job' = [job EXCEPT ![r] = j]
    BY <1>1, <1>4, <2>2, <2>3, <2>4
  <2>6. j.op = "Open" /\ j.draw = <<pair>>
    BY <2>4 DEF ByeInv, DrawInv, Draft, JobRow
  <2>7. pair[2] # NoPlayer
    BY <2>1, <2>2
  <2>8. Benching(j)'
    BY <2>6, <2>7 DEF Benching
  <2> QED BY <1>2, <2>5, <2>8, ByesGoOn
<1> QED BY <1>3, <1>4

LEMMA ByeOpen ==
    ASSUME NEW r \in Request, ByeInv(r), DrawInv', Open(r)
    PROVE  ByeInv(r)'
<1>1. UNCHANGED <<field, matches, forfeited>> /\ SameByes /\ job[r].op = "Open"
  BY DEF Open, Runs, SameByes
<1>2. CASE job[r].n \in rounds
  BY <1>1, <1>2, ByesFail DEF Open
<1>3. CASE job[r].n \notin rounds
  <2>1. PICK j : j = [job[r] EXCEPT !.op = "Seat"]
    OBVIOUS
  <2>2. job' = [job EXCEPT ![r] = j]
    BY <1>3, <2>1 DEF Open, Then
  <2>3. j.op = "Seat" /\ j.draw = job[r].draw
    BY <2>1 DEF ByeInv, DrawInv, Draft, JobRow
  <2>4. \A p : Fair(p) => Fair(p)'
    BY <1>1, ByesStay
  <2>5. Benching(j)'
    BY <1>1, <2>3, <2>4 DEF ByeInv, Benching
  <2> QED BY <1>1, <2>2, <2>5, ByesGoOn
<1> QED BY <1>2, <1>3

(* A bye is the last entry of its draw, and was fair when it was drawn.    *)
LEMMA ByeSeat ==
    ASSUME NEW r \in Request, ByeInv(r), DrawInv', Seat(r)
    PROVE  ByeInv(r)'
<1>1. UNCHANGED <<field, forfeited>> /\ job[r].op = "Seat"
  BY DEF Seat, Runs
<1>2. CASE job[r].draw = <<>>
  BY <1>1, <1>2, ByesThen DEF Seat
<1>3. CASE job[r].draw # <<>>
  <2> PICK draw : draw = job[r].draw
    OBVIOUS
  <2>1. PICK T : draw \in Seq(T)
    BY <1>1 DEF ByeInv, DrawInv, Draft
  <2>2. PICK first, rest : first = Head(draw) /\ rest = Tail(draw)
    OBVIOUS
  <2>3. /\ first = draw[1] /\ 1 \in DOMAIN draw /\ Len(draw) \in Nat /\ Len(rest) = Len(draw) - 1
        /\ \A i \in DOMAIN rest : rest[i] = draw[i + 1] /\ i + 1 \in DOMAIN draw /\ i \in Nat
    BY <1>3, <2>1, <2>2
  <2>4. PICK m : m = Match(job[r].n, first, job[r].phase)
    OBVIOUS
  <2>5. /\ matches' = matches \cup {m}
        /\ job' = IF m.bye THEN [job EXCEPT ![r].op = "Bye"]
                  ELSE [job EXCEPT ![r].draw = Tail(@)]
    BY <1>3, <2>2, <2>4 DEF Seat
  <2>6. m.one = first[1] /\ m.bye = (first[2] = NoPlayer)
    BY <2>4 DEF Match
  <2>7. \A i \in DOMAIN draw : draw[i][2] = NoPlayer => i = Len(draw) /\ Fair(draw[i][1])
    BY <1>1 DEF ByeInv, Benching
  <2>8. DOMAIN job[r] = JobRow
    BY DEF ByeInv, DrawInv, Draft
  <2>9. PICK j : /\ job' = [job EXCEPT ![r] = j]
                 /\ j = IF m.bye THEN [job[r] EXCEPT !.op = "Bye"]
                        ELSE [job[r] EXCEPT !.draw = rest]
    BY <2>2, <2>5
  <2>10. CASE ~m.bye
    <3>1. SameByes
      BY <2>5, <2>10 DEF SameByes
    <3>2. \A p : Fair(p) => Fair(p)'
      BY <1>1, <3>1, ByesStay
    <3>3. j.op = "Seat" /\ j.draw = rest
      BY <1>1, <2>8, <2>9, <2>10 DEF JobRow
    <3>4. ASSUME NEW i \in DOMAIN rest, rest[i][2] = NoPlayer
          PROVE  i = Len(rest) /\ Fair(rest[i][1])'
      <4>1. i + 1 = Len(draw) /\ Fair(rest[i][1])
        BY <2>3, <2>7, <3>4
      <4>2. i = Len(rest)
        BY <2>3, <4>1
      <4> QED BY <3>2, <4>1, <4>2
    <3>5. Benching(j)'
      BY <3>3, <3>4 DEF Benching
    <3> QED BY <1>1, <2>9, <3>1, <3>5, ByesGoOn
  <2>11. CASE m.bye
    <3>1. Len(draw) = 1 /\ Fair(m.one)
      BY <2>3, <2>6, <2>7, <2>11
    <3>2. j.op = "Bye" /\ j.draw = draw
      BY <2>8, <2>9, <2>11 DEF JobRow
    <3>3. DOMAIN draw = {1}
      BY <2>1, <3>1
    <3>4. Benching(j)'
      BY <3>2, <3>3 DEF Benching
    <3>5. Player' = Player
      BY <1>1 DEF Player
    <3>6. \A p : SatOut(p) => SatOut(p)'
      BY <2>5 DEF SatOut
    <3>7. Rested => Rested'
      BY <1>1, <3>5, <3>6 DEF Rested
    <3>8. \A p : Twice(p)' => Twice(p) \/ (p = m.one /\ SatOut(p))
      BY <2>5 DEF Twice, SatOut
    <3>9. \A p \in Player : Twice(p)' => Rested'
      BY <3>1, <3>7, <3>8 DEF ByeInv, Fair
    <3>10. job'[r] = j /\ \A q \in Request \ {r} : job'[q] = Idle'
      BY <2>9 DEF ByeInv, DrawInv, Idle, Job
    <3> QED BY <3>4, <3>5, <3>9, <3>10 DEF ByeInv
  <2> QED BY <2>10, <2>11
<1> QED BY <1>2, <1>3

LEMMA ByeBye ==
    ASSUME NEW r \in Request, ByeInv(r), DrawInv', Bye(r)
    PROVE  ByeInv(r)'
<1>1. UNCHANGED <<field, forfeited>> /\ job[r].op = "Bye"
      /\ job' = [job EXCEPT ![r].op = "Seat", ![r].draw = Tail(@)]
  BY DEF Bye, Runs
<1> PICK draw : draw = job[r].draw
  OBVIOUS
<1>2. PICK m \in matches : Replace(m, Benched(m))
  BY DEF Bye, Named
<1>3. PICK g : g = Benched(m)
  OBVIOUS
<1>4. g.bye = m.bye /\ g.one = m.one
  BY <1>3 DEF ByeInv, DrawInv, MatchRow, Benched
<1>5. SameByes
  BY <1>2, <1>3, <1>4 DEF SameByes, Replace
<1>6. draw # <<>> /\ \A i \in DOMAIN draw : i # 1 => draw[i][2] # NoPlayer
  BY <1>1 DEF ByeInv, DrawInv, Draft, Benching
<1>7. PICK T : draw \in Seq(T)
  BY <1>1 DEF ByeInv, DrawInv, Draft
<1>8. PICK rest : rest = Tail(draw)
  OBVIOUS
<1>9. \A i \in DOMAIN rest : rest[i] = draw[i + 1] /\ i + 1 \in DOMAIN draw /\ i + 1 # 1
  BY <1>6, <1>7, <1>8
<1>10. PICK j : j = [job[r] EXCEPT !.op = "Seat", !.draw = rest]
  OBVIOUS
<1>11. job' = [job EXCEPT ![r] = j]
  BY <1>1, <1>8, <1>10 DEF ByeInv, DrawInv
<1>12. j.op = "Seat" /\ j.draw = rest
  BY <1>10 DEF ByeInv, DrawInv, Draft, JobRow
<1>13. Benching(j)'
  BY <1>6, <1>9, <1>12 DEF Benching
<1> QED BY <1>1, <1>5, <1>11, <1>13, ByesGoOn

LEMMA ByeTie ==
    ASSUME NEW r \in Request, ByeInv(r), DrawInv', ApplyTiebreakers(r) \/ ExtendRound(r)
    PROVE  ByeInv(r)'
<1>1. UNCHANGED <<field, matches, forfeited>> /\ SameByes
  BY DEF ApplyTiebreakers, ExtendRound, rows, SameByes
<1>2. CASE ApplyTiebreakers(r)
  <2>1. PICK p : Begins(r, [Job("Crown", 0) EXCEPT !.p = p])
    BY <1>2 DEF ApplyTiebreakers
  <2>2. PICK j : j = [Job("Crown", 0) EXCEPT !.p = p]
    OBVIOUS
  <2>3. j.op = "Crown" /\ job' = [job EXCEPT ![r] = j]
    BY <2>1, <2>2 DEF Job, JobRow, Begins
  <2> QED BY <1>1, <2>3, ByesWait
<1>3. CASE ExtendRound(r)
  <2>1. PICK j : j = Job("Pair", Max(rounds) + 1)
    OBVIOUS
  <2>2. j.op = "Pair" /\ job' = [job EXCEPT ![r] = j]
    BY <1>3, <2>1 DEF Job, ExtendRound, Begins
  <2> QED BY <1>1, <2>2, ByesWait
<1> QED BY <1>2, <1>3

LEMMA ByeStatement ==
    ASSUME NEW r \in Request, ByeInv(r), DrawInv', Statement(r)
    PROVE  ByeInv(r)'
<1>1. CASE Final(r)
  <2>1. UNCHANGED <<field, matches, forfeited>> /\ SameByes
    BY <1>1 DEF Final, rows, SameByes
  <2>2. CASE TiedOnTop(matches, Player)
    BY <1>1, <2>1, <2>2, ByesThen DEF Final
  <2>3. CASE ~TiedOnTop(matches, Player)
    <3>1. PICK p : job' = [job EXCEPT ![r].op = "Crown", ![r].p = p]
      BY <1>1, <2>3 DEF Final
    <3>2. PICK j : j = [job[r] EXCEPT !.op = "Crown", !.p = p]
      OBVIOUS
    <3>3. job' = [job EXCEPT ![r] = j]
      BY <3>1, <3>2 DEF ByeInv, DrawInv
    <3>4. j.op = "Crown"
      BY <3>2 DEF ByeInv, DrawInv, Draft, JobRow
    <3> QED BY <2>1, <3>3, <3>4, ByesWait
  <2> QED BY <2>2, <2>3
<1>2. CASE Crown(r)
  BY <1>2, ByesThen DEF Crown, rows
<1>3. CASE Complete(r)
  BY <1>3, ByesThen DEF Complete, rows
<1> QED
  BY <1>1, <1>2, <1>3, ByeWalkover, ByeCheck, ByePair, ByeCut, ByeOpen, ByeSeat, ByeBye
     DEF Statement

LEMMA ByeNext ==
    ASSUME NEW r \in Request, field.crowd = {r}, ByeInv(r), [Next]_vars
    PROVE  ByeInv(r)'
<1> DrawInv'
  BY DrawNext DEF ByeInv
<1>1. ASSUME NEW q \in Request, NEW m \in matches, NEW w, Report(q, m, w)
      PROVE  ByeInv(r)'
  BY <1>1, ByeReport DEF Report, Begins
<1>2. ASSUME NEW q \in Request, Statement(q) \/ ApplyTiebreakers(q) \/ ExtendRound(q)
      PROVE  ByeInv(r)'
  <2>1. CASE Statement(q)
    <3>1. job[q].op # "Idle"
      BY <2>1 DEF Statement, Walkover, Check, Final, Pair, Cut, Open, Seat, Bye, Crown, Complete,
                  Runs
    <3>2. q = r
      BY <3>1 DEF ByeInv, Idle, Job
    <3> QED BY <2>1, <3>2, ByeStatement
  <2>2. CASE ApplyTiebreakers(q) \/ ExtendRound(q)
    BY <2>2, ByeTie DEF ApplyTiebreakers, ExtendRound, Begins
  <2> QED BY <1>2, <2>1, <2>2
<1>3. ASSUME NEW q \in Request, NEW m \in matches, Reset(q, m)
      PROVE  ByeInv(r)'
  BY <1>3, ByeReset
<1>4. ASSUME NEW q \in Request, NEW p, Forfeit(q, p)
      PROVE  ByeInv(r)'
  BY <1>4, ByeForfeit DEF Forfeit, Begins
<1>5. CASE UNCHANGED vars
  <2>1. UNCHANGED <<field, matches, forfeited, job>> /\ SameByes
    BY <1>5 DEF vars, rows, SameByes
  <2>2. PICK j : j = job[r]
    OBVIOUS
  <2>3. job' = [job EXCEPT ![r] = j]
    BY <2>1, <2>2 DEF ByeInv, DrawInv
  <2>4. \A p : Fair(p) => Fair(p)'
    BY <2>1, ByesStay
  <2>5. Benching(j)'
    BY <2>2, <2>4 DEF ByeInv, Benching
  <2> QED BY <2>1, <2>3, <2>5, ByesGoOn
<1> QED BY <1>1, <1>2, <1>3, <1>4, <1>5 DEF Next, Played

(* With one request at a time nobody sits out twice while another player   *)
(* still in the tournament has not, whatever is reported, reset, forfeited *)
(* or extended between the draws and while one is being seated: the bench  *)
(* is chosen among those who have not sat out yet (formats.service.ts      *)
(* 832-840), a draw has one bye, and the circle of a round robin brings    *)
(* everybody opposite the empty place once.                                *)
THEOREM ByesTakeTurns == Spec => []ByesAreShared
<1> DEFINE Inv == /\ field \in Fields
                  /\ \A r \in Request : field.crowd = {r} => ByeInv(r)
<1>1. Init => Inv
  BY ByeInit DEF Init
<1>2. Inv /\ [Next]_vars => Inv'
  <2> SUFFICES ASSUME Inv, [Next]_vars
               PROVE  Inv'
    OBVIOUS
  <2>1. UNCHANGED field
    BY DEF Next, Played, Statement, Report, Walkover, Check, Final, Pair, Cut, Open, Seat, Bye,
           Crown, Complete, ApplyTiebreakers, ExtendRound, Reset, Forfeit, vars
  <2>2. ASSUME NEW r \in Request, field.crowd = {r}
        PROVE  ByeInv(r)'
    BY <2>2, ByeNext
  <2> QED BY <2>1, <2>2
<1>3. Inv => ByesAreShared
  <2> SUFFICES ASSUME Inv, Serial, NEW p \in Player,
                      Cardinality({m \in matches : m.bye /\ m.one = p}) > 1,
                      NEW q \in Player \ forfeited
               PROVE  SatOut(q)
    BY DEF ByesAreShared
  <2>1. PICK r \in Request : field.crowd = {r}
    BY OneOfACrowd
  <2>2. ByeInv(r) /\ IsFiniteSet(matches)
    BY <2>1 DEF ByeInv, DrawInv
  <2> DEFINE S == {m \in matches : m.bye /\ m.one = p}
  <2>3. IsFiniteSet(S)
    BY <2>2, FS_Subset
  <2>4. PICK x \in S, y \in S : x # y
    <3> HIDE DEF S
    <3>1. Cardinality(S) > 1
      BY DEF S
    <3> QED BY <2>3, <3>1, TwoOfThem
  <2>5. Twice(p)
    BY <2>4 DEF Twice
  <2> QED BY <2>2, <2>5 DEF ByeInv, Rested
<1> HIDE DEF Inv
<1> QED BY <1>1, <1>2, <1>3, PTL DEF Spec

---------------------------------------------------------------------------
(* A mean of integers over the opponents of p is an integer.               *)
LEMMA SharesAreIntegers ==
    ASSUME NEW M, IsFiniteSet(M), NEW p, Against(M, p) # {}
    PROVE  WinPct(M, p) \in Int
<1>1. IsFiniteSet(Against(M, p)) /\ IsFiniteSet(Won(M, p))
  BY FS_Subset DEF Against, Won, Of
<1>2. Cardinality(Won(M, p)) \in Nat /\ Cardinality(Against(M, p)) \in Nat \ {0}
  BY <1>1, FS_CardinalityType, FS_EmptySet
<1> QED BY <1>2 DEF WinPct, Unit

LEMMA KeysAreIntegers ==
    ASSUME NEW M, IsFiniteSet(M), \A m \in M : m.one # NoPlayer
    PROVE  \A p : Key(M, p) \in Int
<1>1. \A p : Omw(M, p) \in Int
  <2> SUFFICES ASSUME NEW p
               PROVE  Omw(M, p) \in Int
    OBVIOUS
  <2> DEFINE S == Against(M, p)
             h == [m \in S |-> WinPct(M, Opponent(m, p))]
             x(s) == CHOOSE y \in s : TRUE
             G(it) == it = [s \in SUBSET S |-> IF s = {} THEN 0
                                  ELSE WinPct(M, Opponent(x(s), p)) + it[s \ {x(s)}]]
             sum == CHOOSE it : G(it)
  <2>1. IsFiniteSet(S) /\ \A m \in S : h[m] \in Int
    <3>1. \A m \in S : m \in Against(M, Opponent(m, p))
      BY DEF Against, Of, Opponent, Sides
    <3>2. IsFiniteSet(S)
      BY FS_Subset DEF Against, Of
    <3> HIDE DEF S
    <3>3. \A m \in S : WinPct(M, Opponent(m, p)) \in Int
      BY <3>1, SharesAreIntegers
    <3> QED BY <3>2, <3>3
  <2>2. \A it : G(it) <=> Adds(S, h, it)
    <3>1. \A s \in SUBSET S : s # {} => h[x(s)] = WinPct(M, Opponent(x(s), p))
      OBVIOUS
    <3> HIDE DEF h, S
    <3> QED BY <3>1 DEF Adds
  <2>3. sum[S] \in Int
    <3> HIDE DEF S, G, h
    <3> QED BY <2>1, <2>2, SumsAreIntegers
  <2>4. MapThenSumSet(LAMBDA m : WinPct(M, Opponent(m, p)), S) = sum[S]
    BY DEF MapThenSumSet, MapThenFoldSet
  <2>5. S # {} => Cardinality(S) \in Nat \ {0}
    BY <2>1, FS_CardinalityType, FS_EmptySet
  <2> HIDE DEF sum, S
  <2>6. Omw(M, p) = IF S = {} THEN 0 ELSE (Unit * sum[S]) \div Cardinality(S)
    BY <2>4 DEF Omw, Mean, S
  <2> QED BY <2>3, <2>5, <2>6 DEF Unit
<1>2. \A p : Oomw(M, p) \in Int
  <2> SUFFICES ASSUME NEW p
               PROVE  Oomw(M, p) \in Int
    OBVIOUS
  <2> DEFINE S == Against(M, p)
             h == [m \in S |-> Omw(M, Opponent(m, p))]
             x(s) == CHOOSE y \in s : TRUE
             G(it) == it = [s \in SUBSET S |-> IF s = {} THEN 0
                                  ELSE Omw(M, Opponent(x(s), p)) + it[s \ {x(s)}]]
             sum == CHOOSE it : G(it)
  <2>1. IsFiniteSet(S) /\ \A m \in S : h[m] \in Int
    BY <1>1, FS_Subset DEF Against, Of
  <2>2. \A it : G(it) <=> Adds(S, h, it)
    <3>1. \A s \in SUBSET S : s # {} => h[x(s)] = Omw(M, Opponent(x(s), p))
      OBVIOUS
    <3> HIDE DEF h, S
    <3> QED BY <3>1 DEF Adds
  <2>3. sum[S] \in Int
    <3> HIDE DEF S, G, h
    <3> QED BY <2>1, <2>2, SumsAreIntegers
  <2>4. MapThenSumSet(LAMBDA m : Omw(M, Opponent(m, p)), S) = sum[S]
    BY DEF MapThenSumSet, MapThenFoldSet
  <2>5. S # {} => Cardinality(S) \in Nat \ {0}
    BY <2>1, FS_CardinalityType, FS_EmptySet
  <2> HIDE DEF sum, S
  <2>6. Oomw(M, p) = IF S = {} THEN 0 ELSE (Unit * sum[S]) \div Cardinality(S)
    BY <2>4 DEF Oomw, Mean, S
  <2> QED BY <2>3, <2>5, <2>6 DEF Unit
<1>3. \A p : Gw(M, p) \in Int
  <2> SUFFICES ASSUME NEW p
               PROVE  Gw(M, p) \in Int
    OBVIOUS
  <2> DEFINE given == {m \in Byes(M, p) : m.winner # NoPlayer}
             scored(S) == {m \in S : m.scored} \cup given
  <2>1. IsFiniteSet(given) /\ IsFiniteSet(Against(M, p)) /\ IsFiniteSet(Won(M, p))
    BY FS_Subset DEF Against, Won, Of, Byes
  <2>2. IsFiniteSet(scored(Against(M, p))) /\ IsFiniteSet(scored(Won(M, p)))
    BY <2>1, FS_Subset, FS_Union
  <2>3. /\ Cardinality(scored(Won(M, p))) \in Nat
        /\ scored(Against(M, p)) # {} => Cardinality(scored(Against(M, p))) \in Nat \ {0}
    <3> HIDE DEF scored, given
    <3> QED BY <2>2, FS_CardinalityType, FS_EmptySet
  <2>4. Gw(M, p) = IF scored(Against(M, p)) = {} THEN 0
                   ELSE (Unit * Cardinality(scored(Won(M, p)))) \div Cardinality(scored(Against(M, p)))
    BY DEF Gw
  <2> HIDE DEF scored, given
  <2> QED BY <2>3, <2>4 DEF Unit
<1>4. \A p : Points(M, p) \in Int
  BY FS_Subset, PointsAreIntegers, PointsAssumption DEF Of
<1>5. PICK square, cube : square = Unit^2 /\ cube = Unit^3
  OBVIOUS
<1>6. square \in Int /\ cube \in Int /\ Unit \in Int
  BY <1>5 DEF Unit
<1>7. \A x, limit, y \in Int : x * (limit + 1) + y \in Int
  OBVIOUS
<1> SUFFICES ASSUME NEW p
             PROVE  Key(M, p) \in Int
  OBVIOUS
<1> DEFINE above(x, limit, y) == x * (limit + 1) + y
<1>8. Key(M, p) = above(above(above(Points(M, p), square, Omw(M, p)), Unit, Gw(M, p)), cube, Oomw(M, p))
  BY <1>5 DEF Key
<1>9. \A x, limit, y \in Int : above(x, limit, y) \in Int
  BY <1>7
<1> HIDE DEF above
<1>10. above(Points(M, p), square, Omw(M, p)) \in Int
  BY <1>1, <1>4, <1>6, <1>9
<1>11. above(above(Points(M, p), square, Omw(M, p)), Unit, Gw(M, p)) \in Int
  BY <1>3, <1>6, <1>9, <1>10
<1> QED BY <1>2, <1>6, <1>8, <1>9, <1>11

(* Among finitely many there is a greatest.                                *)
LEMMA GreatestKey ==
    ASSUME NEW S, IsFiniteSet(S), S # {}, NEW h, \A s \in S : h[s] \in Int
    PROVE  \E s \in S : \A t \in S : h[t] <= h[s]
<1> DEFINE P == {n \in Nat : \A T \in SUBSET S : T # {} /\ Cardinality(T) <= n =>
                                \E s \in T : \A t \in T : h[t] <= h[s]}
<1>1. \A T \in SUBSET S : IsFiniteSet(T) /\ Cardinality(T) \in Nat
  BY FS_Subset, FS_CardinalityType
<1>2. 0 \in P
  BY <1>1, FS_EmptySet
<1>3. ASSUME NEW n \in Nat, n \in P
      PROVE  n + 1 \in P
  <2> SUFFICES ASSUME NEW T \in SUBSET S, T # {}, Cardinality(T) <= n + 1
               PROVE  \E s \in T : \A t \in T : h[t] <= h[s]
    OBVIOUS
  <2>1. PICK x \in T : TRUE
    OBVIOUS
  <2>2. T \ {x} \in SUBSET S /\ Cardinality(T \ {x}) <= n
    BY <1>1, <2>1, FS_RemoveElement
  <2>3. CASE T \ {x} = {}
    BY <2>1, <2>3
  <2>4. CASE T \ {x} # {}
    <3>1. PICK s \in T \ {x} : \A t \in T \ {x} : h[t] <= h[s]
      BY <1>3, <2>2, <2>4
    <3>2. h[x] \in Int /\ h[s] \in Int /\ \A t \in T : h[t] \in Int
      OBVIOUS
    <3>3. CASE h[x] <= h[s]
      BY <3>1, <3>3
    <3>4. CASE ~(h[x] <= h[s])
      <4>1. \A t \in T : h[t] <= h[x]
        BY <3>1, <3>2, <3>4
      <4> QED BY <2>1, <4>1
    <3> QED BY <3>3, <3>4
  <2> QED BY <2>3, <2>4
<1>4. Cardinality(S) \in P
  <2> HIDE DEF P
  <2> QED BY <1>1, <1>2, <1>3, Induct
<1> QED BY <1>1, <1>4

(* There is a table: the players not on it yet have one with the best key. *)
LEMMA TableIsThere ==
    ASSUME NEW M, IsFiniteSet(M), \A m \in M : m.one # NoPlayer, NEW S, IsFiniteSet(S)
    PROVE  Leaderboards(M, S) # {}
<1>1. PICK f : /\ Leaderboards(M, S) = f[Cardinality(S)]
               /\ f[0] = {<<>>}
               /\ \A k \in 1..Cardinality(S) : \A t \in f[k] :
                     \E u \in f[k - 1], p \in S : p \notin ToSet(u) /\ t = Append(u, p)
               /\ \A k \in 1..Cardinality(S) : \A u \in f[k - 1], p \in S :
                     /\ p \notin ToSet(u)
                     /\ \A q \in S : q \notin ToSet(u) => Key(M, q) <= Key(M, p)
                     => Append(u, p) \in f[k]
  BY LeaderboardsSteps
<1> DEFINE P == {k \in Nat : k <= Cardinality(S) =>
                    \E t \in f[k] : IsFiniteSet(ToSet(t)) /\ Cardinality(ToSet(t)) <= k /\ t \in Seq(S)}
<1>2. Cardinality(S) \in Nat
  BY FS_CardinalityType
<1>3. 0 \in P
  <2>1. PICK t : t = <<>>
    OBVIOUS
  <2>5. ToSet(t) = {}
    BY <2>1 DEF ToSet
  <2>6. t \in Seq(S)
    BY <2>1
  <2>2. IsFiniteSet({}) /\ Cardinality({}) = 0
    BY FS_EmptySet
  <2>3. t \in f[0]
    BY <1>1, <2>1
  <2>4. IsFiniteSet(ToSet(t)) /\ Cardinality(ToSet(t)) <= 0
    BY <2>2, <2>5
  <2> QED BY <2>3, <2>4, <2>6
<1>4. ASSUME NEW k \in Nat, k \in P
      PROVE  k + 1 \in P
  <2> SUFFICES ASSUME k + 1 <= Cardinality(S)
               PROVE  \E t \in f[k + 1] : IsFiniteSet(ToSet(t)) /\ Cardinality(ToSet(t)) <= k + 1
                                           /\ t \in Seq(S)
    OBVIOUS
  <2>1. PICK u \in f[k] : IsFiniteSet(ToSet(u)) /\ Cardinality(ToSet(u)) <= k /\ u \in Seq(S)
    BY <1>2, <1>4
  <2> DEFINE rest == S \ ToSet(u)
             h == [p \in rest |-> Key(M, p)]
  <2>2. IsFiniteSet(rest) /\ rest # {}
    <3>1. IsFiniteSet(rest)
      BY FS_Subset
    <3>2. CASE rest = {}
      <4>1. S \subseteq ToSet(u)
        BY <3>2
      <4>2. Cardinality(S) <= Cardinality(ToSet(u)) /\ Cardinality(ToSet(u)) \in Nat
        BY <2>1, <4>1, FS_Subset, FS_CardinalityType
      <4> QED BY <1>2, <2>1, <4>2
    <3> QED BY <3>1, <3>2
  <2>3. \A p \in rest : h[p] = Key(M, p) /\ h[p] \in Int
    BY KeysAreIntegers
  <2> HIDE DEF h
  <2>4. PICK p \in rest : \A q \in rest : h[q] <= h[p]
    BY <2>2, <2>3, GreatestKey
  <2>5. Append(u, p) \in f[k + 1]
    <3>1. k + 1 \in 1..Cardinality(S) /\ (k + 1) - 1 = k
      BY <1>2
    <3>2. p \in S /\ p \notin ToSet(u) /\ \A q \in S : q \notin ToSet(u) => Key(M, q) <= Key(M, p)
      BY <2>3, <2>4
    <3>3. \A v \in f[(k + 1) - 1], x \in S :
             /\ x \notin ToSet(v)
             /\ \A q \in S : q \notin ToSet(v) => Key(M, q) <= Key(M, x)
             => Append(v, x) \in f[k + 1]
      BY <1>1, <3>1
    <3> QED BY <2>1, <3>1, <3>2, <3>3
  <2>6. Append(u, p) \in Seq(S) /\ ToSet(Append(u, p)) = ToSet(u) \cup {p}
    <3>1. p \in S
      OBVIOUS
    <3>2. /\ Append(u, p) \in Seq(S) /\ DOMAIN Append(u, p) = 1..(Len(u) + 1) /\ Len(u) \in Nat
          /\ DOMAIN u = 1..Len(u) /\ \A i \in 1..Len(u) : Append(u, p)[i] = u[i]
          /\ Append(u, p)[Len(u) + 1] = p
      BY <2>1, <3>1
    <3>3. \A i \in 1..(Len(u) + 1) : i \in 1..Len(u) \/ i = Len(u) + 1
      BY <3>2
    <3> QED BY <3>2, <3>3 DEF ToSet
  <2>7. IsFiniteSet(ToSet(u) \cup {p}) /\ Cardinality(ToSet(u) \cup {p}) <= k + 1
    <3>1. Cardinality(ToSet(u)) \in Nat
      BY <2>1, FS_CardinalityType
    <3>2. IsFiniteSet(ToSet(u) \cup {p}) /\ Cardinality(ToSet(u) \cup {p}) = Cardinality(ToSet(u)) + 1
      BY <2>1, FS_AddElement
    <3> QED BY <2>1, <3>1, <3>2
  <2> QED BY <2>5, <2>6, <2>7
<1>5. Cardinality(S) \in P
  <2> HIDE DEF P
  <2> QED BY <1>2, <1>3, <1>4, Induct
<1> QED BY <1>1, <1>2, <1>5

LEMMA DrawIsThere ==
    ASSUME NEW order \in Seq(Player), Distinct(order), order # <<>>,
           \A q : Points(matches, q) \in Int
    PROVE  SwissDraw(order) # <<>>
<1>1. CASE Len(order) % 2 = 0
  <2>1. SwissDraw(order) = Pairings(order) /\ Len(Pairings(order)) = Len(order) \div 2
    BY <1>1, PairingsAreApart DEF SwissDraw
  <2>2. PICK n : n = Len(order)
    OBVIOUS
  <2>3. PICK draw : draw = SwissDraw(order)
    OBVIOUS
  <2>5. n \in Nat /\ n # 0
    <3> PICK T : T = Player
      OBVIOUS
    <3> HIDE DEF Player
    <3> QED BY <2>2
  <2>6. n % 2 = 0 /\ Len(draw) = n \div 2
    BY <1>1, <2>1, <2>2, <2>3
  <2>4. Len(draw) # 0
    <3> HIDE DEF Player
    <3> QED BY <2>5, <2>6
  <2> QED BY <2>3, <2>4
<1>2. CASE Len(order) % 2 # 0
  <2>1. PICK rest, sit : rest = Without(order, {BenchOf(order)}) /\ sit = <<BenchOf(order), NoPlayer>>
    OBVIOUS
  <2>2. rest \in Seq(Player) /\ Distinct(rest)
    BY <2>1, WithoutKeeps
  <2>3. PICK draw : draw = Pairings(rest)
    OBVIOUS
  <2>4. draw \in Seq(Player \X Player)
    BY <2>2, <2>3, PairingsAreApart
  <2>5. SwissDraw(order) = Append(draw, sit)
    BY <1>2, <2>1, <2>3 DEF SwissDraw
  <2>6. PICK T : draw \in Seq(T)
    BY <2>4
  <2>7. Append(draw, sit) # <<>>
    BY <2>6
  <2> QED BY <2>5, <2>7
<1> QED BY <1>1, <1>2

---------------------------------------------------------------------------
(* One request r runs at a time and no round is added.  Everything open is *)
(* in the latest round, what a completion has still to look at too; the    *)
(* request that closes a round draws the next one, or the cut, and nothing *)
(* comes in between.                                                       *)
Latest(n) == n \in rounds /\ n + 1 \notin rounds
Cuts      == {m \in matches : m.phase = 2}
Going     == \E m \in matches : ~m.done /\ ~m.bye
Entries   == Player \X (Player \cup {NoPlayer})

Row(m) ==
    /\ m.one \in Player /\ m.two \in Player \cup {NoPlayer} /\ m.bye = (m.two = NoPlayer)
    /\ m.phase = 1 => m.n <= field.rounds
    /\ m.phase = 2 => m.n = field.rounds + 1

OneCut ==
    \A m \in Cuts :
        /\ Cuts = {m}
        /\ \E table \in Leaderboards(matches \ Cuts, Player) : m.one = table[1] /\ m.two = table[2]
        /\ m.done => m.winner \in Sides(m)

Agenda(j) ==
    /\ \E T : j.todo \in Seq(T)
    /\ j.open # {} => j.op = "Walkover" /\ \E k : j.open = {k} /\ Latest(k[1])
    /\ j.op \in {"Pair", "Cut", "Final", "Crown", "Complete", "Walkover"} => j.todo = <<>>
    /\ j.op = "Check" =>
          /\ \A i \in DOMAIN j.todo : Latest(j.todo[i][1])
          /\ Len(j.todo) <= 1 \/ ~AllDone(matches)

Seating(j) ==
    /\ j.draw \in Seq(Entries)
    /\ \A i \in DOMAIN j.todo : j.todo[i][1] = j.n
    /\ Len(j.todo) <= 1 \/ Going \/ (j.op # "Bye" /\ j.draw # <<>> /\ j.draw[1][2] # NoPlayer)
    /\ j.op = "Bye" => \E m \in matches : Name(m) = <<j.n, j.draw[1][1]>> /\ m.bye
    /\ j.phase = 1 => j.n <= field.rounds /\ (~(Player \subseteq forfeited) => j.todo # <<>>)
    /\ j.phase = 2 =>
          /\ j.op # "Bye" /\ j.todo = <<>> /\ j.n = field.rounds + 1 /\ field.system = "HYBRID"
          /\ j.draw = <<>> => Going
          /\ j.draw # <<>> => /\ AllDone(matches) /\ Cuts = {}
                              /\ \E table \in Leaderboards(matches, Player) :
                                   j.draw = <<<<table[1], table[2]>>>>

Busy(j) ==
    \/ j.op \in {"Pair", "Cut", "Final", "Crown", "Complete", "Open", "Seat", "Bye"}
    \/ j.op = "Check" /\ j.todo # <<>>

Settling(j) ==
    AllDone(matches) /\ (Cuts # {} \/ ~(Player \subseteq forfeited)) =>
        status = "COMPLETED" \/ (TiedOnTop(matches, Player) /\ Cuts = {}) \/ Busy(j)

Plan(j) ==
    /\ Agenda(j)
    /\ j.op \in {"Open", "Seat", "Bye"} => Seating(j)
    /\ j.op \in {"Pair", "Open"} => \E n : Latest(n) /\ j.n = n + 1
    /\ j.op = "Pair" => j.phase = 1 /\ j.n <= field.rounds
    /\ j.op = "Cut" => field.system = "HYBRID"
    /\ j.op \in {"Cut", "Final"} => Latest(field.rounds) /\ AllDone(matches)
    /\ Settling(j)

PlayInv(r) ==
    /\ \A m \in matches : Row(m)
    /\ \A n \in rounds : n <= field.rounds + 1 /\ (n > field.rounds => field.system = "HYBRID")
    /\ OneCut
    /\ Plan(job[r])

(* What is known of request r while it runs alone, and of a step's outcome.*)
Playing(r) == ByeInv(r) /\ TurnInv(r) /\ PlayInv(r) /\ extra = {}

LEMMA OneLatest ==
    ASSUME NEW r \in Request, TurnInv(r), NEW k, NEW l, Latest(k), Latest(l)
    PROVE  k = l /\ k \in Nat
<1>1. PICK n \in Nat \ {0} : rounds = 1..n
  BY DEF TurnInv
<1> QED BY <1>1 DEF Latest

(* All but the latest round has been played.                               *)
LEMMA OthersDone ==
    ASSUME NEW r \in Request, Playing(r), NEW m \in matches
    PROVE  Latest(m.n) \/ m.done
<1>1. PICK k \in Nat \ {0} : rounds = 1..k
  BY DEF Playing, TurnInv
<1>2. m.n \in rounds /\ field.rounds \in Nat /\ extra = {}
  BY DEF Playing, TurnInv
<1>3. CASE m.n = k
  BY <1>1, <1>3 DEF Latest
<1>4. CASE m.n # k
  <2> PICK n : n = m.n + 1
    OBVIOUS
  <2>1. n \in rounds /\ n >= 2 /\ n - 1 = m.n
    BY <1>1, <1>2, <1>4
  <2>2. n <= field.rounds + 1
    BY <2>1 DEF Playing, PlayInv
  <2>3. n \in rounds \cap (2..(field.rounds + 1))
    BY <1>1, <1>2, <2>1, <2>2
  <2>4. AllDone(RoundOf(n - 1))
    BY <1>2, <2>3 DEF Playing, TurnInv
  <2> QED BY <2>1, <2>4 DEF AllDone, RoundOf
<1> QED BY <1>3, <1>4

LEMMA LatestDone ==
    ASSUME NEW r \in Request, Playing(r), NEW n, Latest(n), AllDone(RoundOf(n))
    PROVE  AllDone(matches)
<1> SUFFICES ASSUME NEW m \in matches, ~m.done
             PROVE  FALSE
  BY DEF AllDone
<1>1. Latest(m.n)
  BY OthersDone
<1>2. m.n = n
  BY <1>1, OneLatest DEF Playing
<1> QED BY <1>2 DEF AllDone, RoundOf

(* There is a cut only after the last round of the first phase.            *)
LEMMA NoCutYet ==
    ASSUME NEW r \in Request, Playing(r), NEW n, Latest(n), n <= field.rounds
    PROVE  Cuts = {}
<1> SUFFICES ASSUME NEW m \in matches, m.phase = 2
             PROVE  FALSE
  BY DEF Cuts
<1>1. PICK k \in Nat \ {0} : rounds = 1..k
  BY DEF Playing, TurnInv
<1>2. m.n \in rounds /\ m.n = field.rounds + 1 /\ field.rounds \in Nat
  BY DEF Playing, TurnInv, PlayInv, Row
<1>3. n = k
  BY <1>1 DEF Latest
<1> QED BY <1>1, <1>2, <1>3

LEMMA SameRow ==
    ASSUME NEW m, NEW g, Row(m), g.one = m.one, g.two = m.two, g.bye = m.bye, g.phase = m.phase, g.n = m.n
    PROVE  Row(g)
  BY DEF Row

(* The rows of the first phase are as they were, or there is no cut.       *)
LEMMA CutStays ==
    ASSUME NEW r \in Request, Playing(r), UNCHANGED field,
           \/ UNCHANGED matches
           \/ Cuts = {} /\ Cuts' = {}
           \/ \E m \in Cuts : \E g : /\ Replace(m, g) /\ g.phase = 2 /\ g.one = m.one /\ g.two = m.two
                                     /\ g.done => g.winner \in Sides(g)
    PROVE  OneCut' /\ (Cuts' = {} <=> Cuts = {})
<1>0. OneCut /\ Player' = Player
  BY DEF Playing, PlayInv, Player
<1>1. CASE UNCHANGED matches
  BY <1>0, <1>1 DEF OneCut, Cuts
<1>2. CASE Cuts = {} /\ Cuts' = {}
  BY <1>2 DEF OneCut
<1>3. ASSUME NEW m \in Cuts, NEW g, Replace(m, g), g.phase = 2, g.one = m.one, g.two = m.two,
             g.done => g.winner \in Sides(g)
      PROVE  OneCut' /\ (Cuts' = {} <=> Cuts = {})
  <2>1. Cuts = {m} /\ m \in matches /\ m.phase = 2
    BY <1>0 DEF OneCut, Cuts
  <2>2. matches' = (matches \ {m}) \cup {g}
    BY <1>3 DEF Replace
  <2>3. Cuts' = {g}
    BY <1>3, <2>1, <2>2 DEF Cuts
  <2>4. matches' \ Cuts' = matches \ Cuts
    BY <2>1, <2>2, <2>3, <1>3 DEF Cuts
  <2>5. \E table \in Leaderboards(matches \ Cuts, Player) : m.one = table[1] /\ m.two = table[2]
    BY <1>0 DEF OneCut
  <2>6. \E table \in Leaderboards(matches' \ Cuts', Player') : g.one = table[1] /\ g.two = table[2]
    BY <1>0, <1>3, <2>4, <2>5
  <2>7. OneCut'
    BY <1>3, <2>3, <2>6 DEF OneCut, Sides
  <2> QED BY <2>1, <2>3, <2>7
<1> QED BY <1>1, <1>2, <1>3

LEMMA PlayOn ==
    ASSUME NEW r \in Request, Playing(r), UNCHANGED <<field, rounds>>, OneCut',
           \A m \in matches' \ matches : Row(m),
           NEW j, job' = [job EXCEPT ![r] = j], Plan(j)'
    PROVE  PlayInv(r)'
<1>1. job'[r] = j /\ Player' = Player
  BY DEF Playing, TurnInv, Player
<1>2. \A m \in matches' : Row(m)
  BY DEF Playing, PlayInv
<1>3. \A m \in matches' : Row(m)'
  BY <1>1, <1>2 DEF Row
<1>4. Plan(job[r])'
  BY <1>1
<1> QED BY <1>3, <1>4 DEF Playing, PlayInv

LEMMA SettleStays ==
    ASSUME NEW i, NEW j, Settling(i), UNCHANGED <<field, matches, forfeited, status>>,
           Busy(i) => Busy(j)
    PROVE  Settling(j)'
<1>1. Player' = Player /\ Cuts' = Cuts /\ (AllDone(matches)' <=> AllDone(matches))
  BY DEF Player, Cuts, AllDone
<1>2. TiedOnTop(matches, Player)' <=> TiedOnTop(matches, Player)
  BY <1>1
<1>3. (~(Player \subseteq forfeited))' <=> ~(Player \subseteq forfeited)
  BY <1>1
<1>4. Busy(j)' <=> Busy(j)
  BY DEF Busy
<1> QED BY <1>1, <1>2, <1>3, <1>4 DEF Settling

(* The two players of a cut are on the table.                              *)
LEMMA TopTwo ==
    ASSUME field \in Fields, NEW M, NEW table \in Leaderboards(M, Player)
    PROVE  table[1] \in Player /\ table[2] \in Player /\ NoPlayer \notin Player
<1>1. IsFiniteSet(Player) /\ Cardinality(Player) = field.n /\ NoPlayer \notin Player
      /\ field.n \in Nat \ {0, 1}
  BY PlayersAreFinite, RoundsAssumption
<1>2. table \in Seq(Player) /\ Len(table) = field.n
  BY <1>1, TablesAreOrders
<1> HIDE DEF Player
<1>3. 1 \in DOMAIN table /\ 2 \in DOMAIN table
  BY <1>1, <1>2
<1> QED BY <1>1, <1>2, <1>3

(* A match is completed, and its completion goes on.                       *)
LEMMA PlayResult ==
    ASSUME NEW r \in Request, Playing(r), UNCHANGED <<field, rounds>>,
           NEW m \in matches, ~m.done, NEW g, Replace(m, g), g.done,
           g.one = m.one, g.two = m.two, g.bye = m.bye, g.phase = m.phase, g.n = m.n,
           m.phase = 2 => g.winner \in Sides(m),
           NEW j, job' = [job EXCEPT ![r] = j], j.op = "Check", j.todo = <<Name(m)>>, j.open = {}
    PROVE  PlayInv(r)'
<1>2. Latest(m.n)
  BY OthersDone
<1>3. DOMAIN m = MatchRow /\ m.phase \in {1, 2} /\ Row(m)
  BY DEF Playing, TurnInv, PlayInv
<1>6. matches' = (matches \ {m}) \cup {g}
  BY DEF Replace
<1>7. \A x \in matches' \ matches : Row(x)
  BY <1>3, <1>6, SameRow
<1>8. OneCut'
  <2>1. CASE m.phase = 2
    <3>1. m \in Cuts /\ g.phase = 2 /\ Sides(g) = Sides(m)
      BY <2>1 DEF Cuts, Sides
    <3> QED BY <2>1, <3>1, CutStays
  <2>2. CASE m.phase = 1
    <3>1. Cuts = {}
      BY <1>2, <1>3, <2>2, NoCutYet DEF Row
    <3>2. Cuts' = {}
      BY <1>6, <2>2, <3>1 DEF Cuts
    <3> QED BY <3>1, <3>2, CutStays
  <2> QED BY <1>3, <2>1, <2>2
<1>9. Plan(j)'
  <2>1. j.todo \in Seq({Name(m)}) /\ Len(j.todo) = 1 /\ DOMAIN j.todo = {1} /\ j.todo[1][1] = m.n
        /\ j.todo # <<>>
    BY DEF Name
  <2>2. \A i \in DOMAIN j.todo : Latest(j.todo[i][1])'
    BY <1>2, <2>1 DEF Latest
  <2>3. Agenda(j)'
    <3>1. \E T : j.todo \in Seq(T)
      BY <2>1
    <3> QED BY <2>1, <2>2, <3>1 DEF Agenda
  <2>4. Settling(j)'
    BY <2>1 DEF Settling, Busy
  <2> QED BY <2>3, <2>4 DEF Plan
<1> QED BY <1>7, <1>8, <1>9, PlayOn

LEMMA PlayReport ==
    ASSUME NEW r \in Request, Playing(r), NEW m \in matches, NEW w, Report(r, m, w)
    PROVE  PlayInv(r)'
<1> PICK j : j = [Job("Check", 0) EXCEPT !.todo = <<Name(m)>>]
  OBVIOUS
<1> PICK g : g = [m EXCEPT !.done = TRUE, !.winner = w, !.scored = w # NoPlayer /\ ~m.bye]
  OBVIOUS
<1>1. UNCHANGED <<field, rounds>> /\ job' = [job EXCEPT ![r] = j] /\ Replace(m, g)
      /\ ~m.done /\ (m.phase = 2 => w \in Sides(m))
  BY DEF Report, Begins
<1>2. DOMAIN m = MatchRow
  BY DEF Playing, TurnInv
<1>3. g.one = m.one /\ g.two = m.two /\ g.bye = m.bye /\ g.phase = m.phase /\ g.n = m.n
      /\ g.done /\ g.winner = w
  BY <1>2 DEF MatchRow
<1>4. j.op = "Check" /\ j.todo = <<Name(m)>> /\ j.open = {}
  BY DEF Job
<1> QED BY <1>1, <1>3, <1>4, PlayResult

LEMMA PlayReset ==
    ASSUME NEW r \in Request, Playing(r), field.system # "ROUND_ROBIN",
           NEW m \in matches, Reset(r, m)
    PROVE  PlayInv(r)'
<1> DEFINE g == [m EXCEPT !.done = FALSE, !.winner = NoPlayer, !.scored = FALSE]
<1>1. UNCHANGED <<field, rounds, forfeited, job>> /\ Replace(m, g) /\ job[r] = Idle
      /\ (m.phase = 1 => \A n \in rounds : n <= m.n)
  BY DEF Reset
<1>2. DOMAIN m = MatchRow /\ m.phase \in {1, 2} /\ Row(m) /\ m.n \in rounds
  BY DEF Playing, TurnInv, PlayInv
<1>3. g.one = m.one /\ g.two = m.two /\ g.bye = m.bye /\ g.phase = m.phase /\ g.n = m.n /\ ~g.done
  BY <1>2 DEF MatchRow
<1> HIDE DEF g
<1>4. matches' = (matches \ {m}) \cup {g}
  BY <1>1 DEF Replace
<1>5. \A x \in matches' \ matches : Row(x)
  BY <1>2, <1>3, <1>4, SameRow
<1>6. OneCut'
  <2>1. CASE m.phase = 2
    <3>1. m \in Cuts
      BY <2>1 DEF Cuts
    <3> QED BY <1>1, <1>3, <2>1, <3>1, CutStays
  <2>2. CASE m.phase = 1
    <3>1. Latest(m.n)
      <4>1. m.n + 1 \notin rounds
        BY <1>1, <1>2, <2>2 DEF Playing, TurnInv
      <4> QED BY <1>2, <4>1 DEF Latest
    <3>2. Cuts = {}
      BY <1>2, <2>2, <3>1, NoCutYet DEF Row
    <3>3. Cuts' = {}
      BY <1>3, <1>4, <2>2, <3>2 DEF Cuts
    <3> QED BY <1>1, <3>2, <3>3, CutStays
  <2> QED BY <1>2, <2>1, <2>2
<1>7. PICK j : j = job[r]
  OBVIOUS
<1>8. j.op = "Idle" /\ j.open = {}
  BY <1>1, <1>7 DEF Idle, Job
<1>9. job' = [job EXCEPT ![r] = j]
  BY <1>1, <1>7 DEF Playing, TurnInv
<1>10. Plan(j)'
  <2>1. Agenda(j)'
    BY <1>7, <1>8 DEF Playing, PlayInv, Plan, Agenda
  <2>2. ~AllDone(matches)'
    BY <1>3, <1>4 DEF AllDone
  <2>3. Settling(j)'
    BY <2>2 DEF Settling
  <2> QED BY <1>8, <2>1, <2>3 DEF Plan
<1> QED BY <1>1, <1>5, <1>6, <1>9, <1>10, PlayOn

(* Only what a request does next is written.                               *)
LEMMA PlayWait ==
    ASSUME NEW r \in Request, Playing(r), UNCHANGED <<field, rows>>,
           NEW j, job' = [job EXCEPT ![r] = j], Plan(j)'
    PROVE  PlayInv(r)'
BY PlayOn, CutStays DEF rows

LEMMA PlayForfeit ==
    ASSUME NEW r \in Request, Playing(r), NEW p \in Player, Forfeit(r, p)
    PROVE  PlayInv(r)'
<1> DEFINE mine == {m \in matches : ~m.done /\ ~m.bye /\ p \in Sides(m)}
<1> PICK open : open = {Name(m) : m \in mine}
  OBVIOUS
<1> PICK j : j = [Job("Walkover", 0) EXCEPT !.p = p, !.open = open]
  OBVIOUS
<1>1. UNCHANGED <<field, rounds, matches, status>> /\ job' = [job EXCEPT ![r] = j] /\ job[r] = Idle
      /\ forfeited' = forfeited \cup {p}
  BY DEF Forfeit, Begins, rows, title
<1>2. j.op = "Walkover" /\ j.todo = <<>> /\ j.open = open
  BY DEF Job
<1>3. \A m, g \in mine : m = g
  <2> SUFFICES ASSUME NEW m \in mine, NEW g \in mine, m # g
               PROVE  FALSE
    OBVIOUS
  <2>1. Latest(m.n) /\ Latest(g.n)
    BY OthersDone
  <2>2. m.n = g.n
    BY <2>1, OneLatest DEF Playing
  <2>3. p \in Sides(m) /\ p \in Sides(g)
    OBVIOUS
  <2> QED BY <2>2, <2>3 DEF Playing, ByeInv, DrawInv, OncePerRound
<1>4. open # {} => \E k : open = {k} /\ Latest(k[1])
  <2> SUFFICES ASSUME open # {}
               PROVE  \E k : open = {k} /\ Latest(k[1])
    OBVIOUS
  <2>1. PICK m \in mine : Name(m) \in open
    OBVIOUS
  <2>2. mine = {m}
    BY <1>3
  <2>3. open = {Name(m)}
    BY <2>2
  <2>4. Latest(Name(m)[1])
    BY OthersDone DEF Name
  <2> QED BY <2>3, <2>4
<1> HIDE DEF mine
<1>5. Plan(j)'
  <2>1. \E T : j.todo \in Seq(T)
    <3>1. PICK t : t = <<>>
      OBVIOUS
    <3>2. t \in Seq({})
      BY <3>1
    <3> QED BY <1>2, <3>1, <3>2
  <2>2. Agenda(j)'
    <3>1. open # {} => \E k : open = {k} /\ Latest(k[1])'
      BY <1>1, <1>4 DEF Latest
    <3> QED BY <1>2, <2>1, <3>1 DEF Agenda
  <2>3. Settling(Idle)
    BY <1>1 DEF Playing, PlayInv, Plan
  <2>4. ~Busy(Idle) /\ Player' = Player
    BY <1>1 DEF Busy, Idle, Job, Player
  <2>5. AllDone(matches) /\ (Cuts # {} \/ ~(Player \subseteq forfeited)) =>
           status = "COMPLETED" \/ (TiedOnTop(matches, Player) /\ Cuts = {})
    BY <2>3, <2>4 DEF Settling
  <2>6. ~(Player \subseteq forfeited') => ~(Player \subseteq forfeited)
    BY <1>1
  <2>7. Settling(j)'
    <3>1. Cuts' = Cuts /\ status' = status /\ matches' = matches /\ (AllDone(matches)' <=> AllDone(matches))
      BY <1>1 DEF Cuts, AllDone
    <3>2. TiedOnTop(matches, Player)' <=> TiedOnTop(matches, Player)
      BY <2>4, <3>1
    <3>3. (~(Player \subseteq forfeited))' <=> ~(Player \subseteq forfeited')
      BY <2>4
    <3> QED BY <2>5, <2>6, <3>1, <3>2, <3>3 DEF Settling
  <2> QED BY <1>2, <2>2, <2>7 DEF Plan
<1> QED BY <1>1, <1>5, PlayWait DEF rows

LEMMA PlayWalkover ==
    ASSUME NEW r \in Request, Playing(r), Walkover(r)
    PROVE  PlayInv(r)'
<1>1. UNCHANGED <<field, rounds, forfeited, status>> /\ job[r].op = "Walkover"
  BY DEF Walkover, Runs, title
<1>2. Agenda(job[r]) /\ Settling(job[r]) /\ ~Busy(job[r])
  BY <1>1 DEF Playing, PlayInv, Plan, Busy
<1>3. CASE job[r].open = {}
  <2>1. PICK j : j = Idle
    OBVIOUS
  <2>2. job' = [job EXCEPT ![r] = j] /\ UNCHANGED matches
    BY <1>3, <2>1 DEF Walkover, Fails
  <2>3. j.op = "Idle" /\ j.todo = job[r].todo /\ j.open = {}
    BY <1>1, <1>2, <2>1 DEF Idle, Job, Agenda
  <2>4. Agenda(j)'
    BY <1>2, <2>3 DEF Agenda
  <2>5. Settling(j)'
    BY <1>1, <1>2, <2>2, SettleStays
  <2> QED BY <1>1, <2>2, <2>3, <2>4, <2>5, PlayWait DEF Plan, rows
<1>4. CASE job[r].open # {}
  <2>1. PICK k : job[r].open = {k} /\ Latest(k[1])
    BY <1>2, <1>4 DEF Agenda
  <2>2. PICK m \in matches :
            /\ Name(m) = k
            /\ IF m.done
               THEN job' = [job EXCEPT ![r].open = @ \ {k}] /\ UNCHANGED matches
               ELSE /\ Replace(m, [m EXCEPT !.done = TRUE, !.winner = Opponent(m, job[r].p)])
                    /\ job' = [job EXCEPT ![r].open = @ \ {k}, ![r].op = "Check", ![r].todo = <<k>>]
    BY <1>4, <2>1 DEF Walkover, Named
  <2>3. DOMAIN job[r] = JobRow /\ r \in DOMAIN job
    BY DEF Playing, TurnInv, Turn
  <2>4. CASE m.done
    <3> PICK j : j = [job[r] EXCEPT !.open = @ \ {k}]
      OBVIOUS
    <3>1. job' = [job EXCEPT ![r] = j] /\ UNCHANGED matches
      BY <2>2, <2>4
    <3>2. j.op = "Walkover" /\ j.todo = job[r].todo /\ j.open = {}
      BY <1>1, <2>1, <2>3 DEF JobRow
    <3>3. Agenda(j)'
      BY <1>1, <1>2, <3>2 DEF Agenda
    <3>4. Settling(j)'
      BY <1>1, <1>2, <3>1, SettleStays
    <3> QED BY <1>1, <3>1, <3>2, <3>3, <3>4, PlayWait DEF Plan, rows
  <2>5. CASE ~m.done
    <3> PICK j : j = [job[r] EXCEPT !.open = @ \ {k}, !.op = "Check", !.todo = <<k>>]
      OBVIOUS
    <3> PICK g : g = [m EXCEPT !.done = TRUE, !.winner = Opponent(m, job[r].p)]
      OBVIOUS
    <3>1. job' = [job EXCEPT ![r] = j] /\ Replace(m, g)
      BY <2>2, <2>3, <2>5
    <3>2. j.op = "Check" /\ j.todo = <<Name(m)>> /\ j.open = {}
      BY <2>1, <2>2, <2>3 DEF JobRow
    <3>3. DOMAIN m = MatchRow
      BY DEF Playing, TurnInv
    <3>4. g.one = m.one /\ g.two = m.two /\ g.bye = m.bye /\ g.phase = m.phase /\ g.n = m.n
          /\ g.done /\ g.winner = Opponent(m, job[r].p)
      BY <3>3 DEF MatchRow
    <3>5. m.phase = 2 => g.winner \in Sides(m)
      <4> SUFFICES ASSUME m.phase = 2
                   PROVE  g.winner \in Sides(m)
        OBVIOUS
      <4>1. \E table \in Leaderboards(matches \ Cuts, Player) : m.one = table[1] /\ m.two = table[2]
        BY DEF Playing, PlayInv, OneCut, Cuts
      <4>2. m.one \in Player /\ m.two \in Player /\ NoPlayer \notin Player
        BY <4>1, TopTwo DEF Playing, ByeInv, DrawInv
      <4> QED BY <3>4, <4>2 DEF Opponent, Sides
    <3> QED BY <1>1, <2>5, <3>1, <3>2, <3>4, <3>5, PlayResult
  <2> QED BY <2>4, <2>5
<1> QED BY <1>3, <1>4

(* What a request is to do next with nothing to look at any more.          *)
LEMMA PlayThen ==
    ASSUME NEW r \in Request, Playing(r), UNCHANGED <<field, rows, forfeited, status>>,
           NEW j, job' = [job EXCEPT ![r] = j], j.todo = <<>>, j.open = {},
           j.op \in {"Final", "Crown", "Complete", "Pair", "Cut", "Check", "Walkover"},
           j.op \in {"Check", "Walkover"} => Settling(j)',
           j.op = "Pair" => j.phase = 1 /\ j.n <= field.rounds /\ \E n : Latest(n) /\ j.n = n + 1,
           j.op = "Cut" => field.system = "HYBRID",
           j.op \in {"Cut", "Final"} => Latest(field.rounds) /\ AllDone(matches)
    PROVE  PlayInv(r)'
<1>1. Agenda(j)'
  <2>1. PICK t : t = <<>>
    OBVIOUS
  <2>2. t \in Seq({}) /\ Len(t) = 0 /\ DOMAIN t = {}
    BY <2>1
  <2>3. \E T : j.todo \in Seq(T)
    BY <2>1, <2>2
  <2>4. Len(j.todo) = 0 /\ DOMAIN j.todo = {}
    BY <2>1, <2>2
  <2> QED BY <2>3, <2>4 DEF Agenda
<1>2. Settling(j)'
  BY DEF Settling, Busy
<1>3. j.op = "Pair" => \E n : Latest(n)' /\ j.n = n + 1
  BY DEF Latest, rows
<1>4. j.op \in {"Cut", "Final"} => (Latest(field.rounds) /\ AllDone(matches))'
  BY DEF Latest, AllDone, rows
<1>5. Plan(j)'
  BY <1>1, <1>2, <1>3, <1>4 DEF Plan
<1> QED BY <1>5, PlayWait

LEMMA PlayCheck ==
    ASSUME NEW r \in Request, Playing(r), field.system # "ROUND_ROBIN", Check(r)
    PROVE  PlayInv(r)'
<1>1. UNCHANGED <<field, rows, forfeited, status>> /\ job[r].op = "Check"
  BY DEF Check, Runs, title
<1>2. Agenda(job[r]) /\ Settling(job[r]) /\ DOMAIN job[r] = JobRow /\ job[r].open = {}
  BY <1>1 DEF Playing, PlayInv, Plan, Agenda, TurnInv, Turn
<1>3. CASE job[r].todo = <<>>
  <2>1. PICK j : j = [job[r] EXCEPT !.op = "Walkover"]
    OBVIOUS
  <2>2. job' = [job EXCEPT ![r] = j]
    BY <1>3, <2>1 DEF Check, Then
  <2>3. j.op = "Walkover" /\ j.todo = <<>> /\ j.open = {}
    BY <1>2, <1>3, <2>1 DEF JobRow
  <2>4. Settling(j)'
    BY <1>1, <1>2, <1>3, SettleStays DEF Busy, rows
  <2> QED BY <1>1, <2>2, <2>3, <2>4, PlayThen
<1>4. CASE job[r].todo # <<>>
  <2>1. PICK todo, T : todo = job[r].todo /\ todo \in Seq(T)
    BY <1>2 DEF Agenda
  <2>2. 1 \in DOMAIN todo /\ Head(todo) = todo[1]
    BY <1>4, <2>1
  <2>3. PICK m \in matches :
            /\ Name(m) = Head(job[r].todo)
            /\ LET j   == [job[r] EXCEPT !.todo = Tail(@), !.n = m.n + 1, !.phase = 1]
                   won == {g.winner : g \in RoundOf(m.n)} \ {NoPlayer}
                   go(op) == job' = [job EXCEPT ![r] = [j EXCEPT !.op = op]]
               IN  IF ~Over(m) THEN go("Check")
                   ELSE IF m.phase = 2
                   THEN IF won = {} THEN go("Check")
                        ELSE job' = [job EXCEPT ![r] =
                                        [j EXCEPT !.op = "Crown", !.p = Max(won)]]
                   ELSE IF field.system # "ROUND_ROBIN" /\ m.n < field.rounds THEN go("Pair")
                   ELSE go(IF field.system = "HYBRID" THEN "Cut" ELSE "Final")
    BY <1>4 DEF Check, Named
  <2>4. Latest(m.n)
    BY <1>1, <1>2, <2>1, <2>2, <2>3 DEF Agenda, Name
  <2>5. PICK rest : rest = Tail(todo)
    OBVIOUS
  <2>6. PICK j : j = [job[r] EXCEPT !.todo = rest, !.n = m.n + 1, !.phase = 1]
    OBVIOUS
  <2>7. PICK won : won = {g.winner : g \in RoundOf(m.n)} \ {NoPlayer}
    OBVIOUS
  <2>8. DOMAIN j = JobRow /\ j.todo = rest /\ j.n = m.n + 1 /\ j.phase = 1 /\ j.open = {}
    BY <1>2, <2>6 DEF JobRow
  <2>9. Row(m) /\ m.phase \in {1, 2} /\ field.rounds \in Nat
        /\ \A g \in matches : Row(g) /\ g.phase \in {1, 2}
    BY DEF Playing, PlayInv, TurnInv
  <2>10. CASE ~Over(m)
    <3>1. PICK i : i = [j EXCEPT !.op = "Check"]
      OBVIOUS
    <3>2. job' = [job EXCEPT ![r] = i]
      BY <2>1, <2>3, <2>5, <2>6, <2>10, <3>1
    <3>3. i.op = "Check" /\ i.todo = rest /\ i.open = {}
      BY <2>8, <3>1 DEF JobRow
    <3>4. ~AllDone(matches)
      BY <2>10 DEF Over, AllDone, RoundOf
    <3>5. ~AllDone(matches)'
      BY <1>1, <3>4 DEF AllDone, rows
    <3>6. rest \in Seq(T) /\ \A x \in DOMAIN rest : rest[x] = todo[x + 1] /\ x + 1 \in DOMAIN todo
      BY <1>4, <2>1, <2>5
    <3>7. \A x \in DOMAIN rest : Latest(rest[x][1])'
      <4>1. \A x \in DOMAIN todo : Latest(todo[x][1])
        BY <1>1, <1>2, <2>1 DEF Agenda
      <4>2. \A x \in DOMAIN rest : Latest(rest[x][1])
        BY <3>6, <4>1
      <4> QED BY <1>1, <4>2 DEF Latest, rows
    <3>8. \E U : i.todo \in Seq(U)
      BY <3>3, <3>6
    <3>9. Agenda(i)'
      BY <3>3, <3>5, <3>7, <3>8 DEF Agenda
    <3>10. Settling(i)'
      BY <3>5 DEF Settling
    <3>11. Plan(i)'
      BY <3>3, <3>9, <3>10 DEF Plan
    <3> QED BY <1>1, <3>2, <3>11, PlayWait
  <2>11. CASE Over(m)
    <3>1. AllDone(RoundOf(m.n))
      BY <2>11 DEF Over
    <3>2. AllDone(matches)
      BY <2>4, <3>1, LatestDone
    <3>3. rest = <<>>
      <4>1. Len(todo) <= 1
        BY <1>1, <1>2, <2>1, <3>2 DEF Agenda
      <4> QED BY <1>4, <2>1, <2>5, <4>1
    <3>4. CASE m.phase = 2
      <4>1. Cuts = {m} /\ (m.done => m.winner \in Sides(m))
        BY <3>4 DEF Playing, PlayInv, OneCut, Cuts
      <4>2. m.done /\ m \in RoundOf(m.n)
        BY <3>2 DEF AllDone, RoundOf
      <4>3. m.winner \in won
        BY <2>7, <4>1, <4>2 DEF Sides
      <4>4. job' = [job EXCEPT ![r] = [j EXCEPT !.op = "Crown", !.p = Max(won)]]
        BY <2>1, <2>3, <2>5, <2>6, <2>7, <2>11, <3>4, <4>3
      <4>5. PICK i : i = [j EXCEPT !.op = "Crown", !.p = Max(won)]
        OBVIOUS
      <4>6. i.op = "Crown" /\ i.todo = <<>> /\ i.open = {}
        BY <2>8, <3>3, <4>5 DEF JobRow
      <4> QED BY <1>1, <4>4, <4>5, <4>6, PlayThen
    <3>5. CASE m.phase = 1 /\ m.n < field.rounds
      <4>1. job' = [job EXCEPT ![r] = [j EXCEPT !.op = "Pair"]]
        BY <2>1, <2>3, <2>5, <2>6, <2>11, <3>5
      <4>2. PICK i : i = [j EXCEPT !.op = "Pair"]
        OBVIOUS
      <4>3. i.op = "Pair" /\ i.todo = <<>> /\ i.open = {} /\ i.phase = 1 /\ i.n = m.n + 1
        BY <2>8, <3>3, <4>2 DEF JobRow
      <4>4. i.n <= field.rounds
        <5>1. m.n \in Nat
          BY <2>4, OneLatest DEF Playing
        <5> QED BY <2>9, <3>5, <4>3, <5>1
      <4> QED BY <1>1, <2>4, <4>1, <4>2, <4>3, <4>4, PlayThen
    <3>6. CASE m.phase = 1 /\ ~(m.n < field.rounds)
      <4>1. PICK op : /\ op \in {"Cut", "Final"} /\ (op = "Cut" => field.system = "HYBRID")
                      /\ job' = [job EXCEPT ![r] = [j EXCEPT !.op = op]]
        <5>1. PICK op : op = IF field.system = "HYBRID" THEN "Cut" ELSE "Final"
          OBVIOUS
        <5>2. job' = [job EXCEPT ![r] = [j EXCEPT !.op = op]]
          BY <2>1, <2>3, <2>5, <2>6, <2>11, <3>6, <5>1
        <5> QED BY <5>1, <5>2
      <4>2. PICK i : i = [j EXCEPT !.op = op]
        OBVIOUS
      <4>3. i.op = op /\ i.todo = <<>> /\ i.open = {}
        BY <2>8, <3>3, <4>2 DEF JobRow
      <4>4. m.n = field.rounds
        <5>1. m.n \in Nat
          BY <2>4, OneLatest DEF Playing
        <5> QED BY <2>9, <3>6, <5>1 DEF Row
      <4> QED BY <1>1, <2>4, <3>2, <4>1, <4>2, <4>3, <4>4, PlayThen
    <3> QED BY <2>9, <3>4, <3>5, <3>6
  <2> QED BY <2>10, <2>11
<1> QED BY <1>3, <1>4

LEMMA PlayFinal ==
    ASSUME NEW r \in Request, Playing(r), Final(r)
    PROVE  PlayInv(r)'
<1>1. UNCHANGED <<field, rows, forfeited, status>> /\ job[r].op = "Final"
  BY DEF Final, Runs, title
<1>2. Agenda(job[r]) /\ DOMAIN job[r] = JobRow /\ Latest(field.rounds) /\ field.rounds \in Nat
  BY <1>1 DEF Playing, PlayInv, Plan, TurnInv, Turn
<1>3. job[r].todo = <<>> /\ job[r].open = {}
  BY <1>1, <1>2 DEF Agenda
<1>4. Cuts = {}
  BY <1>2, NoCutYet
<1>5. CASE TiedOnTop(matches, Player)
  <2>1. PICK j : j = [job[r] EXCEPT !.op = "Check"]
    OBVIOUS
  <2>2. job' = [job EXCEPT ![r] = j]
    BY <1>5, <2>1 DEF Final, Then
  <2>3. j.op = "Check" /\ j.todo = <<>> /\ j.open = {}
    BY <1>2, <1>3, <2>1 DEF JobRow
  <2>4. Player' = Player /\ Cuts' = {} /\ matches' = matches
    BY <1>1, <1>4 DEF Player, Cuts, rows
  <2>5. TiedOnTop(matches, Player)'
    BY <1>5, <2>4
  <2>6. Settling(j)'
    BY <2>4, <2>5 DEF Settling
  <2> QED BY <1>1, <2>2, <2>3, <2>6, PlayThen
<1>6. CASE ~TiedOnTop(matches, Player)
  <2>1. PICK p : job' = [job EXCEPT ![r].op = "Crown", ![r].p = p]
    BY <1>6 DEF Final
  <2>2. PICK j : j = [job[r] EXCEPT !.op = "Crown", !.p = p]
    OBVIOUS
  <2>3. job' = [job EXCEPT ![r] = j]
    BY <2>1, <2>2 DEF Playing, TurnInv
  <2>4. j.op = "Crown" /\ j.todo = <<>> /\ j.open = {}
    BY <1>2, <1>3, <2>2 DEF JobRow
  <2> QED BY <1>1, <2>3, <2>4, PlayThen
<1> QED BY <1>5, <1>6

(* A draw whose first entry is a bye has no other.                         *)
LEMMA PlayPair ==
    ASSUME NEW r \in Request, Playing(r), Pair(r)
    PROVE  PlayInv(r)'
<1>1. UNCHANGED <<field, rows, forfeited, status>> /\ job[r].op = "Pair"
  BY DEF Pair, Runs, title
<1>2. Agenda(job[r]) /\ DOMAIN job[r] = JobRow /\ job[r].phase = 1 /\ job[r].n <= field.rounds
      /\ \E k : Latest(k) /\ job[r].n = k + 1
  BY <1>1 DEF Playing, PlayInv, Plan, TurnInv, Turn
<1>3. job[r].todo = <<>> /\ job[r].open = {}
  BY <1>1, <1>2 DEF Agenda
<1>4. PICK table \in Leaderboards(matches, Player) :
         LET draw == SwissDraw(Without(table, forfeited))
         IN  job' = [job EXCEPT ![r].op = "Open", ![r].draw = draw,
                ![r].todo = [i \in DOMAIN draw |-> <<job[r].n, draw[i][1]>>] \o @]
  BY DEF Pair
<1>5. PICK n, order, draw : n = job[r].n /\ order = Without(table, forfeited) /\ draw = SwissDraw(order)
  OBVIOUS
<1>6. PICK names, todo : names = [i \in DOMAIN draw |-> <<n, draw[i][1]>>] /\ todo = names \o <<>>
  OBVIOUS
<1>7. PICK j : j = [job[r] EXCEPT !.op = "Open", !.draw = draw, !.todo = todo]
  OBVIOUS
<1>8. job' = [job EXCEPT ![r] = j]
  <2>1. job' = [job EXCEPT ![r].op = "Open", ![r].draw = draw, ![r].todo = names \o @]
    BY <1>4, <1>5, <1>6
  <2>2. job' = [job EXCEPT ![r].op = "Open", ![r].draw = draw, ![r].todo = todo]
    BY <1>2, <1>3, <1>6, <2>1 DEF JobRow, Playing, TurnInv
  <2> QED BY <1>7, <2>2 DEF Playing, TurnInv
<1>9. j.op = "Open" /\ j.draw = draw /\ j.todo = todo /\ j.open = {} /\ j.n = n /\ j.phase = 1
  BY <1>2, <1>3, <1>5, <1>7 DEF JobRow
<1>10. field \in Fields /\ IsFiniteSet(matches)
  BY DEF Playing, ByeInv, DrawInv
<1>11. IsFiniteSet(Player) /\ \A q : Points(matches, q) \in Int
  BY <1>10, PlayersAreFinite, MatchesGivePoints
<1>12. table \in Seq(Player) /\ Distinct(table)
  BY <1>11, TablesAreOrders
<1>13. order \in Seq(Player) /\ Distinct(order)
  BY <1>5, <1>12, WithoutKeeps
<1>14. draw \in Seq(Entries)
  BY <1>5, <1>11, <1>13, DrawIsApart DEF Entries
<1>15. \A i \in DOMAIN draw : draw[i][2] = NoPlayer => i = Len(draw)
  BY <1>5, <1>10, DrawIsFair
<1>16. ~(Player \subseteq forfeited) => draw # <<>>
  <2> SUFFICES ASSUME ~(Player \subseteq forfeited)
               PROVE  draw # <<>>
    OBVIOUS
  <2>1. PICK p \in Player : p \notin forfeited
    OBVIOUS
  <2>2. PICK h \in 1..Len(table) : table[h] = p
    BY <1>11, TablesCover
  <2>3. PICK i \in DOMAIN order : order[i] = p
    BY <1>5, <1>12, <2>1, <2>2, WithoutCovers
  <2>4. order # <<>>
    BY <2>3
  <2> QED BY <1>5, <1>11, <1>13, <2>4, DrawIsThere
<1> HIDE DEF Entries, Player
<1>17. todo \in Seq({<<n, draw[i][1]>> : i \in DOMAIN draw}) /\ Len(todo) = Len(draw)
       /\ DOMAIN todo = 1..Len(draw) /\ \A i \in DOMAIN todo : todo[i] = <<n, draw[i][1]>>
  <2>1. names \in Seq({<<n, draw[i][1]>> : i \in DOMAIN draw}) /\ Len(names) = Len(draw)
        /\ DOMAIN names = 1..Len(draw) /\ \A i \in DOMAIN names : names[i] = <<n, draw[i][1]>>
    BY <1>6, <1>14
  <2>2. todo = names
    BY <1>6, <2>1
  <2> QED BY <2>1, <2>2
<1>18. Agenda(j)'
  <2>1. \E T : j.todo \in Seq(T)
    BY <1>9, <1>17
  <2> QED BY <1>9, <2>1 DEF Agenda
<1>19. Seating(j)'
  <2>1. draw \in Seq(Entries)'
    BY <1>1, <1>14 DEF Entries, Player
  <2>2. \A i \in DOMAIN j.todo : j.todo[i][1] = j.n
    BY <1>9, <1>17
  <2>3. Len(todo) <= 1 \/ (draw # <<>> /\ draw[1][2] # NoPlayer)
    <3> SUFFICES ASSUME ~(Len(draw) <= 1)
                 PROVE  draw # <<>> /\ draw[1][2] # NoPlayer
      BY <1>17
    <3>1. 1 \in DOMAIN draw /\ 1 # Len(draw) /\ draw # <<>>
      BY <1>14
    <3> QED BY <1>15, <3>1
  <2>4. (~(Player \subseteq forfeited))' => todo # <<>>
    <3>1. draw # <<>> => todo # <<>>
      BY <1>14, <1>17
    <3>2. ~(Player \subseteq forfeited) => draw # <<>>
      BY <1>16 DEF Player
    <3> QED BY <1>1, <3>1, <3>2 DEF Player
  <2> QED BY <1>1, <1>2, <1>5, <1>9, <2>1, <2>2, <2>3, <2>4 DEF Seating
<1>20. \E k : Latest(k)' /\ n = k + 1
  BY <1>1, <1>2, <1>5 DEF Latest, rows
<1>21. Settling(j)'
  BY <1>9 DEF Settling, Busy
<1>22. Plan(j)'
  BY <1>9, <1>18, <1>19, <1>20, <1>21 DEF Plan
<1> QED BY <1>1, <1>8, <1>22, PlayWait

LEMMA PlayCut ==
    ASSUME NEW r \in Request, Playing(r), Cut(r)
    PROVE  PlayInv(r)'
<1>1. UNCHANGED <<field, rows, forfeited, status>> /\ job[r].op = "Cut"
  BY DEF Cut, Runs, title
<1>2. Agenda(job[r]) /\ DOMAIN job[r] = JobRow /\ Latest(field.rounds) /\ field.rounds \in Nat
      /\ AllDone(matches) /\ field.system = "HYBRID"
  BY <1>1 DEF Playing, PlayInv, Plan, TurnInv, Turn
<1>3. job[r].todo = <<>> /\ job[r].open = {}
  BY <1>1, <1>2 DEF Agenda
<1>4. Cuts = {}
  BY <1>2, NoCutYet
<1>5. Max(rounds) = field.rounds
  <2>1. PICK k \in Nat \ {0} : rounds = 1..k
    BY DEF Playing, TurnInv
  <2>2. field.rounds = k
    BY <1>2, <2>1 DEF Latest
  <2> QED BY <2>1, <2>2, LastRound
<1>6. PICK table \in Leaderboards(matches, Player) :
         job' = [job EXCEPT ![r] =
                    IF field.cut < 2 THEN [@ EXCEPT !.op = "Complete"]
                    ELSE [@ EXCEPT !.op = "Open", !.n = Max(rounds) + 1, !.phase = 2,
                                   !.draw = <<<<table[1], table[2]>>>>]]
  BY DEF Cut
<1>7. CASE field.cut < 2
  <2>1. PICK j : j = [job[r] EXCEPT !.op = "Complete"]
    OBVIOUS
  <2>2. job' = [job EXCEPT ![r] = j]
    BY <1>6, <1>7, <2>1
  <2>3. j.op = "Complete" /\ j.todo = <<>> /\ j.open = {}
    BY <1>2, <1>3, <2>1 DEF JobRow
  <2> QED BY <1>1, <2>2, <2>3, PlayThen
<1>8. CASE ~(field.cut < 2)
  <2>1. PICK n, pair : n = field.rounds + 1 /\ pair = <<table[1], table[2]>>
    OBVIOUS
  <2>2. PICK j : j = [job[r] EXCEPT !.op = "Open", !.n = n, !.phase = 2, !.draw = <<pair>>]
    OBVIOUS
  <2>3. job' = [job EXCEPT ![r] = j]
    BY <1>5, <1>6, <1>8, <2>1, <2>2
  <2>4. j.op = "Open" /\ j.todo = <<>> /\ j.open = {} /\ j.n = n /\ j.phase = 2 /\ j.draw = <<pair>>
    BY <1>2, <1>3, <2>2 DEF JobRow
  <2>5. PICK t : t = <<>>
    OBVIOUS
  <2>6. t \in Seq({}) /\ Len(t) = 0 /\ DOMAIN t = {}
    BY <2>5
  <2>7. \E T : j.todo \in Seq(T)
    BY <2>4, <2>5, <2>6
  <2>8. Len(j.todo) = 0 /\ DOMAIN j.todo = {}
    BY <2>4, <2>5, <2>6
  <2>9. Agenda(j)'
    BY <2>4, <2>7 DEF Agenda
  <2>10. Player' = Player /\ matches' = matches /\ Cuts' = {} /\ field' = field
    BY <1>1, <1>4 DEF Player, Cuts, rows
  <2>11. pair \in Entries
    BY <2>1, TopTwo DEF Entries, Playing, ByeInv, DrawInv
  <2>12. j.draw \in Seq(Entries)'
    <3>1. Entries' = Entries
      BY <2>10 DEF Entries
    <3> PICK E : E = Entries
      OBVIOUS
    <3>2. <<pair>> \in Seq(E)
      BY <2>11
    <3> QED BY <2>4, <3>1, <3>2
  <2>13. AllDone(matches)'
    BY <1>2, <2>10 DEF AllDone
  <2>14. \E tab \in Leaderboards(matches', Player') : j.draw = <<<<tab[1], tab[2]>>>>
    BY <2>1, <2>4, <2>10
  <2>15. j.draw # <<>>
    BY <2>4
  <2>16. Seating(j)'
    BY <1>2, <2>1, <2>4, <2>8, <2>10, <2>12, <2>13, <2>14, <2>15 DEF Seating
  <2>17. \E k : Latest(k)' /\ j.n = k + 1
    BY <1>1, <1>2, <2>1, <2>4 DEF Latest, rows
  <2>18. Settling(j)'
    BY <2>4 DEF Settling, Busy
  <2>19. Plan(j)'
    BY <2>4, <2>9, <2>16, <2>17, <2>18 DEF Plan
  <2> QED BY <1>1, <2>3, <2>19, PlayWait
<1> QED BY <1>7, <1>8

LEMMA PlayOpen ==
    ASSUME NEW r \in Request, Playing(r), Open(r)
    PROVE  PlayInv(r)'
<1>1. UNCHANGED <<field, matches, forfeited, status>> /\ job[r].op = "Open"
  BY DEF Open, Runs, title
<1>2. Agenda(job[r]) /\ Seating(job[r]) /\ DOMAIN job[r] = JobRow /\ field.rounds \in Nat
      /\ job[r].phase \in {1, 2} /\ \E k : Latest(k) /\ job[r].n = k + 1
  BY <1>1 DEF Playing, PlayInv, Plan, TurnInv, Turn
<1>3. PICK n : n = job[r].n
  OBVIOUS
<1>4. n \notin rounds
  BY <1>2, <1>3 DEF Latest
<1>5. rounds' = rounds \cup {n} /\ Then(r, "Seat")
  BY <1>3, <1>4 DEF Open
<1>6. PICK j : j = [job[r] EXCEPT !.op = "Seat"]
  OBVIOUS
<1>7. job' = [job EXCEPT ![r] = j]
  BY <1>5, <1>6 DEF Then
<1>8. j.op = "Seat" /\ j.todo = job[r].todo /\ j.open = job[r].open /\ j.n = n /\ j.phase = job[r].phase
      /\ j.draw = job[r].draw
  BY <1>2, <1>3, <1>6 DEF JobRow
<1>9. Player' = Player /\ matches' = matches /\ Cuts' = Cuts /\ field' = field /\ Entries' = Entries
      /\ (Going' <=> Going) /\ (AllDone(matches)' <=> AllDone(matches)) /\ forfeited' = forfeited
  BY <1>1 DEF Player, Cuts, Entries, Going, AllDone
<1>10. j.open = {}
  BY <1>1, <1>2, <1>8 DEF Agenda
<1>11. Agenda(j)'
  BY <1>2, <1>8, <1>10 DEF Agenda
<1>12. Seating(j)'
  <2>2. (\E table \in Leaderboards(matches, Player) : j.draw = <<<<table[1], table[2]>>>>)' <=>
        (\E table \in Leaderboards(matches, Player) : j.draw = <<<<table[1], table[2]>>>>)
    BY <1>9
  <2> QED BY <1>1, <1>2, <1>3, <1>8, <1>9, <2>2 DEF Seating
<1>13. Settling(j)'
  BY <1>8 DEF Settling, Busy
<1>14. Plan(j)'
  BY <1>8, <1>11, <1>12, <1>13 DEF Plan
<1>15. Plan(job[r])'
  BY <1>7, <1>14 DEF Playing, TurnInv
<1>16. OneCut'
  BY <1>1, CutStays
<1>17. n <= field.rounds + 1 /\ (n > field.rounds => field.system = "HYBRID")
  <2>1. n \in Nat
    BY <1>3 DEF Playing, TurnInv, Turn
  <2> QED BY <1>2, <1>3, <2>1 DEF Seating
<1>18. \A m \in matches' : Row(m)'
  BY <1>9 DEF Playing, PlayInv, Row
<1> QED BY <1>1, <1>5, <1>15, <1>16, <1>17, <1>18 DEF Playing, PlayInv

LEMMA PlayCrown ==
    ASSUME NEW r \in Request, Playing(r), Crown(r) \/ Complete(r)
    PROVE  PlayInv(r)'
<1>1. UNCHANGED <<field, rows, forfeited>> /\ job[r].op \in {"Crown", "Complete"}
  BY DEF Crown, Complete, Runs
<1>2. Agenda(job[r]) /\ DOMAIN job[r] = JobRow
  BY <1>1 DEF Playing, PlayInv, Plan, TurnInv, Turn
<1>3. job[r].todo = <<>> /\ job[r].open = {}
  BY <1>1, <1>2 DEF Agenda
<1>4. PICK op : op = IF Crown(r) THEN "Complete" ELSE "Check"
  OBVIOUS
<1>5. PICK j : j = [job[r] EXCEPT !.op = op]
  OBVIOUS
<1>6. job' = [job EXCEPT ![r] = j]
  BY <1>4, <1>5 DEF Crown, Complete, Then
<1>7. j.op = op /\ j.todo = <<>> /\ j.open = {}
  BY <1>2, <1>3, <1>5 DEF JobRow
<1>8. Settling(j)'
  <2>1. CASE Crown(r)
    BY <1>4, <1>7, <2>1 DEF Settling, Busy
  <2>2. CASE ~Crown(r)
    BY <2>2 DEF Settling, Complete
  <2> QED BY <2>1, <2>2
<1>9. Agenda(j)'
  <2>1. PICK t : t = <<>>
    OBVIOUS
  <2>2. t \in Seq({}) /\ Len(t) = 0 /\ DOMAIN t = {}
    BY <2>1
  <2>3. \E T : j.todo \in Seq(T)
    BY <1>7, <2>1, <2>2
  <2>4. Len(j.todo) = 0 /\ DOMAIN j.todo = {}
    BY <1>7, <2>1, <2>2
  <2> QED BY <1>7, <2>3, <2>4 DEF Agenda
<1>10. Plan(j)'
  BY <1>4, <1>7, <1>8, <1>9 DEF Plan
<1> QED BY <1>1, <1>6, <1>10, PlayWait

LEMMA PlayTie ==
    ASSUME NEW r \in Request, Playing(r), ApplyTiebreakers(r)
    PROVE  PlayInv(r)'
<1>1. UNCHANGED <<field, rows, forfeited, status>>
  BY DEF ApplyTiebreakers, title
<1>2. PICK p : Begins(r, [Job("Crown", 0) EXCEPT !.p = p])
  BY DEF ApplyTiebreakers
<1>3. PICK j : j = [Job("Crown", 0) EXCEPT !.p = p]
  OBVIOUS
<1>4. j.op = "Crown" /\ j.todo = <<>> /\ j.open = {} /\ job' = [job EXCEPT ![r] = j]
  BY <1>2, <1>3 DEF Job, Begins
<1> QED BY <1>1, <1>4, PlayThen

LEMMA PlayBye ==
    ASSUME NEW r \in Request, Playing(r), Bye(r)
    PROVE  PlayInv(r)'
<1>1. UNCHANGED <<field, rounds, forfeited>> /\ job[r].op = "Bye"
      /\ job' = [job EXCEPT ![r].op = "Seat", ![r].draw = Tail(@)]
  BY DEF Bye, Runs
<1>2. Agenda(job[r]) /\ Seating(job[r]) /\ DOMAIN job[r] = JobRow /\ field.rounds \in Nat
      /\ job[r].phase \in {1, 2} /\ Latest(job[r].n)
  BY <1>1 DEF Playing, PlayInv, Plan, TurnInv, Turn, Latest
<1>3. PICK n, draw : n = job[r].n /\ draw = job[r].draw
  OBVIOUS
<1>4. PICK m \in matches : Name(m) = <<n, draw[1][1]>> /\ Replace(m, Benched(m))
  <2>1. draw # <<>>
    BY <1>1, <1>3 DEF Playing, ByeInv, DrawInv, Draft
  <2>2. draw \in Seq(Entries)
    BY <1>2, <1>3 DEF Seating
  <2>3. Head(draw) = draw[1]
    <3> HIDE DEF Entries
    <3> QED BY <2>1, <2>2
  <2> QED BY <1>3, <2>3 DEF Bye, Named
<1>5. m.bye
  <2>1. PICK g \in matches : Name(g) = <<n, draw[1][1]>> /\ g.bye
    BY <1>1, <1>2, <1>3 DEF Seating
  <2>2. g.n = m.n /\ g.one = m.one /\ m.one \in Player /\ NoPlayer \notin Player
    BY <1>4, <2>1, PlayersAreFinite DEF Name, Playing, PlayInv, Row, ByeInv, DrawInv
  <2>3. m.one \in Sides(m) \cap Sides(g)
    BY <2>2 DEF Sides
  <2>4. m = g
    BY <2>2, <2>3 DEF Playing, ByeInv, DrawInv, OncePerRound
  <2> QED BY <2>1, <2>4
<1>6. PICK g : g = Benched(m)
  OBVIOUS
<1>7. DOMAIN m = MatchRow /\ Row(m) /\ m.phase \in {1, 2}
  BY DEF Playing, TurnInv, PlayInv
<1>8. g.one = m.one /\ g.two = m.two /\ g.bye = m.bye /\ g.phase = m.phase /\ g.n = m.n
  BY <1>6, <1>7 DEF MatchRow, Benched
<1>9. matches' = (matches \ {m}) \cup {g}
  BY <1>4, <1>6 DEF Replace
<1>10. \A x \in matches' \ matches : Row(x)
  BY <1>7, <1>8, <1>9, SameRow
<1>11. job[r].phase = 1 /\ n <= field.rounds
  BY <1>1, <1>2, <1>3 DEF Seating
<1>12. Cuts = {}
  BY <1>2, <1>3, <1>11, NoCutYet
<1>13. Cuts' = {}
  BY <1>8, <1>9, <1>12 DEF Cuts
<1>14. OneCut'
  BY <1>1, <1>12, <1>13, CutStays
<1>15. PICK rest : rest = Tail(draw)
  OBVIOUS
<1>16. PICK j : j = [job[r] EXCEPT !.op = "Seat", !.draw = rest]
  OBVIOUS
<1>17. job' = [job EXCEPT ![r] = j]
  BY <1>1, <1>3, <1>15, <1>16 DEF Playing, TurnInv
<1>18. j.op = "Seat" /\ j.draw = rest /\ j.n = n /\ j.phase = 1 /\ j.todo = job[r].todo
       /\ j.open = job[r].open
  BY <1>2, <1>3, <1>11, <1>16 DEF JobRow
<1>19. Agenda(j)'
  BY <1>1, <1>2, <1>18 DEF Agenda
<1>20. rest \in Seq(Entries)'
  <2>1. draw # <<>> /\ draw \in Seq(Entries)
    BY <1>1, <1>2, <1>3 DEF Playing, ByeInv, DrawInv, Draft, Seating
  <2>2. Entries' = Entries
    BY <1>1 DEF Entries, Player
  <2> HIDE DEF Entries
  <2>3. rest \in Seq(Entries)
    BY <1>15, <2>1
  <2> QED BY <2>2, <2>3
<1>21. Going => Going'
  BY <1>5, <1>9 DEF Going
<1>22. Len(j.todo) <= 1 \/ Going
  BY <1>1, <1>2, <1>18 DEF Seating
<1>23. Seating(j)'
  <2>1. (~(Player \subseteq forfeited))' <=> ~(Player \subseteq forfeited)
    BY <1>1 DEF Player
  <2> QED BY <1>1, <1>2, <1>3, <1>11, <1>18, <1>20, <1>21, <1>22, <2>1 DEF Seating
<1>24. Settling(j)'
  BY <1>18 DEF Settling, Busy
<1>25. Plan(j)'
  BY <1>18, <1>19, <1>23, <1>24 DEF Plan
<1> QED BY <1>1, <1>10, <1>14, <1>17, <1>25, PlayOn

LEMMA PlaySeat ==
    ASSUME NEW r \in Request, Playing(r), Seat(r)
    PROVE  PlayInv(r)'
<1>1. UNCHANGED <<field, rounds, forfeited, status>> /\ job[r].op = "Seat"
  BY DEF Seat, Runs, title
<1>2. Agenda(job[r]) /\ Seating(job[r]) /\ DOMAIN job[r] = JobRow /\ field.rounds \in Nat
      /\ job[r].phase \in {1, 2} /\ Latest(job[r].n)
  BY <1>1 DEF Playing, PlayInv, Plan, TurnInv, Turn, Latest
<1>3. PICK n, draw, todo : n = job[r].n /\ draw = job[r].draw /\ todo = job[r].todo
  OBVIOUS
<1>4. job[r].open = {}
  BY <1>1, <1>2 DEF Agenda
<1>5. Going => ~AllDone(matches)
  BY DEF Going, AllDone
<1>6. CASE draw = <<>>
  <2>1. PICK j : j = [job[r] EXCEPT !.op = "Check"]
    OBVIOUS
  <2>2. job' = [job EXCEPT ![r] = j] /\ UNCHANGED matches
    BY <1>3, <1>6, <2>1 DEF Seat, Then
  <2>3. j.op = "Check" /\ j.todo = todo /\ j.open = {}
    BY <1>2, <1>3, <1>4, <2>1 DEF JobRow
  <2>4. \A i \in DOMAIN todo : Latest(todo[i][1])'
    <3>1. \A i \in DOMAIN todo : todo[i][1] = n
      BY <1>2, <1>3 DEF Seating
    <3>2. Latest(n)'
      BY <1>1, <1>2, <1>3 DEF Latest
    <3> QED BY <3>1, <3>2
  <2>5. Len(todo) <= 1 \/ ~AllDone(matches)'
    <3>1. Len(todo) <= 1 \/ Going
      BY <1>2, <1>3, <1>6 DEF Seating
    <3>2. AllDone(matches)' <=> AllDone(matches)
      BY <2>2 DEF AllDone
    <3> QED BY <1>5, <3>1, <3>2
  <2>6. Agenda(j)'
    <3>1. \E T : j.todo \in Seq(T)
      BY <1>2, <1>3, <2>3 DEF Agenda
    <3> QED BY <2>3, <2>4, <2>5, <3>1 DEF Agenda
  <2>7. AllDone(matches) /\ (Cuts # {} \/ ~(Player \subseteq forfeited)) => todo # <<>>
    <3>1. CASE job[r].phase = 1
      <4>1. n <= field.rounds /\ (~(Player \subseteq forfeited) => todo # <<>>)
        BY <1>2, <1>3, <3>1 DEF Seating
      <4>2. Cuts = {}
        BY <1>2, <1>3, <4>1, NoCutYet
      <4> QED BY <4>1, <4>2
    <3>2. CASE job[r].phase = 2
      <4>1. Going
        BY <1>2, <1>3, <1>6, <3>2 DEF Seating
      <4> QED BY <1>5, <4>1
    <3> QED BY <1>2, <3>1, <3>2
  <2>8. Settling(j)'
    <3>1. Player' = Player /\ matches' = matches /\ Cuts' = Cuts /\ forfeited' = forfeited
      BY <1>1, <2>2 DEF Player, Cuts
    <3>2. (AllDone(matches) /\ (Cuts # {} \/ ~(Player \subseteq forfeited)))' => todo # <<>>
      BY <2>7, <3>1 DEF AllDone
    <3> QED BY <2>3, <3>2 DEF Settling, Busy
  <2>9. Plan(j)'
    BY <2>3, <2>6, <2>8 DEF Plan
  <2> QED BY <1>1, <2>2, <2>9, PlayWait DEF rows
<1>7. CASE draw # <<>>
  <2>1. PICK first, rest : first = Head(draw) /\ rest = Tail(draw)
    OBVIOUS
  <2>2. first = draw[1] /\ first \in Entries /\ rest \in Seq(Entries) /\ 1 \in DOMAIN draw
        /\ (Len(draw) = 1 => rest = <<>>) /\ Len(draw) \in Nat
    <3>1. draw \in Seq(Entries)
      BY <1>2, <1>3 DEF Seating
    <3> HIDE DEF Entries
    <3> QED BY <1>7, <2>1, <3>1
  <2>3. PICK m : m = Match(n, first, job[r].phase)
    OBVIOUS
  <2>4. /\ matches' = matches \cup {m}
        /\ job' = IF m.bye THEN [job EXCEPT ![r].op = "Bye"]
                  ELSE [job EXCEPT ![r].draw = Tail(@)]
    BY <1>3, <1>7, <2>1, <2>3 DEF Seat
  <2>5. m.one = first[1] /\ m.two = first[2] /\ m.bye = (m.two = NoPlayer) /\ m.n = n
        /\ m.phase = job[r].phase /\ ~m.done /\ m.one \in Player /\ m.two \in Player \cup {NoPlayer}
    BY <2>2, <2>3 DEF Match, Entries
  <2>6. m.phase = 1 => n <= field.rounds /\ Cuts = {}
    <3> SUFFICES ASSUME m.phase = 1
                 PROVE  n <= field.rounds /\ Cuts = {}
      OBVIOUS
    <3>1. n <= field.rounds
      BY <1>2, <1>3, <2>5 DEF Seating
    <3> QED BY <1>2, <1>3, <3>1, NoCutYet
  <2>7. m.phase = 2 =>
          /\ n = field.rounds + 1 /\ AllDone(matches) /\ Cuts = {} /\ todo = <<>> /\ ~m.bye
          /\ \E table \in Leaderboards(matches, Player) : m.one = table[1] /\ m.two = table[2]
          /\ rest = <<>> /\ field.system = "HYBRID"
    <3> SUFFICES ASSUME m.phase = 2
                 PROVE  /\ n = field.rounds + 1 /\ AllDone(matches) /\ Cuts = {} /\ todo = <<>> /\ ~m.bye
                        /\ \E table \in Leaderboards(matches, Player) : m.one = table[1] /\ m.two = table[2]
                        /\ rest = <<>> /\ field.system = "HYBRID"
      OBVIOUS
    <3>1. /\ todo = <<>> /\ n = field.rounds + 1 /\ field.system = "HYBRID"
          /\ AllDone(matches) /\ Cuts = {}
          /\ \E table \in Leaderboards(matches, Player) : draw = <<<<table[1], table[2]>>>>
      BY <1>2, <1>3, <1>7, <2>5 DEF Seating
    <3>2. PICK table \in Leaderboards(matches, Player) : draw = <<<<table[1], table[2]>>>>
      BY <3>1
    <3>3. table[2] \in Player /\ NoPlayer \notin Player
      BY TopTwo DEF Playing, ByeInv, DrawInv
    <3>4. Len(draw) = 1 /\ draw[1][1] = table[1] /\ draw[1][2] = table[2]
      BY <3>2
    <3> QED BY <2>2, <2>5, <3>1, <3>3, <3>4
  <2>8. \A x \in matches' \ matches : Row(x)
    BY <1>2, <2>4, <2>5, <2>6, <2>7 DEF Row
  <2>9. OneCut'
    <3>1. CASE m.phase = 1
      <4>1. Cuts = {} /\ Cuts' = {}
        BY <2>4, <2>6, <3>1 DEF Cuts
      <4> QED BY <1>1, <4>1, CutStays
    <3>2. CASE m.phase = 2
      <4>1. Cuts' = {m}
        BY <2>4, <2>7, <3>2 DEF Cuts
      <4>2. matches' \ Cuts' = matches
        BY <2>4, <2>7, <3>2, <4>1 DEF Cuts
      <4>3. Player' = Player
        BY <1>1 DEF Player
      <4>4. \E table \in Leaderboards(matches' \ Cuts', Player') : m.one = table[1] /\ m.two = table[2]
        BY <2>7, <3>2, <4>2, <4>3
      <4> QED BY <2>5, <4>1, <4>4 DEF OneCut
    <3> QED BY <1>2, <2>5, <3>1, <3>2
  <2>10. Going => Going'
    BY <2>4 DEF Going
  <2>11. Player' = Player /\ field' = field /\ forfeited' = forfeited /\ Entries' = Entries
    BY <1>1 DEF Player, Entries
  <2>12. CASE m.bye
    <3>1. PICK j : j = [job[r] EXCEPT !.op = "Bye"]
      OBVIOUS
    <3>2. job' = [job EXCEPT ![r] = j]
      BY <2>4, <2>12, <3>1
    <3>3. j.op = "Bye" /\ j.draw = draw /\ j.n = n /\ j.phase = job[r].phase /\ j.todo = todo
          /\ j.open = {}
      BY <1>2, <1>3, <1>4, <3>1 DEF JobRow
    <3>4. job[r].phase = 1
      BY <1>2, <2>5, <2>7, <2>12
    <3>5. Agenda(j)'
      BY <1>2, <1>3, <3>3 DEF Agenda
    <3>6. Len(todo) <= 1 \/ Going
      BY <1>2, <1>3, <2>2, <2>5, <2>12 DEF Seating
    <3>7. \E x \in matches' : Name(x) = <<n, draw[1][1]>> /\ x.bye
      <4>1. m \in matches' /\ Name(m) = <<n, draw[1][1]>>
        BY <2>2, <2>4, <2>5 DEF Name
      <4> QED BY <2>12, <4>1
    <3>8. draw \in Seq(Entries)' /\ \A i \in DOMAIN todo : todo[i][1] = n
      BY <1>2, <1>3, <2>11 DEF Seating
    <3>9. n <= field.rounds /\ (~(Player \subseteq forfeited) => todo # <<>>)
      BY <1>2, <1>3, <3>4 DEF Seating
    <3>10. Seating(j)'
      BY <2>10, <2>11, <3>3, <3>4, <3>6, <3>7, <3>8, <3>9 DEF Seating
    <3>11. Settling(j)'
      BY <3>3 DEF Settling, Busy
    <3>12. Plan(j)'
      BY <3>3, <3>5, <3>10, <3>11 DEF Plan
    <3> QED BY <1>1, <2>8, <2>9, <3>2, <3>12, PlayOn
  <2>13. CASE ~m.bye
    <3>1. PICK j : j = [job[r] EXCEPT !.draw = rest]
      OBVIOUS
    <3>2. job' = [job EXCEPT ![r] = j]
      BY <1>3, <2>1, <2>4, <2>13, <3>1
    <3>3. j.op = "Seat" /\ j.draw = rest /\ j.n = n /\ j.phase = job[r].phase /\ j.todo = todo
          /\ j.open = {}
      BY <1>1, <1>2, <1>3, <1>4, <3>1 DEF JobRow
    <3>4. Agenda(j)'
      BY <1>2, <1>3, <3>3 DEF Agenda
    <3>5. Going'
      BY <2>4, <2>5, <2>13 DEF Going
    <3>6. rest \in Seq(Entries)' /\ \A i \in DOMAIN todo : todo[i][1] = n
      BY <1>2, <1>3, <2>2, <2>11 DEF Seating
    <3>7. job[r].phase = 1 => n <= field.rounds /\ (~(Player \subseteq forfeited) => todo # <<>>)
      BY <1>2, <1>3 DEF Seating
    <3>8. job[r].phase = 2 => todo = <<>> /\ n = field.rounds + 1 /\ field.system = "HYBRID" /\ rest = <<>>
      BY <2>5, <2>7
    <3>9. Seating(j)'
      BY <2>11, <3>3, <3>5, <3>6, <3>7, <3>8 DEF Seating
    <3>10. Settling(j)'
      BY <3>3 DEF Settling, Busy
    <3>11. Plan(j)'
      BY <3>3, <3>4, <3>9, <3>10 DEF Plan
    <3> QED BY <1>1, <2>8, <2>9, <3>2, <3>11, PlayOn
  <2> QED BY <2>12, <2>13
<1> QED BY <1>6, <1>7

(* The first round has somebody to play.                                   *)
LEMMA FirstRoundIsOpen ==
    ASSUME Init
    PROVE  \E m \in matches : ~m.done /\ ~m.bye
<1>1. PICK n \in Nat \ {0, 1} : n = field.n /\ NoPlayer \notin 1..n
  BY RoundsAssumption DEF Init
<1> DEFINE M == IF field.system = "ROUND_ROBIN" THEN Circle(n) ELSE Neighbours(n)
<1>2. \A m \in M : ~m.bye => m \in matches
  BY <1>1 DEF Init, Drawn
<1>3. \E m \in M : ~m.done /\ ~m.bye
  <2>1. CASE field.system # "ROUND_ROBIN"
    <3>1. PICK i \in 1..((n + 1) \div 2) : i = 1
      BY <1>1
    <3>2. PICK m : m = Match(1, <<2 * i - 1, IF 2 * i <= n THEN 2 * i ELSE NoPlayer>>, 1)
      OBVIOUS
    <3>3. m \in Neighbours(n)
      BY <3>2 DEF Neighbours
    <3>4. ~m.done /\ m.bye = (2 = NoPlayer)
      BY <1>1, <3>1, <3>2 DEF Match
    <3>5. 2 \in 1..n
      BY <1>1
    <3> QED BY <1>1, <2>1, <3>3, <3>4, <3>5
  <2>2. CASE field.system = "ROUND_ROBIN"
    <3> DEFINE size == n + (n % 2)
               seat(r, i) == IF i = 0 THEN 1 ELSE IF i > r THEN i - r + 1 ELSE i - r + size
               who(p) == IF p > n THEN NoPlayer ELSE p
               pair(r, i) == LET p == who(seat(r, i)) q == who(seat(r, size - 1 - i))
                             IN  IF p = NoPlayer THEN <<q, p>> ELSE <<p, q>>
    <3>1. PICK h : h = n % 2
      OBVIOUS
    <3>2. h \in {0, 1} /\ size = n + h /\ (h = 1 => n > 2) /\ n \in Nat /\ n >= 2
      BY <1>1, <3>1
    <3>3. PICK k : k = (n + h) \div 2
      OBVIOUS
    <3>4. k \in Int /\ k - 1 >= h /\ size \div 2 = k
      <4>1. CASE h = 0
        <5>1. k = n \div 2 /\ size = n
          BY <3>2, <3>3, <4>1
        <5> HIDE DEF size
        <5>2. n \div 2 >= 1 /\ n \div 2 \in Int
          BY <3>2
        <5> QED BY <4>1, <5>1, <5>2
      <4>2. CASE h = 1
        BY <1>1, <3>2, <3>3, <4>2
      <4> QED BY <3>2, <4>1, <4>2
    <3>5. PICK i \in 0..(size \div 2 - 1) : i = h
      BY <3>2, <3>4
    <3>6. PICK r \in 0..(size - 2) : r = 0
      BY <1>1, <3>2
    <3>7. PICK m : m = Match(r + 1, pair(r, i), 1)
      OBVIOUS
    <3>8. m \in Circle(n)
      <4>1. Circle(n) = {Match(x + 1, pair(x, y), 1) : x \in 0..(size - 2), y \in 0..(size \div 2 - 1)}
        BY DEF Circle
      <4> HIDE DEF size, pair
      <4> QED BY <3>7, <4>1
    <3>9. seat(r, i) \in 1..n /\ seat(r, size - 1 - i) \in 1..n
      <4>1. CASE h = 0
        <5>1. i = 0 /\ r = 0 /\ size = n
          BY <3>2, <3>5, <3>6, <4>1
        <5>2. size - 1 - i = n - 1 /\ n - 1 > 0 /\ n - 1 \in Int
          BY <3>2, <5>1
        <5>3. seat(r, i) = 1
          BY <5>1
        <5>4. seat(r, size - 1 - i) = n
          BY <3>2, <5>1, <5>2
        <5> QED BY <3>2, <5>3, <5>4
      <4>2. CASE h = 1
        BY <1>1, <3>2, <3>5, <3>6, <4>2
      <4> QED BY <3>2, <4>1, <4>2
    <3> HIDE DEF size, seat
    <3>10. pair(r, i)[2] \in 1..n
      BY <1>1, <3>9
    <3> HIDE DEF pair
    <3>11. ~m.done /\ ~m.bye
      BY <1>1, <3>7, <3>10 DEF Match
    <3> QED BY <2>2, <3>8, <3>11
  <2> QED BY <2>1, <2>2
<1> HIDE DEF M
<1> QED BY <1>2, <1>3

LEMMA PlayInit ==
    ASSUME NEW r \in Request, Init, field.system # "ROUND_ROBIN", field.rounds > 0
    PROVE  Playing(r)
<1>1. PICK n \in Nat \ {0, 1} : n = field.n /\ NoPlayer \notin 1..n
  BY RoundsAssumption DEF Init
<1>2. Player = 1..n /\ field.rounds \in Nat /\ extra = {}
  BY <1>1, RoundsAssumption DEF Init, Player
<1>3. \A m \in Neighbours(n) :
         /\ DOMAIN m = MatchRow /\ m.n = 1 /\ m.phase = 1
         /\ m.one \in Player /\ m.two \in Player \cup {NoPlayer} /\ m.bye = (m.two = NoPlayer)
  <2> SUFFICES ASSUME NEW i \in 1..((n + 1) \div 2), NEW m,
                      m = Match(1, <<2 * i - 1, IF 2 * i <= n THEN 2 * i ELSE NoPlayer>>, 1)
               PROVE  /\ DOMAIN m = MatchRow /\ m.n = 1 /\ m.phase = 1
                      /\ m.one \in Player /\ m.two \in Player \cup {NoPlayer} /\ m.bye = (m.two = NoPlayer)
    BY DEF Neighbours
  <2>1. 2 * i - 1 \in 1..n /\ (2 * i <= n => 2 * i \in 1..n)
    BY <1>1
  <2> QED BY <1>2, <2>1 DEF Match, MatchRow
<1>4. \A m \in matches : Row(m) /\ m.phase = 1 /\ m.n = 1
  <2> SUFFICES ASSUME NEW m \in matches
               PROVE  Row(m) /\ m.phase = 1 /\ m.n = 1
    OBVIOUS
  <2>1. PICK g \in Neighbours(n) : m = IF g.bye THEN Benched(g) ELSE g
    BY <1>1 DEF Init, Drawn
  <2>2. m.one = g.one /\ m.two = g.two /\ m.bye = g.bye /\ m.phase = g.phase /\ m.n = g.n
    BY <1>3, <2>1 DEF Benched, MatchRow
  <2> QED BY <1>2, <1>3, <2>2 DEF Row
<1>5. Cuts = {}
  BY <1>4 DEF Cuts
<1>6. \A k \in rounds : k = 1
  BY <1>4 DEF Init
<1>7. ~AllDone(matches)
  BY FirstRoundIsOpen DEF AllDone
<1>8. job[r] = Idle
  BY DEF Init
<1>9. Plan(Idle)
  <2>1. PICK t : t = <<>>
    OBVIOUS
  <2>2. t \in Seq({})
    BY <2>1
  <2>3. Idle.op = "Idle" /\ Idle.todo = t /\ Idle.open = {}
    BY <2>1 DEF Idle, Job
  <2>4. \E T : Idle.todo \in Seq(T)
    BY <2>2, <2>3
  <2> QED BY <1>7, <2>3, <2>4 DEF Plan, Agenda, Settling
<1>10. PlayInv(r)
  BY <1>2, <1>4, <1>5, <1>6, <1>8, <1>9 DEF PlayInv, OneCut
<1> QED BY <1>2, <1>10, TurnInit, ByeInit DEF Playing

LEMMA PlayStutter ==
    ASSUME NEW r \in Request, Playing(r), UNCHANGED vars
    PROVE  PlayInv(r)'
<1>1. UNCHANGED <<field, rounds, matches, forfeited, status, job>>
  BY DEF vars, rows, title
<1>2. PICK j : j = job[r]
  OBVIOUS
<1>3. job' = [job EXCEPT ![r] = j]
  BY <1>1, <1>2 DEF Playing, TurnInv
<1>4. Plan(j)
  BY <1>2 DEF Playing, PlayInv
<1>5. Player' = Player /\ Cuts' = Cuts /\ (AllDone(matches)' <=> AllDone(matches))
      /\ (Going' <=> Going) /\ Entries' = Entries /\ matches' = matches
  BY <1>1 DEF Player, Cuts, AllDone, Going, Entries
<1>6. \A n : Latest(n)' <=> Latest(n)
  BY <1>1 DEF Latest
<1>7. Agenda(j)'
  BY <1>4, <1>5, <1>6 DEF Plan, Agenda
<1>8. Settling(j)'
  BY <1>1, <1>4, SettleStays DEF Plan
<1>9. j.op \in {"Open", "Seat", "Bye"} => Seating(j)'
  <2>1. (~(Player \subseteq forfeited))' <=> ~(Player \subseteq forfeited)
    BY <1>1, <1>5
  <2>2. (\E table \in Leaderboards(matches, Player) : j.draw = <<<<table[1], table[2]>>>>)' <=>
        (\E table \in Leaderboards(matches, Player) : j.draw = <<<<table[1], table[2]>>>>)
    BY <1>5
  <2> QED BY <1>1, <1>4, <1>5, <2>1, <2>2 DEF Plan, Seating
<1>10. Plan(j)'
  BY <1>1, <1>4, <1>5, <1>6, <1>7, <1>8, <1>9 DEF Plan
<1> QED BY <1>1, <1>3, <1>10, PlayWait DEF rows

LEMMA PlayNext ==
    ASSUME NEW r \in Request, field.crowd = {r}, field.system # "ROUND_ROBIN",
           Playing(r), [Next]_vars, extra' = {}
    PROVE  Playing(r)'
<1>0. TurnInv(r)' /\ ByeInv(r)'
  BY TurnNext, ByeNext DEF Playing
<1> SUFFICES PlayInv(r)'
  BY <1>0 DEF Playing
<1>1. ASSUME NEW q \in Request, NEW m \in matches, NEW w, Report(q, m, w)
      PROVE  PlayInv(r)'
  BY <1>1, PlayReport DEF Report, Begins
<1>2. ASSUME NEW q \in Request, Statement(q)
      PROVE  PlayInv(r)'
  <2>1. job[q].op # "Idle"
    BY <1>2 DEF Statement, Walkover, Check, Final, Pair, Cut, Open, Seat, Bye, Crown, Complete, Runs
  <2>2. q = r
    BY <2>1 DEF Playing, TurnInv, Idle, Job
  <2> QED BY <1>2, <2>2, PlayWalkover, PlayCheck, PlayFinal, PlayPair, PlayCut, PlayOpen, PlaySeat,
             PlayBye, PlayCrown DEF Statement
<1>3. ASSUME NEW q \in Request, ApplyTiebreakers(q)
      PROVE  PlayInv(r)'
  BY <1>3, PlayTie DEF ApplyTiebreakers, Begins
<1>4. ASSUME NEW q \in Request, ExtendRound(q)
      PROVE  PlayInv(r)'
  BY <1>4 DEF ExtendRound
<1>5. ASSUME NEW q \in Request, NEW m \in matches, Reset(q, m)
      PROVE  PlayInv(r)'
  BY <1>5, PlayReset DEF Reset
<1>6. ASSUME NEW q \in Request, NEW p \in Player, Forfeit(q, p)
      PROVE  PlayInv(r)'
  BY <1>6, PlayForfeit DEF Forfeit, Begins
<1> QED BY <1>1, <1>2, <1>3, <1>4, <1>5, <1>6, PlayStutter DEF Next, Played

(* An extra round stays.                                                   *)
LEMMA ExtraStays ==
    ASSUME [Next]_vars
    PROVE  UNCHANGED field /\ (extra' = {} => extra = {})
BY DEF Next, Played, Statement, Report, Walkover, Check, Final, Pair, Cut, Open, Seat, Bye,
       Crown, Complete, ApplyTiebreakers, ExtendRound, Reset, Forfeit, vars

PlayAlone ==
    \A r \in Request : field.crowd = {r} /\ field.system # "ROUND_ROBIN" /\ extra = {} => Playing(r)

LEMMA PlayGoesOn ==
    Spec /\ (field.system # "ROUND_ROBIN" => field.rounds > 0) => [](field \in Fields /\ PlayAlone)
<1> DEFINE Inv == field \in Fields /\ PlayAlone
<1>1. Init /\ (field.system # "ROUND_ROBIN" => field.rounds > 0) => Inv
  BY PlayInit DEF Init, PlayAlone
<1>2. Inv /\ [Next]_vars => Inv'
  <2> SUFFICES ASSUME Inv, [Next]_vars
               PROVE  Inv'
    OBVIOUS
  <2>1. UNCHANGED field /\ (extra' = {} => extra = {})
    BY ExtraStays
  <2>2. ASSUME NEW r \in Request, field.crowd = {r}, field.system # "ROUND_ROBIN", extra' = {}
        PROVE  Playing(r)'
    BY <2>1, <2>2, PlayNext DEF PlayAlone
  <2> QED BY <2>1, <2>2 DEF PlayAlone
<1> QED BY <1>1, <1>2, PTL DEF Spec

---------------------------------------------------------------------------
(* Only a hybrid tournament has a cut, and it never ends on its table.     *)
Plain(j) ==
    /\ field.system # "HYBRID" => j.phase = 1 /\ j.op # "Cut"
    /\ field.system = "HYBRID" => j.op # "Final"

PlainInv(r) ==
    /\ ByeInv(r)
    /\ field.system # "HYBRID" => \A m \in matches : m.phase = 1
    /\ Plain(job[r])

LEMMA PlainOn ==
    ASSUME NEW r \in Request, PlainInv(r), ByeInv(r)', UNCHANGED field,
           field.system # "HYBRID" => \A m \in matches' \ matches : m.phase = 1,
           NEW j, job' = [job EXCEPT ![r] = j], Plain(j)
    PROVE  PlainInv(r)'
<1>1. job'[r] = j
  BY DEF PlainInv, ByeInv, DrawInv
<1> QED BY <1>1 DEF PlainInv, Plain

LEMMA PlainInit ==
    ASSUME NEW r \in Request, Init
    PROVE  PlainInv(r)
<1>1. \A m \in Neighbours(field.n) : m.phase = 1 /\ DOMAIN m = MatchRow
  BY DEF Neighbours, Match, MatchRow
<1>2. \A m \in Circle(field.n) : m.phase = 1 /\ DOMAIN m = MatchRow
  BY DEF Circle, Match, MatchRow
<1>3. \A m \in matches : m.phase = 1
  <2> SUFFICES ASSUME NEW m \in matches
               PROVE  m.phase = 1
    OBVIOUS
  <2>1. PICK g \in Neighbours(field.n) \cup Circle(field.n) : m = IF g.bye THEN Benched(g) ELSE g
    BY DEF Init, Drawn
  <2> QED BY <1>1, <1>2, <2>1 DEF Benched, MatchRow
<1>4. Plain(job[r])
  BY DEF Init, Plain, Idle, Job
<1> QED BY <1>3, <1>4, ByeInit DEF PlainInv

(* A row that is rewritten keeps its phase.                                *)
LEMMA PlainRewrite ==
    ASSUME NEW r \in Request, PlainInv(r), NEW m \in matches, NEW g, g.phase = m.phase, Replace(m, g)
    PROVE  field.system # "HYBRID" => \A x \in matches' \ matches : x.phase = 1
BY DEF PlainInv, Replace

LEMMA PlainWalkover ==
    ASSUME NEW r \in Request, PlainInv(r), ByeInv(r)', Walkover(r)
    PROVE  PlainInv(r)'
<1>1. UNCHANGED field /\ DOMAIN job[r] = JobRow /\ r \in DOMAIN job /\ job[r].op = "Walkover"
  BY DEF Walkover, Runs, PlainInv, ByeInv, DrawInv, Draft
<1>2. CASE job[r].open = {}
  <2>1. PICK j : j = Idle
    OBVIOUS
  <2>2. job' = [job EXCEPT ![r] = j] /\ UNCHANGED matches
    BY <1>2, <2>1 DEF Walkover, Fails
  <2>3. Plain(j)
    BY <2>1 DEF Plain, Idle, Job
  <2> QED BY <1>1, <2>2, <2>3, PlainOn
<1>3. CASE job[r].open # {}
  <2>1. PICK k \in job[r].open, m \in matches :
            IF m.done
            THEN job' = [job EXCEPT ![r].open = @ \ {k}] /\ UNCHANGED matches
            ELSE /\ Replace(m, [m EXCEPT !.done = TRUE, !.winner = Opponent(m, job[r].p)])
                 /\ job' = [job EXCEPT ![r].open = @ \ {k}, ![r].op = "Check", ![r].todo = <<k>>]
    BY <1>3 DEF Walkover, Named
  <2>2. CASE m.done
    <3> PICK j : j = [job[r] EXCEPT !.open = @ \ {k}]
      OBVIOUS
    <3>1. job' = [job EXCEPT ![r] = j] /\ UNCHANGED matches
      BY <2>1, <2>2
    <3>2. Plain(j)
      BY <1>1 DEF JobRow, PlainInv, Plain
    <3> QED BY <1>1, <3>1, <3>2, PlainOn
  <2>3. CASE ~m.done
    <3> PICK j : j = [job[r] EXCEPT !.open = @ \ {k}, !.op = "Check", !.todo = <<k>>]
      OBVIOUS
    <3> PICK g : g = [m EXCEPT !.done = TRUE, !.winner = Opponent(m, job[r].p)]
      OBVIOUS
    <3>1. job' = [job EXCEPT ![r] = j] /\ Replace(m, g)
      BY <1>1, <2>1, <2>3
    <3>2. Plain(j)
      BY <1>1 DEF JobRow, PlainInv, Plain
    <3>3. g.phase = m.phase
      BY DEF PlainInv, ByeInv, DrawInv, MatchRow
    <3>4. field.system # "HYBRID" => \A x \in matches' \ matches : x.phase = 1
      BY <3>1, <3>3, PlainRewrite
    <3> QED BY <1>1, <3>1, <3>2, <3>4, PlainOn
  <2> QED BY <2>2, <2>3
<1> QED BY <1>2, <1>3

LEMMA PlainCheck ==
    ASSUME NEW r \in Request, PlainInv(r), ByeInv(r)', Check(r)
    PROVE  PlainInv(r)'
<1>1. UNCHANGED <<field, matches>> /\ DOMAIN job[r] = JobRow
  BY DEF Check, rows, PlainInv, ByeInv, DrawInv, Draft
<1>2. CASE job[r].todo = <<>>
  <2>1. PICK j : j = [job[r] EXCEPT !.op = "Walkover"]
    OBVIOUS
  <2>2. job' = [job EXCEPT ![r] = j]
    BY <1>2, <2>1 DEF Check, Then
  <2>3. Plain(j)
    BY <1>1, <2>1 DEF PlainInv, Plain, JobRow
  <2> QED BY <1>1, <2>2, <2>3, PlainOn
<1>3. CASE job[r].todo # <<>>
  <2>1. PICK m \in matches :
            LET j   == [job[r] EXCEPT !.todo = Tail(@), !.n = m.n + 1, !.phase = 1]
                won == {g.winner : g \in RoundOf(m.n)} \ {NoPlayer}
                go(op) == job' = [job EXCEPT ![r] = [j EXCEPT !.op = op]]
            IN  IF ~Over(m) THEN go("Check")
                ELSE IF m.phase = 2
                THEN IF won = {} THEN go("Check")
                     ELSE job' = [job EXCEPT ![r] =
                                     [j EXCEPT !.op = "Crown", !.p = Max(won)]]
                ELSE IF field.system # "ROUND_ROBIN" /\ m.n < field.rounds THEN go("Pair")
                ELSE go(IF field.system = "HYBRID" THEN "Cut" ELSE "Final")
    BY <1>3 DEF Check, Named
  <2>2. PICK j : j = [job[r] EXCEPT !.todo = Tail(@), !.n = m.n + 1, !.phase = 1]
    OBVIOUS
  <2>3. PICK won : won = {g.winner : g \in RoundOf(m.n)} \ {NoPlayer}
    OBVIOUS
  <2>4. DOMAIN j = JobRow /\ j.phase = 1
    BY <1>1, <2>2 DEF JobRow
  <2>5. \/ \E op \in {"Check", "Pair"} : job' = [job EXCEPT ![r] = [j EXCEPT !.op = op]]
        \/ /\ field.system = "HYBRID"
           /\ job' = [job EXCEPT ![r] = [j EXCEPT !.op = "Cut"]]
        \/ /\ field.system # "HYBRID"
           /\ job' = [job EXCEPT ![r] = [j EXCEPT !.op = "Final"]]
        \/ job' = [job EXCEPT ![r] = [j EXCEPT !.op = "Crown", !.p = Max(won)]]
    BY <2>1, <2>2, <2>3
  <2>6. ASSUME NEW op \in {"Check", "Pair", "Cut", "Final"},
               op = "Cut" => field.system = "HYBRID", op = "Final" => field.system # "HYBRID",
               job' = [job EXCEPT ![r] = [j EXCEPT !.op = op]]
        PROVE  PlainInv(r)'
    <3> PICK i : i = [j EXCEPT !.op = op]
      OBVIOUS
    <3>1. Plain(i)
      BY <2>4, <2>6 DEF JobRow, Plain
    <3> QED BY <1>1, <2>6, <3>1, PlainOn
  <2>7. ASSUME job' = [job EXCEPT ![r] = [j EXCEPT !.op = "Crown", !.p = Max(won)]]
        PROVE  PlainInv(r)'
    <3> PICK i : i = [j EXCEPT !.op = "Crown", !.p = Max(won)]
      OBVIOUS
    <3>1. Plain(i)
      BY <2>4 DEF JobRow, Plain
    <3> QED BY <1>1, <2>7, <3>1, PlainOn
  <2> QED BY <2>5, <2>6, <2>7
<1> QED BY <1>2, <1>3

LEMMA PlainSeat ==
    ASSUME NEW r \in Request, PlainInv(r), ByeInv(r)', Seat(r) \/ Bye(r)
    PROVE  PlainInv(r)'
<1>1. UNCHANGED field /\ DOMAIN job[r] = JobRow
  BY DEF Seat, Bye, PlainInv, ByeInv, DrawInv, Draft
<1>2. CASE Bye(r)
  <2>1. PICK m \in matches : Replace(m, Benched(m))
    BY <1>2 DEF Bye, Named
  <2>2. PICK g : g = Benched(m)
    OBVIOUS
  <2>3. g.phase = m.phase
    BY <2>2 DEF PlainInv, ByeInv, DrawInv, MatchRow, Benched
  <2>4. PICK j : j = [job[r] EXCEPT !.op = "Seat", !.draw = Tail(@)]
    OBVIOUS
  <2>5. job' = [job EXCEPT ![r] = j]
    BY <1>2, <2>4 DEF Bye, PlainInv, ByeInv, DrawInv
  <2>6. Plain(j)
    BY <1>1, <2>4 DEF PlainInv, Plain, JobRow
  <2>7. field.system # "HYBRID" => \A x \in matches' \ matches : x.phase = 1
    BY <2>1, <2>2, <2>3, PlainRewrite
  <2> QED BY <1>1, <2>5, <2>6, <2>7, PlainOn
<1>3. CASE Seat(r) /\ job[r].draw = <<>>
  <2>1. PICK j : j = [job[r] EXCEPT !.op = "Check"]
    OBVIOUS
  <2>2. job' = [job EXCEPT ![r] = j] /\ UNCHANGED matches
    BY <1>3, <2>1 DEF Seat, Then
  <2>3. Plain(j)
    BY <1>1, <2>1 DEF PlainInv, Plain, JobRow
  <2> QED BY <1>1, <2>2, <2>3, PlainOn
<1>4. CASE Seat(r) /\ job[r].draw # <<>>
  <2>1. PICK m : m = Match(job[r].n, Head(job[r].draw), job[r].phase)
    OBVIOUS
  <2>2. matches' = matches \cup {m}
        /\ job' = IF m.bye THEN [job EXCEPT ![r].op = "Bye"]
                  ELSE [job EXCEPT ![r].draw = Tail(@)]
    BY <1>4, <2>1 DEF Seat
  <2>3. PICK j : /\ j \in {[job[r] EXCEPT !.op = "Bye"], [job[r] EXCEPT !.draw = Tail(@)]}
                 /\ job' = [job EXCEPT ![r] = j]
    BY <2>2
  <2>4. Plain(j)
    BY <1>1, <2>3 DEF PlainInv, Plain, JobRow
  <2>5. m.phase = job[r].phase
    BY <2>1 DEF Match
  <2>6. field.system # "HYBRID" => \A x \in matches' \ matches : x.phase = 1
    BY <2>2, <2>5 DEF PlainInv, Plain
  <2> QED BY <1>1, <2>3, <2>4, <2>6, PlainOn
<1> QED BY <1>2, <1>3, <1>4

LEMMA PlainThen ==
    ASSUME NEW r \in Request, PlainInv(r), ByeInv(r)', UNCHANGED <<field, matches>>,
           NEW op, Then(r, op), op \notin {"Cut", "Final"}
    PROVE  PlainInv(r)'
<1>1. PICK j : j = [job[r] EXCEPT !.op = op]
  OBVIOUS
<1>2. Plain(j)
  BY <1>1 DEF PlainInv, Plain, ByeInv, DrawInv, Draft, JobRow
<1> QED BY <1>1, <1>2, PlainOn DEF Then

LEMMA PlainStatement ==
    ASSUME NEW r \in Request, PlainInv(r), ByeInv(r)', Statement(r)
    PROVE  PlainInv(r)'
<1>0. DOMAIN job[r] = JobRow
  BY DEF PlainInv, ByeInv, DrawInv, Draft
<1>1. CASE Final(r)
  <2>1. UNCHANGED <<field, matches>>
    BY <1>1 DEF Final, rows
  <2>2. CASE TiedOnTop(matches, Player)
    BY <1>1, <2>1, <2>2, PlainThen DEF Final
  <2>3. CASE ~TiedOnTop(matches, Player)
    <3>1. PICK p : job' = [job EXCEPT ![r].op = "Crown", ![r].p = p]
      BY <1>1, <2>3 DEF Final
    <3>2. PICK j : j = [job[r] EXCEPT !.op = "Crown", !.p = p]
      OBVIOUS
    <3>3. job' = [job EXCEPT ![r] = j]
      BY <3>1, <3>2 DEF PlainInv, ByeInv, DrawInv
    <3>4. Plain(j)
      BY <1>0, <3>2 DEF PlainInv, Plain, JobRow
    <3> QED BY <2>1, <3>3, <3>4, PlainOn
  <2> QED BY <2>2, <2>3
<1>2. CASE Pair(r)
  <2>1. PICK draw, todo : job' = [job EXCEPT ![r].op = "Open", ![r].draw = draw, ![r].todo = todo]
    BY <1>2 DEF Pair
  <2>2. PICK j : j = [job[r] EXCEPT !.op = "Open", !.draw = draw, !.todo = todo]
    OBVIOUS
  <2>3. job' = [job EXCEPT ![r] = j]
    BY <2>1, <2>2 DEF PlainInv, ByeInv, DrawInv
  <2>4. Plain(j)
    BY <1>0, <2>2 DEF PlainInv, Plain, JobRow
  <2> QED BY <1>2, <2>3, <2>4, PlainOn DEF Pair, rows
<1>3. CASE Cut(r)
  <2>1. field.system = "HYBRID"
    BY <1>3 DEF Cut, Runs, PlainInv, Plain
  <2>2. PICK j : job' = [job EXCEPT ![r] = j] /\ j.op \in {"Complete", "Open"}
    <3>1. PICK table : job' = [job EXCEPT ![r] =
                    IF field.cut < 2 THEN [@ EXCEPT !.op = "Complete"]
                    ELSE [@ EXCEPT !.op = "Open", !.n = Max(rounds) + 1, !.phase = 2,
                                   !.draw = <<<<table[1], table[2]>>>>]]
      BY <1>3 DEF Cut
    <3>2. PICK j : j = IF field.cut < 2 THEN [job[r] EXCEPT !.op = "Complete"]
                    ELSE [job[r] EXCEPT !.op = "Open", !.n = Max(rounds) + 1, !.phase = 2,
                                   !.draw = <<<<table[1], table[2]>>>>]
      OBVIOUS
    <3>3. job' = [job EXCEPT ![r] = j]
      BY <3>1, <3>2
    <3>4. j.op \in {"Complete", "Open"}
      BY <1>0, <3>2 DEF JobRow
    <3> QED BY <3>3, <3>4
  <2>3. Plain(j)
    BY <2>1, <2>2 DEF Plain
  <2> QED BY <1>3, <2>2, <2>3, PlainOn DEF Cut, rows
<1>4. CASE Open(r)
  <2>1. UNCHANGED <<field, matches>>
    BY <1>4 DEF Open
  <2>2. CASE job[r].n \in rounds
    <3>1. PICK j : j = Idle
      OBVIOUS
    <3>2. job' = [job EXCEPT ![r] = j]
      BY <1>4, <2>2, <3>1 DEF Open, Fails
    <3>3. Plain(j)
      BY <3>1 DEF Plain, Idle, Job
    <3> QED BY <2>1, <3>2, <3>3, PlainOn
  <2>3. CASE job[r].n \notin rounds
    BY <1>4, <2>1, <2>3, PlainThen DEF Open
  <2> QED BY <2>2, <2>3
<1>5. CASE Crown(r) \/ Complete(r)
  BY <1>5, PlainThen DEF Crown, Complete, rows
<1> QED
  BY <1>1, <1>2, <1>3, <1>4, <1>5, PlainWalkover, PlainCheck, PlainSeat DEF Statement

LEMMA PlainNext ==
    ASSUME NEW r \in Request, field.crowd = {r}, PlainInv(r), [Next]_vars
    PROVE  PlainInv(r)'
<1> ByeInv(r)'
  BY ByeNext DEF PlainInv
<1>1. ASSUME NEW q \in Request, NEW m \in matches, NEW w, Report(q, m, w)
      PROVE  PlainInv(r)'
  <2> PICK j : j = [Job("Check", 0) EXCEPT !.todo = <<Name(m)>>]
    OBVIOUS
  <2> PICK g : g = [m EXCEPT !.done = TRUE, !.winner = w, !.scored = w # NoPlayer /\ ~m.bye]
    OBVIOUS
  <2>1. UNCHANGED field /\ job' = [job EXCEPT ![r] = j] /\ Replace(m, g)
    BY <1>1 DEF Report, Begins
  <2>2. g.phase = m.phase
    BY DEF PlainInv, ByeInv, DrawInv, MatchRow
  <2>3. Plain(j)
    BY DEF Plain, Job
  <2> QED BY <2>1, <2>2, <2>3, PlainRewrite, PlainOn
<1>2. ASSUME NEW q \in Request, Statement(q)
      PROVE  PlainInv(r)'
  <2>1. job[q].op # "Idle"
    BY <1>2 DEF Statement, Walkover, Check, Final, Pair, Cut, Open, Seat, Bye, Crown, Complete, Runs
  <2>2. q = r
    BY <2>1 DEF PlainInv, ByeInv, Idle, Job
  <2> QED BY <1>2, <2>2, PlainStatement
<1>3. ASSUME NEW q \in Request, ApplyTiebreakers(q) \/ ExtendRound(q)
      PROVE  PlainInv(r)'
  <2>1. q = r /\ UNCHANGED <<field, matches>>
    BY <1>3 DEF ApplyTiebreakers, ExtendRound, Begins, rows
  <2>2. PICK p : job' = [job EXCEPT ![r] = [Job("Crown", 0) EXCEPT !.p = p]]
                 \/ job' = [job EXCEPT ![r] = Job("Pair", Max(rounds) + 1)]
    BY <1>3, <2>1 DEF ApplyTiebreakers, ExtendRound, Begins
  <2>3. PICK j : j \in {[Job("Crown", 0) EXCEPT !.p = p], Job("Pair", Max(rounds) + 1)}
                 /\ job' = [job EXCEPT ![r] = j]
    BY <2>2
  <2>4. Plain(j)
    BY <2>3 DEF Plain, Job
  <2> QED BY <2>1, <2>3, <2>4, PlainOn
<1>4. ASSUME NEW q \in Request, NEW m \in matches, Reset(q, m)
      PROVE  PlainInv(r)'
  <2> PICK g : g = [m EXCEPT !.done = FALSE, !.winner = NoPlayer, !.scored = FALSE]
    OBVIOUS
  <2> PICK j : j = job[r]
    OBVIOUS
  <2>1. UNCHANGED <<field, job>> /\ Replace(m, g)
    BY <1>4 DEF Reset
  <2>2. g.phase = m.phase
    BY DEF PlainInv, ByeInv, DrawInv, MatchRow
  <2>3. Plain(j) /\ job' = [job EXCEPT ![r] = j]
    BY <2>1 DEF PlainInv, ByeInv, DrawInv
  <2> QED BY <2>1, <2>2, <2>3, PlainRewrite, PlainOn
<1>5. ASSUME NEW q \in Request, NEW p \in Player, Forfeit(q, p)
      PROVE  PlainInv(r)'
  <2>1. PICK j : /\ job' = [job EXCEPT ![r] = j] /\ j.op = "Walkover" /\ j.phase = 1
    <3>1. PICK open : job' = [job EXCEPT ![q] = [Job("Walkover", 0) EXCEPT !.p = p, !.open = open]]
      BY <1>5 DEF Forfeit, Begins
    <3>2. PICK j : j = [Job("Walkover", 0) EXCEPT !.p = p, !.open = open]
      OBVIOUS
    <3>3. q = r
      BY <1>5 DEF Forfeit, Begins
    <3>4. j.op = "Walkover" /\ j.phase = 1
      BY <3>2 DEF Job
    <3> QED BY <3>1, <3>2, <3>3, <3>4
  <2>2. Plain(j)
    BY <2>1 DEF Plain
  <2> QED BY <1>5, <2>1, <2>2, PlainOn DEF Forfeit, rows
<1>6. CASE UNCHANGED vars
  BY <1>6 DEF vars, rows, PlainInv, Plain
<1> QED BY <1>1, <1>2, <1>3, <1>4, <1>5, <1>6 DEF Next, Played

PlainAlone == \A r \in Request : field.crowd = {r} => PlainInv(r)

LEMMA PlainGoesOn == Spec => [](field \in Fields /\ PlainAlone)
<1>1. Init => field \in Fields /\ PlainAlone
  BY PlainInit DEF Init, PlainAlone
<1>2. field \in Fields /\ PlainAlone /\ [Next]_vars => (field \in Fields /\ PlainAlone)'
  <2> SUFFICES ASSUME field \in Fields, PlainAlone, [Next]_vars
               PROVE  (field \in Fields /\ PlainAlone)'
    OBVIOUS
  <2>1. UNCHANGED field
    BY ExtraStays
  <2>2. ASSUME NEW r \in Request, field.crowd = {r}
        PROVE  PlainInv(r)'
    BY <2>2, PlainNext DEF PlainAlone
  <2> QED BY <2>1, <2>2 DEF PlainAlone
<1> QED BY <1>1, <1>2, PTL DEF Spec

(* With one request at a time and no extra rounds a hybrid tournament has  *)
(* one top cut, drawn after the last round of the first phase, of the two  *)
(* on top of the table that the first phase left: the cut is decided on    *)
(* when all of it has been played, nothing of it can be reset afterwards,  *)
(* and whoever forfeits meanwhile keeps the place (formats.service.ts      *)
(* 262-290).                                                               *)
THEOREM TheCutIsTheTop ==
    Spec /\ (field.system # "ROUND_ROBIN" => field.rounds > 0) => []OneTopCut
<1> DEFINE Inv == field \in Fields /\ PlayAlone
           More == field \in Fields /\ PlainAlone
<1>1. Inv /\ More => OneTopCut
  <2> SUFFICES ASSUME Inv, More, Serial, extra = {}, Cuts # {}
               PROVE  \E table \in Leaderboards(matches \ Cuts, Player) :
                        \A m \in Cuts : m.n = field.rounds + 1 /\ Sides(m) = {table[1], table[2]}
    BY DEF OneTopCut, Cuts
  <2>1. PICK r \in Request : field.crowd = {r}
    BY OneOfACrowd
  <2>2. field.system # "ROUND_ROBIN"
    <3>1. PICK m \in matches : m.phase = 2
      BY DEF Cuts
    <3>2. field.system = "HYBRID"
      BY <2>1, <3>1 DEF PlainAlone, PlainInv
    <3> QED BY <3>2
  <2>3. Playing(r)
    BY <2>1, <2>2 DEF PlayAlone
  <2>4. PICK m \in Cuts : Cuts = {m} /\ Row(m) /\ m.phase = 2
    BY <2>3 DEF Playing, PlayInv, OneCut, Cuts
  <2>5. PICK table \in Leaderboards(matches \ Cuts, Player) : m.one = table[1] /\ m.two = table[2]
    BY <2>3 DEF Playing, PlayInv, OneCut
  <2>6. table[1] \in Player /\ table[2] \in Player /\ NoPlayer \notin Player
    BY TopTwo
  <2>7. Sides(m) = {table[1], table[2]}
    BY <2>5, <2>6 DEF Sides
  <2> QED BY <2>4, <2>7 DEF Row
<1> QED BY <1>1, PlayGoesOn, PlainGoesOn, PTL

---------------------------------------------------------------------------
(* Round robin: when all has been played the request that found it so is   *)
(* about to end the tournament.                                            *)
Closing(j) ==
    j.op \in {"Final", "Crown", "Complete"} \/ (j.op = "Check" /\ j.todo # <<>>)

RobinInv(r) ==
    /\ PlainInv(r)
    /\ job[r].op \in {"Idle", "Check", "Walkover", "Final", "Crown", "Complete"}
    /\ AllDone(matches) => status = "COMPLETED" \/ TiedOnTop(matches, Player) \/ Closing(job[r])

LEMMA RobinOn ==
    ASSUME NEW r \in Request, RobinInv(r), PlainInv(r)', UNCHANGED field,
           NEW j, job' = [job EXCEPT ![r] = j],
           j.op \in {"Idle", "Check", "Walkover", "Final", "Crown", "Complete"},
           \/ Closing(j) \/ status' = "COMPLETED" \/ ~AllDone(matches)'
           \/ UNCHANGED <<matches, status>> /\ (Closing(job[r]) => TiedOnTop(matches, Player))
    PROVE  RobinInv(r)'
<1>1. job'[r] = j /\ Player' = Player
  BY DEF RobinInv, PlainInv, ByeInv, DrawInv, Player
<1>2. Closing(job[r])' <=> Closing(j)
  BY <1>1 DEF Closing
<1>3. CASE Closing(j) \/ status' = "COMPLETED" \/ ~AllDone(matches)'
  BY <1>1, <1>2, <1>3 DEF RobinInv
<1>4. CASE UNCHANGED <<matches, status>> /\ (Closing(job[r]) => TiedOnTop(matches, Player))
  <2>1. (AllDone(matches)' <=> AllDone(matches)) /\ (TiedOnTop(matches, Player)' <=> TiedOnTop(matches, Player))
    BY <1>1, <1>4 DEF AllDone
  <2> QED BY <1>1, <1>4, <2>1 DEF RobinInv
<1> QED BY <1>3, <1>4

LEMMA RobinWalkover ==
    ASSUME NEW r \in Request, RobinInv(r), PlainInv(r)', Walkover(r)
    PROVE  RobinInv(r)'
<1>1. UNCHANGED <<field, status>> /\ DOMAIN job[r] = JobRow /\ r \in DOMAIN job
      /\ job[r].op = "Walkover" /\ ~Closing(job[r])
  BY DEF Walkover, Runs, title, RobinInv, PlainInv, ByeInv, DrawInv, Draft, Closing
<1>2. CASE job[r].open = {}
  <2>1. PICK j : j = Idle
    OBVIOUS
  <2>2. job' = [job EXCEPT ![r] = j] /\ UNCHANGED matches
    BY <1>2, <2>1 DEF Walkover, Fails
  <2>3. j.op = "Idle"
    BY <2>1 DEF Idle, Job
  <2> QED BY <1>1, <2>2, <2>3, RobinOn
<1>3. CASE job[r].open # {}
  <2>1. PICK k \in job[r].open, m \in matches :
            IF m.done
            THEN job' = [job EXCEPT ![r].open = @ \ {k}] /\ UNCHANGED matches
            ELSE /\ Replace(m, [m EXCEPT !.done = TRUE, !.winner = Opponent(m, job[r].p)])
                 /\ job' = [job EXCEPT ![r].open = @ \ {k}, ![r].op = "Check", ![r].todo = <<k>>]
    BY <1>3 DEF Walkover, Named
  <2>2. CASE m.done
    <3> PICK j : j = [job[r] EXCEPT !.open = @ \ {k}]
      OBVIOUS
    <3>1. job' = [job EXCEPT ![r] = j] /\ UNCHANGED matches
      BY <2>1, <2>2
    <3>2. j.op = "Walkover"
      BY <1>1 DEF JobRow
    <3> QED BY <1>1, <3>1, <3>2, RobinOn
  <2>3. CASE ~m.done
    <3> PICK j : j = [job[r] EXCEPT !.open = @ \ {k}, !.op = "Check", !.todo = <<k>>]
      OBVIOUS
    <3>1. job' = [job EXCEPT ![r] = j]
      BY <1>1, <2>1, <2>3
    <3>2. j.op = "Check" /\ j.todo = <<k>>
      BY <1>1 DEF JobRow
    <3>3. Closing(j)
      BY <3>2 DEF Closing
    <3> QED BY <1>1, <3>1, <3>2, <3>3, RobinOn
  <2> QED BY <2>2, <2>3
<1> QED BY <1>2, <1>3

LEMMA RobinCheck ==
    ASSUME NEW r \in Request, RobinInv(r), PlainInv(r)', field.system = "ROUND_ROBIN", Check(r)
    PROVE  RobinInv(r)'
<1>1. UNCHANGED <<field, matches, status>> /\ DOMAIN job[r] = JobRow /\ job[r].op = "Check"
  BY DEF Check, Runs, title, rows, RobinInv, PlainInv, ByeInv, DrawInv, Draft
<1>2. CASE job[r].todo = <<>>
  <2>1. PICK j : j = [job[r] EXCEPT !.op = "Walkover"]
    OBVIOUS
  <2>2. job' = [job EXCEPT ![r] = j]
    BY <1>2, <2>1 DEF Check, Then
  <2>3. j.op = "Walkover" /\ ~Closing(job[r])
    BY <1>1, <1>2, <2>1 DEF JobRow, Closing
  <2> QED BY <1>1, <2>2, <2>3, RobinOn
<1>3. CASE job[r].todo # <<>>
  <2>1. PICK m \in matches :
            LET j   == [job[r] EXCEPT !.todo = Tail(@), !.n = m.n + 1, !.phase = 1]
                go(op) == job' = [job EXCEPT ![r] = [j EXCEPT !.op = op]]
            IN  IF ~Over(m) THEN go("Check")
                ELSE m.phase # 2 => go("Final")
    BY <1>3 DEF Check, Named
  <2>2. m.phase = 1
    BY DEF RobinInv, PlainInv
  <2>3. PICK j : j = [job[r] EXCEPT !.todo = Tail(@), !.n = m.n + 1, !.phase = 1]
    OBVIOUS
  <2>4. DOMAIN j = JobRow
    BY <1>1, <2>3 DEF JobRow
  <2>5. CASE ~Over(m)
    <3> PICK i : i = [j EXCEPT !.op = "Check"]
      OBVIOUS
    <3>1. job' = [job EXCEPT ![r] = i] /\ i.op = "Check"
      BY <2>1, <2>3, <2>4, <2>5 DEF JobRow
    <3>2. ~AllDone(matches)' \/ status' = "COMPLETED"
      BY <1>1, <2>5 DEF Over, AllDone
    <3> QED BY <1>1, <3>1, <3>2, RobinOn
  <2>6. CASE Over(m)
    <3> PICK i : i = [j EXCEPT !.op = "Final"]
      OBVIOUS
    <3>1. job' = [job EXCEPT ![r] = i] /\ i.op = "Final"
      BY <2>1, <2>2, <2>3, <2>4, <2>6 DEF JobRow
    <3>2. Closing(i)
      BY <3>1 DEF Closing
    <3> QED BY <1>1, <3>1, <3>2, RobinOn
  <2> QED BY <2>5, <2>6
<1> QED BY <1>2, <1>3

LEMMA RobinStatement ==
    ASSUME NEW r \in Request, RobinInv(r), PlainInv(r)', field.system = "ROUND_ROBIN", Statement(r)
    PROVE  RobinInv(r)'
<1>0. DOMAIN job[r] = JobRow
  BY DEF RobinInv, PlainInv, ByeInv, DrawInv, Draft
<1>1. CASE Final(r)
  <2>1. UNCHANGED <<field, matches, status>>
    BY <1>1 DEF Final, rows, title
  <2>2. CASE TiedOnTop(matches, Player)
    <3>1. PICK j : j = [job[r] EXCEPT !.op = "Check"]
      OBVIOUS
    <3>2. job' = [job EXCEPT ![r] = j] /\ j.op = "Check"
      BY <1>0, <1>1, <2>2, <3>1 DEF Final, Then, JobRow
    <3> QED BY <2>1, <2>2, <3>2, RobinOn
  <2>3. CASE ~TiedOnTop(matches, Player)
    <3>1. PICK p : job' = [job EXCEPT ![r].op = "Crown", ![r].p = p]
      BY <1>1, <2>3 DEF Final
    <3>2. PICK j : j = [job[r] EXCEPT !.op = "Crown", !.p = p]
      OBVIOUS
    <3>3. job' = [job EXCEPT ![r] = j] /\ j.op = "Crown"
      BY <1>0, <3>1, <3>2 DEF RobinInv, PlainInv, ByeInv, DrawInv, JobRow
    <3>4. Closing(j)
      BY <3>3 DEF Closing
    <3> QED BY <2>1, <3>3, <3>4, RobinOn
  <2> QED BY <2>2, <2>3
<1>2. CASE Crown(r)
  <2>1. PICK j : j = [job[r] EXCEPT !.op = "Complete"]
    OBVIOUS
  <2>2. job' = [job EXCEPT ![r] = j] /\ j.op = "Complete" /\ Closing(j)
    BY <1>0, <1>2, <2>1 DEF Crown, Then, JobRow, Closing
  <2> QED BY <1>2, <2>2, RobinOn DEF Crown
<1>3. CASE Complete(r)
  <2>1. PICK j : j = [job[r] EXCEPT !.op = "Check"]
    OBVIOUS
  <2>2. job' = [job EXCEPT ![r] = j] /\ j.op = "Check"
    BY <1>0, <1>3, <2>1 DEF Complete, Then, JobRow
  <2> QED BY <1>3, <2>2, RobinOn DEF Complete
<1>4. ~(Pair(r) \/ Cut(r) \/ Open(r) \/ Seat(r) \/ Bye(r))
  BY DEF RobinInv, Pair, Cut, Open, Seat, Bye, Runs
<1> QED BY <1>1, <1>2, <1>3, <1>4, RobinWalkover, RobinCheck DEF Statement

LEMMA RobinNext ==
    ASSUME NEW r \in Request, field.crowd = {r}, field.system = "ROUND_ROBIN",
           RobinInv(r), [Next]_vars, extra' = {}
    PROVE  RobinInv(r)'
<1> PlainInv(r)'
  BY PlainNext DEF RobinInv
<1>0. job[r] = Idle => ~Closing(job[r])
  BY DEF Closing, Idle, Job
<1>1. ASSUME NEW q \in Request, NEW m \in matches, NEW w, Report(q, m, w)
      PROVE  RobinInv(r)'
  <2> PICK j : j = [Job("Check", 0) EXCEPT !.todo = <<Name(m)>>]
    OBVIOUS
  <2>1. UNCHANGED field /\ job' = [job EXCEPT ![r] = j]
    BY <1>1 DEF Report, Begins
  <2>2. j.op = "Check" /\ j.todo = <<Name(m)>>
    BY DEF Job
  <2>3. Closing(j)
    BY <2>2 DEF Closing
  <2> QED BY <2>1, <2>2, <2>3, RobinOn
<1>2. ASSUME NEW q \in Request, Statement(q)
      PROVE  RobinInv(r)'
  <2>1. job[q].op # "Idle"
    BY <1>2 DEF Statement, Walkover, Check, Final, Pair, Cut, Open, Seat, Bye, Crown, Complete, Runs
  <2>2. q = r
    BY <2>1 DEF RobinInv, PlainInv, ByeInv, Idle, Job
  <2> QED BY <1>2, <2>2, RobinStatement
<1>3. ASSUME NEW q \in Request, ApplyTiebreakers(q)
      PROVE  RobinInv(r)'
  <2>1. q = r /\ UNCHANGED field
    BY <1>3 DEF ApplyTiebreakers, Begins
  <2>2. PICK p : job' = [job EXCEPT ![r] = [Job("Crown", 0) EXCEPT !.p = p]]
    BY <1>3, <2>1 DEF ApplyTiebreakers, Begins
  <2>3. PICK j : j = [Job("Crown", 0) EXCEPT !.p = p]
    OBVIOUS
  <2>4. j.op = "Crown" /\ Closing(j)
    BY <2>3 DEF Job, Closing
  <2> QED BY <2>1, <2>2, <2>3, <2>4, RobinOn
<1>4. ASSUME NEW q \in Request, ExtendRound(q)
      PROVE  RobinInv(r)'
  BY <1>4 DEF ExtendRound
<1>5. ASSUME NEW q \in Request, NEW m \in matches, Reset(q, m)
      PROVE  RobinInv(r)'
  <2> PICK g : g = [m EXCEPT !.done = FALSE, !.winner = NoPlayer, !.scored = FALSE]
    OBVIOUS
  <2> PICK j : j = job[r]
    OBVIOUS
  <2>1. UNCHANGED <<field, job>> /\ Replace(m, g)
    BY <1>5 DEF Reset
  <2>2. ~g.done
    BY DEF RobinInv, PlainInv, ByeInv, DrawInv, MatchRow
  <2>3. ~AllDone(matches)'
    BY <2>1, <2>2 DEF AllDone, Replace
  <2>4. job' = [job EXCEPT ![r] = j] /\ j.op \in {"Idle", "Check", "Walkover", "Final", "Crown", "Complete"}
    BY <2>1 DEF RobinInv, PlainInv, ByeInv, DrawInv
  <2> QED BY <2>1, <2>3, <2>4, RobinOn
<1>6. ASSUME NEW q \in Request, NEW p \in Player, Forfeit(q, p)
      PROVE  RobinInv(r)'
  <2>1. PICK open : job' = [job EXCEPT ![q] = [Job("Walkover", 0) EXCEPT !.p = p, !.open = open]]
    BY <1>6 DEF Forfeit, Begins
  <2>2. PICK j : j = [Job("Walkover", 0) EXCEPT !.p = p, !.open = open]
    OBVIOUS
  <2>3. q = r /\ job[r] = Idle /\ UNCHANGED <<field, matches, status>>
    BY <1>6 DEF Forfeit, Begins, rows, title
  <2>4. j.op = "Walkover"
    BY <2>2 DEF Job
  <2> QED BY <1>0, <2>1, <2>2, <2>3, <2>4, RobinOn
<1>7. CASE UNCHANGED vars
  BY <1>7 DEF vars, rows, title, RobinInv, Closing, AllDone, Player
<1> QED BY <1>1, <1>2, <1>3, <1>4, <1>5, <1>6, <1>7 DEF Next, Played

RobinAlone ==
    \A r \in Request : field.crowd = {r} /\ field.system = "ROUND_ROBIN" /\ extra = {} => RobinInv(r)

LEMMA RobinGoesOn == Spec => [](field \in Fields /\ RobinAlone)
<1>1. Init => field \in Fields /\ RobinAlone
  <2> SUFFICES ASSUME Init, NEW r \in Request
               PROVE  RobinInv(r)
    BY DEF RobinAlone, Init
  <2>1. ~AllDone(matches)
    BY FirstRoundIsOpen DEF AllDone
  <2>2. job[r].op = "Idle"
    BY DEF Init, Idle, Job
  <2> QED BY <2>1, <2>2, PlainInit DEF RobinInv, Init
<1>2. field \in Fields /\ RobinAlone /\ [Next]_vars => (field \in Fields /\ RobinAlone)'
  <2> SUFFICES ASSUME field \in Fields, RobinAlone, [Next]_vars
               PROVE  (field \in Fields /\ RobinAlone)'
    OBVIOUS
  <2>1. UNCHANGED field /\ (extra' = {} => extra = {})
    BY ExtraStays
  <2>2. ASSUME NEW r \in Request, field.crowd = {r}, field.system = "ROUND_ROBIN", extra' = {}
        PROVE  RobinInv(r)'
    BY <2>1, <2>2, RobinNext DEF RobinAlone
  <2> QED BY <2>1, <2>2 DEF RobinAlone
<1> QED BY <1>1, <1>2, PTL DEF Spec

(* With one request at a time and no extra rounds a tournament in which    *)
(* somebody is left never stands still before it is over: when nothing     *)
(* runs and all matches drawn have been played, the request that completed *)
(* the last of them has gone on to the next round, the cut or the end, or  *)
(* has left a tie on top to the organizer (formats.service.ts 222-334).    *)
THEOREM NobodyWaitsForNothing ==
    Spec /\ (field.system # "ROUND_ROBIN" => field.rounds > 0)
        => [](Serial /\ extra = {} => NeverStranded)
<1> DEFINE Inv == field \in Fields /\ PlayAlone
           More == field \in Fields /\ RobinAlone
           Goal == Serial /\ extra = {} => NeverStranded
<1>1. Inv /\ More => Goal
  <2> SUFFICES ASSUME Inv, More, Serial, extra = {}, \A r \in Request : job[r] = Idle,
                      AllDone(matches), ~(Player \subseteq forfeited)
               PROVE  status = "COMPLETED" \/ TiedOnTop(matches, Player)
    BY DEF NeverStranded
  <2>1. PICK r \in Request : field.crowd = {r}
    BY OneOfACrowd
  <2>2. job[r].op = "Idle"
    BY DEF Idle, Job
  <2>3. CASE field.system # "ROUND_ROBIN"
    <3>1. Settling(job[r])
      BY <2>1, <2>3 DEF PlayAlone, Playing, PlayInv, Plan
    <3> QED BY <2>2, <3>1 DEF Settling, Busy
  <2>4. CASE field.system = "ROUND_ROBIN"
    BY <2>1, <2>2, <2>4 DEF RobinAlone, RobinInv, Closing
  <2> QED BY <2>3, <2>4
<1> HIDE DEF Goal
<1>2. Spec /\ (field.system # "ROUND_ROBIN" => field.rounds > 0) => []Goal
  BY <1>1, PlayGoesOn, RobinGoesOn, PTL
<1> QED BY <1>2 DEF Goal

---------------------------------------------------------------------------
(* A player who is first on some table of the results.                     *)
Good(p) == \E table \in Leaderboards(matches, Player) : p \in Firsts(table)

Title(j) ==
    status # "COMPLETED" =>
        /\ champion # NoPlayer => j.op = "Complete" /\ Good(champion)
        /\ j.op = "Crown" => Good(j.p)

LEMMA GoodStays ==
    ASSUME UNCHANGED <<field, matches>>
    PROVE  \A p : Good(p)' <=> Good(p)
<1>1. Player' = Player /\ matches' = matches /\ field' = field
  BY DEF Player
<1>2. \A table : Firsts(table)' = Firsts(table)
  BY <1>1 DEF Firsts
<1>3. Leaderboards(matches, Player)' = Leaderboards(matches, Player)
  BY <1>1
<1> QED BY <1>2, <1>3 DEF Good

(* Outside the top cut the first of the table is placed first.             *)
LEMMA TopIsFirst ==
    ASSUME field \in Fields, NEW table \in Leaderboards(matches, Player),
           ~(field.system = "HYBRID" /\ \E m \in matches : m.phase = 2 /\ m.done)
    PROVE  Good(table[1])
<1>1. IsFiniteSet(Player) /\ Cardinality(Player) = field.n /\ field.n \in Nat \ {0, 1}
  BY PlayersAreFinite, RoundsAssumption
<1>2. table \in Seq(Player) /\ Distinct(table) /\ Len(table) = field.n
  BY <1>1, TablesAreOrders
<1>3. DOMAIN table = 1..field.n /\ 1 \in DOMAIN table /\ table[1] \in Player
  <2>1. PICK T : table \in Seq(T) /\ Len(table) = field.n
    BY <1>2
  <2> QED BY <1>1, <2>1, TopTwo
<1>4. DOMAIN table = Player
  BY <1>3 DEF Player
<1>5. PICK p : p = table[1]
  OBVIOUS
<1>6. 1 \in Player /\ \A i \in Player : table[i] = p => i = 1
  BY <1>2, <1>3, <1>4, <1>5 DEF Distinct
<1>7. (CHOOSE i \in Player : table[i] = p) = 1
  BY <1>5, <1>6
<1>8. DEFINE place == [q \in Player |-> CHOOSE i \in Player : table[i] = q]
<1>9. place[p] = 1
  BY <1>3, <1>5, <1>7
<1>10. Firsts(table) = {q \in Player : place[q] = 1}
  BY DEF Firsts
<1> HIDE DEF place
<1>11. p \in Firsts(table)
  BY <1>3, <1>5, <1>9, <1>10
<1> QED BY <1>5, <1>11 DEF Good

LEMMA GreatestOne ==
    ASSUME NEW x \in Int
    PROVE  Max({x}) = x
BY DEF Max

(* The winner of the only match of a top cut is placed first.              *)
LEMMA CutPlacesWinner ==
    ASSUME NEW m, m.done, ~m.bye, m.winner \in Sides(m), m.n \in Nat
    PROVE  m.winner \in DOMAIN Placements({m}) /\ Placements({m})[m.winner] = 1
<1> DEFINE M == {m}
           games == {x \in M : x.done /\ ~x.bye}
           all   == UNION {Sides(x) : x \in games}
           beaten(x) == Sides(x) \ {x.winner}
           won   == {x \in games : x.winner # NoPlayer}
           lost(p) == {x.n : x \in {g \in won : p \in beaten(g)}}
           first == {x.winner : x \in {g \in won : \A h \in won : h.n <= g.n}}
           exit(p) == IF p \in first THEN 1 + Max({x.n : x \in won})
                      ELSE IF lost(p) = {} THEN -1 ELSE Max(lost(p))
<1>1. Placements({m}) = [p \in all |-> 1 + Cardinality({q \in all : exit(q) > exit(p)})]
  BY DEF Placements
<1>2. games = {m}
  OBVIOUS
<1>3. all = Sides(m)
  BY <1>2
<1>4. won = {m}
  BY <1>2 DEF Sides
<1>5. first = {m.winner}
  BY <1>4
<1>6. {x.n : x \in won} = {m.n}
  BY <1>4
<1>7. \A p \in all : p # m.winner => lost(p) = {m.n}
  BY <1>3, <1>4
<1> HIDE DEF games, all, won, first, lost
<1>8. exit(m.winner) = 1 + m.n
  BY <1>5, <1>6, GreatestOne
<1>9. \A p \in all : p # m.winner => exit(p) = m.n
  BY <1>5, <1>7, GreatestOne
<1> HIDE DEF exit
<1>10. {q \in all : exit(q) > exit(m.winner)} = {}
  BY <1>8, <1>9
<1>11. m.winner \in all
  BY <1>3
<1>12. Placements({m})[m.winner] = 1 + Cardinality({q \in all : exit(q) > exit(m.winner)})
       /\ DOMAIN Placements({m}) = all
  BY <1>1, <1>11
<1> QED BY <1>10, <1>11, <1>12, FS_EmptySet

LEMMA CutIsFirst ==
    ASSUME field \in Fields, IsFiniteSet(matches), NEW m, Cuts = {m}, field.system = "HYBRID",
           m.done, ~m.bye, m.winner \in Sides(m), Sides(m) \subseteq Player, m.n \in Nat,
           \A x \in matches : x.one # NoPlayer
    PROVE  Good(m.winner)
<1>1. IsFiniteSet(Player)
  BY PlayersAreFinite
<1>2. PICK table : table \in Leaderboards(matches, Player)
  BY <1>1, TableIsThere
<1>3. ToSet(table) = Player
  <2>1. table \in Seq(Player)
    BY <1>1, <1>2, TablesAreOrders
  <2>2. \A p \in Player : \E i \in 1..Len(table) : table[i] = p
    BY <1>1, <1>2, TablesCover
  <2>3. ToSet(table) \subseteq Player
    <3> HIDE DEF Player
    <3> QED BY <2>1 DEF ToSet
  <2>4. Player \subseteq ToSet(table)
    <3> HIDE DEF Player
    <3>1. DOMAIN table = 1..Len(table)
      BY <2>1
    <3> QED BY <2>2, <3>1 DEF ToSet
  <2> QED BY <2>3, <2>4
<1>4. {x \in matches : x.phase = 2} = {m}
  BY DEF Cuts
<1>5. \E x \in matches : x.phase = 2 /\ x.done
  BY <1>4
<1>6. PICK cut : cut = Placements({m})
  OBVIOUS
<1>7. m.winner \in DOMAIN cut /\ cut[m.winner] = 1
  BY <1>6, CutPlacesWinner
<1>8. PICK place : place = FinalPlacements(matches, table)
  OBVIOUS
<1>9. place[m.winner] = 1
  <2> DEFINE top == Placements({x \in matches : x.phase = 2})
             rest == SelectSeq(table, LAMBDA p : p \notin DOMAIN top)
             behind(p) == Cardinality(DOMAIN top) + (CHOOSE i \in DOMAIN rest : rest[i] = p)
  <2>1. FinalPlacements(matches, table) =
           [p \in ToSet(table) |-> IF p \in DOMAIN top THEN top[p] ELSE behind(p)]
    BY DEF FinalPlacements
  <2>2. top = cut
    BY <1>4, <1>6
  <2> HIDE DEF top, behind
  <2>3. m.winner \in ToSet(table)
    BY <1>3
  <2> QED BY <1>7, <1>8, <2>1, <2>2, <2>3
<1>10. Firsts(table) = {p \in Player : place[p] = 1}
  BY <1>5, <1>8 DEF Firsts
<1>11. m.winner \in Firsts(table)
  BY <1>9, <1>10
<1> QED BY <1>2, <1>11 DEF Good

(* The request is not about to end the tournament, and was not.            *)
LEMMA TitleStays ==
    ASSUME NEW i, NEW j, Title(i), i.op # "Complete", UNCHANGED title, j.op # "Crown"
    PROVE  Title(j)'
BY DEF Title, title

TitleInv(r) ==
    /\ PlainInv(r)
    /\ field.system = "HYBRID" => Playing(r)
    /\ Title(job[r])

(* The winner who is about to be written is the first of the table, or of  *)
(* the cut.                                                                *)
LEMMA TitleCheck ==
    ASSUME NEW r \in Request, TitleInv(r), Check(r), NEW j, job' = [job EXCEPT ![r] = j]
    PROVE  Title(j)'
<1>1. UNCHANGED <<field, matches, title>> /\ job[r].op = "Check" /\ DOMAIN job[r] = JobRow
      /\ Title(job[r]) /\ job'[r] = j
  BY DEF Check, Runs, rows, TitleInv, PlainInv, ByeInv, DrawInv, Draft
<1>2. CASE job[r].todo = <<>>
  <2>1. j.op = "Walkover"
    BY <1>1, <1>2 DEF Check, Then, JobRow, TitleInv, PlainInv, ByeInv, DrawInv
  <2> QED BY <1>1, <2>1, TitleStays
<1>3. CASE job[r].todo # <<>>
  <2>1. PICK m \in matches :
            LET i   == [job[r] EXCEPT !.todo = Tail(@), !.n = m.n + 1, !.phase = 1]
                won == {g.winner : g \in RoundOf(m.n)} \ {NoPlayer}
                go(op) == job' = [job EXCEPT ![r] = [i EXCEPT !.op = op]]
            IN  IF ~Over(m) THEN go("Check")
                ELSE IF m.phase = 2
                THEN IF won = {} THEN go("Check")
                     ELSE job' = [job EXCEPT ![r] =
                                     [i EXCEPT !.op = "Crown", !.p = Max(won)]]
                ELSE IF field.system # "ROUND_ROBIN" /\ m.n < field.rounds THEN go("Pair")
                ELSE go(IF field.system = "HYBRID" THEN "Cut" ELSE "Final")
    BY <1>3 DEF Check, Named
  <2>2. PICK i : i = [job[r] EXCEPT !.todo = Tail(@), !.n = m.n + 1, !.phase = 1]
    OBVIOUS
  <2>3. PICK won : won = {g.winner : g \in RoundOf(m.n)} \ {NoPlayer}
    OBVIOUS
  <2>4. DOMAIN i = JobRow /\ r \in DOMAIN job
    BY <1>1, <2>2 DEF JobRow, TitleInv, PlainInv, ByeInv, DrawInv
  <2>5. \/ \E op \in {"Check", "Pair", "Cut", "Final"} : j = [i EXCEPT !.op = op]
        \/ Over(m) /\ m.phase = 2 /\ j = [i EXCEPT !.op = "Crown", !.p = Max(won)]
    <3>1. \/ \E op \in {"Check", "Pair", "Cut", "Final"} : job' = [job EXCEPT ![r] = [i EXCEPT !.op = op]]
          \/ Over(m) /\ m.phase = 2 /\ job' = [job EXCEPT ![r] = [i EXCEPT !.op = "Crown", !.p = Max(won)]]
      BY <2>1, <2>2, <2>3
    <3> QED BY <1>1, <2>4, <3>1
  <2>6. CASE \E op \in {"Check", "Pair", "Cut", "Final"} : j = [i EXCEPT !.op = op]
    <3>1. j.op # "Crown"
      BY <2>4, <2>6 DEF JobRow
    <3> QED BY <1>1, <3>1, TitleStays
  <2>7. CASE Over(m) /\ m.phase = 2 /\ j = [i EXCEPT !.op = "Crown", !.p = Max(won)]
    <3>1. field.system = "HYBRID" /\ Playing(r)
      BY <2>7 DEF TitleInv, PlainInv
    <3>2. OneCut /\ \A x \in matches : Row(x)
      BY <3>1 DEF Playing, PlayInv
    <3>3. m.done
      BY <2>7, <3>1 DEF Over, AllDone, RoundOf
    <3>4. Cuts = {m} /\ m.winner \in Sides(m)
          /\ \E table \in Leaderboards(matches \ Cuts, Player) : m.one = table[1] /\ m.two = table[2]
      BY <2>7, <3>2, <3>3 DEF OneCut, Cuts
    <3>5. field \in Fields /\ IsFiniteSet(matches)
      BY DEF TitleInv, PlainInv, ByeInv, DrawInv
    <3>6. m.one \in Player /\ m.two \in Player /\ NoPlayer \notin Player
      BY <3>4, <3>5, TopTwo
    <3>7. ~m.bye /\ \A x \in matches : x.one # NoPlayer
      BY <3>2, <3>6 DEF Row
    <3>8. m.n \in Nat
      BY <3>1, <3>2, <2>7 DEF Row, Playing, TurnInv
    <3>9. Good(m.winner)
      <4>1. Sides(m) \subseteq Player
        BY <3>6 DEF Sides
      <4> QED BY <3>1, <3>3, <3>4, <3>5, <3>7, <3>8, <4>1, CutIsFirst
    <3>10. RoundOf(m.n) = {m}
      <4> SUFFICES ASSUME NEW x \in matches, x.n = m.n
                   PROVE  x = m
        BY DEF RoundOf
      <4>1. x.phase \in {1, 2} /\ field.rounds \in Nat
        BY <3>1 DEF Playing, TurnInv
      <4>2. x.phase = 2
        BY <2>7, <3>2, <4>1 DEF Row
      <4> QED BY <3>4, <4>2 DEF Cuts
    <3>11. won = {m.winner}
      BY <2>3, <3>4, <3>10 DEF Sides
    <3>12. Max(won) = m.winner
      <4>1. m.winner \in Int
        BY <3>4, <3>6 DEF Sides, Player
      <4> QED BY <3>11, <4>1, GreatestOne
    <3>13. j.op = "Crown" /\ j.p = m.winner
      BY <2>4, <2>7, <3>12 DEF JobRow
    <3>14. Good(m.winner)'
      BY <1>1, <3>9, GoodStays
    <3> QED BY <1>1, <3>13, <3>14 DEF Title, title
  <2> QED BY <2>5, <2>6, <2>7
<1> QED BY <1>2, <1>3

LEMMA TitleFinal ==
    ASSUME NEW r \in Request, TitleInv(r), Final(r), NEW j, job' = [job EXCEPT ![r] = j]
    PROVE  Title(j)'
<1>1. UNCHANGED <<field, matches, title>> /\ job[r].op = "Final" /\ DOMAIN job[r] = JobRow
      /\ Title(job[r]) /\ job'[r] = j /\ r \in DOMAIN job
  BY DEF Final, Runs, rows, TitleInv, PlainInv, ByeInv, DrawInv, Draft
<1>2. CASE TiedOnTop(matches, Player)
  <2>1. j.op = "Check"
    BY <1>1, <1>2 DEF Final, Then, JobRow
  <2> QED BY <1>1, <2>1, TitleStays
<1>3. CASE ~TiedOnTop(matches, Player)
  <2>1. PICK table \in Leaderboards(matches, Player) :
          job' = [job EXCEPT ![r].op = "Crown", ![r].p = table[1]]
    BY <1>3 DEF Final
  <2>2. PICK p : p = table[1]
    OBVIOUS
  <2>3. j = [job[r] EXCEPT !.op = "Crown", !.p = p]
    BY <1>1, <2>1, <2>2
  <2>4. j.op = "Crown" /\ j.p = p
    BY <1>1, <2>3 DEF JobRow
  <2>5. field.system # "HYBRID" /\ field \in Fields
    BY <1>1 DEF TitleInv, PlainInv, Plain, ByeInv, DrawInv
  <2>6. Good(p)
    BY <2>2, <2>5, TopIsFirst
  <2>7. Good(p)'
    BY <1>1, <2>6, GoodStays
  <2> QED BY <1>1, <2>4, <2>7 DEF Title, title
<1> QED BY <1>2, <1>3

LEMMA TitleTie ==
    ASSUME NEW r \in Request, TitleInv(r), ApplyTiebreakers(r), NEW j, job' = [job EXCEPT ![r] = j]
    PROVE  Title(j)'
<1>1. UNCHANGED <<field, matches, title>> /\ job[r] = Idle /\ Title(job[r]) /\ job'[r] = j
      /\ r \in DOMAIN job
  BY DEF ApplyTiebreakers, rows, TitleInv, PlainInv, ByeInv, DrawInv
<1>2. PICK table \in Leaderboards(matches, Player) :
         job' = [job EXCEPT ![r] = [Job("Crown", 0) EXCEPT !.p = table[1]]]
  BY DEF ApplyTiebreakers, Begins
<1>3. PICK p : p = table[1]
  OBVIOUS
<1>4. j = [Job("Crown", 0) EXCEPT !.p = p]
  BY <1>1, <1>2, <1>3
<1>5. j.op = "Crown" /\ j.p = p
  BY <1>4 DEF Job
<1>6. SUFFICES ASSUME status # "COMPLETED"
               PROVE  Title(j)'
  BY <1>1 DEF Title, title
<1>7. Idle.op = "Idle"
  BY DEF Idle, Job
<1>8. ~(field.system = "HYBRID" /\ \E m \in matches : m.phase = 2 /\ m.done)
  <2> SUFFICES ASSUME field.system = "HYBRID", NEW m \in matches, m.phase = 2, m.done
               PROVE  FALSE
    OBVIOUS
  <2>1. Playing(r)
    BY DEF TitleInv
  <2>2. Cuts = {m} /\ m.n = field.rounds + 1
    BY <2>1 DEF Playing, PlayInv, OneCut, Cuts, Row
  <2>3. ASSUME NEW x \in matches, ~x.done
        PROVE  FALSE
    <3>1. Latest(x.n)
      BY <2>1, <2>3, OthersDone
    <3>2. m.n \in rounds /\ \A k \in rounds : k <= field.rounds + 1
      BY <2>1 DEF Playing, PlayInv, TurnInv
    <3>3. PICK k \in Nat \ {0} : rounds = 1..k
      BY <2>1 DEF Playing, TurnInv
    <3>4. x.n = m.n
      <4>1. field.rounds \in Nat
        BY <2>1 DEF Playing, TurnInv
      <4>2. x.n = k
        BY <3>1, <3>3 DEF Latest
      <4>3. k \in rounds
        BY <3>3
      <4> QED BY <2>2, <3>2, <3>3, <4>1, <4>2, <4>3
    <3>5. x.phase = 2
      <4>1. x.phase \in {1, 2} /\ Row(x) /\ field.rounds \in Nat
        BY <2>1 DEF Playing, TurnInv, PlayInv
      <4> QED BY <2>2, <3>4, <4>1 DEF Row
    <3> QED BY <2>2, <2>3, <3>5 DEF Cuts
  <2>4. AllDone(matches)
    BY <2>3 DEF AllDone
  <2>5. Settling(Idle) /\ ~Busy(Idle)
    BY <1>1, <1>7, <2>1 DEF Playing, PlayInv, Plan, Busy
  <2> QED BY <1>6, <2>2, <2>4, <2>5 DEF Settling
<1>9. Good(p)
  BY <1>3, <1>8, TopIsFirst DEF TitleInv, PlainInv, ByeInv, DrawInv
<1>10. Good(p)'
  BY <1>1, <1>9, GoodStays
<1>11. champion' = NoPlayer
  BY <1>1, <1>6, <1>7 DEF Title, title
<1> QED BY <1>5, <1>10, <1>11 DEF Title

LEMMA TitleStatement ==
    ASSUME NEW r \in Request, TitleInv(r), Statement(r), NEW j, job' = [job EXCEPT ![r] = j]
    PROVE  Title(j)'
<1>1. job'[r] = j /\ DOMAIN job[r] = JobRow /\ r \in DOMAIN job /\ Title(job[r])
  BY DEF TitleInv, PlainInv, ByeInv, DrawInv, Draft
<1>2. CASE Walkover(r)
  <2>1. UNCHANGED title /\ job[r].op = "Walkover"
    BY <1>2 DEF Walkover, Runs
  <2>2. j.op # "Crown"
    <3>1. CASE job[r].open = {}
      BY <1>1, <1>2, <3>1 DEF Walkover, Fails, Idle, Job
    <3>2. CASE job[r].open # {}
      <4>1. PICK k, m : IF m.done THEN job' = [job EXCEPT ![r].open = @ \ {k}]
                        ELSE job' = [job EXCEPT ![r].open = @ \ {k}, ![r].op = "Check", ![r].todo = <<k>>]
        BY <1>2, <3>2 DEF Walkover
      <4>2. CASE m.done
        BY <1>1, <2>1, <4>1, <4>2 DEF JobRow
      <4>3. CASE ~m.done
        BY <1>1, <4>1, <4>3 DEF JobRow
      <4> QED BY <4>2, <4>3
    <3> QED BY <3>1, <3>2
  <2> QED BY <1>1, <2>1, <2>2, TitleStays
<1>3. CASE Pair(r)
  <2>1. PICK draw, todo : job' = [job EXCEPT ![r].op = "Open", ![r].draw = draw, ![r].todo = todo]
    BY <1>3 DEF Pair
  <2>2. j = [job[r] EXCEPT !.op = "Open", !.draw = draw, !.todo = todo]
    BY <1>1, <2>1
  <2>3. j.op = "Open"
    BY <1>1, <2>2 DEF JobRow
  <2> QED BY <1>1, <1>3, <2>3, TitleStays DEF Pair, Runs
<1>4. CASE Cut(r)
  <2>1. PICK table : job' = [job EXCEPT ![r] =
                  IF field.cut < 2 THEN [@ EXCEPT !.op = "Complete"]
                  ELSE [@ EXCEPT !.op = "Open", !.n = Max(rounds) + 1, !.phase = 2,
                                 !.draw = <<<<table[1], table[2]>>>>]]
    BY <1>4 DEF Cut
  <2>2. j = IF field.cut < 2 THEN [job[r] EXCEPT !.op = "Complete"]
            ELSE [job[r] EXCEPT !.op = "Open", !.n = Max(rounds) + 1, !.phase = 2,
                                 !.draw = <<<<table[1], table[2]>>>>]
    BY <1>1, <2>1
  <2>3. j.op # "Crown"
    BY <1>1, <2>2 DEF JobRow
  <2> QED BY <1>1, <1>4, <2>3, TitleStays DEF Cut, Runs
<1>5. CASE Open(r)
  <2>1. j.op # "Crown"
    BY <1>1, <1>5 DEF Open, Fails, Then, Idle, Job, JobRow
  <2> QED BY <1>1, <1>5, <2>1, TitleStays DEF Open, Runs
<1>6. CASE Seat(r)
  <2>1. j.op # "Crown"
    <3>1. CASE job[r].draw = <<>>
      BY <1>1, <1>6, <3>1 DEF Seat, Then, JobRow
    <3>2. CASE job[r].draw # <<>>
      <4>1. PICK m : job' = IF m.bye THEN [job EXCEPT ![r].op = "Bye"]
                            ELSE [job EXCEPT ![r].draw = Tail(@)]
        BY <1>6, <3>2 DEF Seat
      <4> QED BY <1>1, <1>6, <4>1 DEF Seat, Runs, JobRow
    <3> QED BY <3>1, <3>2
  <2> QED BY <1>1, <1>6, <2>1, TitleStays DEF Seat, Runs
<1>7. CASE Bye(r)
  <2>1. j.op = "Seat"
    BY <1>1, <1>7 DEF Bye, JobRow
  <2> QED BY <1>1, <1>7, <2>1, TitleStays DEF Bye, Runs
<1>8. CASE Crown(r)
  <2>1. UNCHANGED <<field, matches, status>> /\ job[r].op = "Crown" /\ champion' = job[r].p
        /\ j.op = "Complete"
    BY <1>1, <1>8 DEF Crown, Runs, Then, rows, JobRow
  <2>2. PICK p : p = job[r].p
    OBVIOUS
  <2>3. status # "COMPLETED" => Good(p)'
    BY <1>1, <2>1, <2>2, GoodStays DEF Title
  <2>4. champion' = p
    BY <2>1, <2>2
  <2> QED BY <2>1, <2>3, <2>4 DEF Title
<1>9. CASE Complete(r)
  BY <1>9 DEF Complete, Title
<1> QED BY <1>2, <1>3, <1>4, <1>5, <1>6, <1>7, <1>8, <1>9, TitleCheck, TitleFinal DEF Statement

LEMMA TitleInit ==
    ASSUME NEW r \in Request, Init, field.system = "HYBRID" => field.rounds > 0
    PROVE  TitleInv(r)
<1>1. Idle.op = "Idle"
  BY DEF Idle, Job
<1>2. Title(job[r])
  BY <1>1 DEF Init, Title
<1>3. field.system = "HYBRID" => Playing(r)
  BY PlayInit
<1> QED BY <1>2, <1>3, PlainInit DEF TitleInv

LEMMA TitleNext ==
    ASSUME NEW r \in Request, field.crowd = {r}, TitleInv(r), [Next]_vars,
           extra' = {} \/ field.system # "HYBRID"
    PROVE  TitleInv(r)'
<1>1. UNCHANGED field
  BY ExtraStays
<1>2. PlainInv(r)' /\ (field.system = "HYBRID" => Playing(r)')
  BY PlainNext, PlayNext DEF TitleInv
<1> SUFFICES Title(job[r])'
  BY <1>1, <1>2 DEF TitleInv
<1>3. DOMAIN job = Request /\ Title(job[r])
  BY DEF TitleInv, PlainInv, ByeInv, DrawInv
<1>4. Idle.op = "Idle"
  BY DEF Idle, Job
<1>0. ASSUME NEW j, job'[r] = j, Title(j)'
      PROVE  Title(job[r])'
  BY <1>0 DEF Title
<1>5. ASSUME NEW q \in Request, NEW j, Begins(q, j), UNCHANGED title, j.op # "Crown"
      PROVE  Title(job[r])'
  <2>1. q = r /\ job'[r] = j
    BY <1>3, <1>5 DEF Begins
  <2>2. PICK i : i = job[r]
    OBVIOUS
  <2>3. Title(i) /\ i.op # "Complete"
    BY <1>3, <1>4, <1>5, <2>1, <2>2 DEF Begins
  <2>4. Title(j)'
    BY <1>5, <2>3, TitleStays
  <2> QED BY <1>0, <2>1, <2>4
<1>6. ASSUME NEW q \in Request, NEW m \in matches, NEW w, Report(q, m, w)
      PROVE  Title(job[r])'
  <2>1. PICK j : Begins(q, j) /\ j = [Job("Check", 0) EXCEPT !.todo = <<Name(m)>>]
    BY <1>6 DEF Report
  <2>2. j.op = "Check"
    BY <2>1 DEF Job
  <2>3. UNCHANGED title
    BY <1>6 DEF Report
  <2> QED BY <1>5, <2>1, <2>2, <2>3
<1>7. ASSUME NEW q \in Request, NEW p \in Player, Forfeit(q, p)
      PROVE  Title(job[r])'
  <2>1. PICK open : Begins(q, [Job("Walkover", 0) EXCEPT !.p = p, !.open = open])
    BY <1>7 DEF Forfeit
  <2>2. PICK j : j = [Job("Walkover", 0) EXCEPT !.p = p, !.open = open]
    OBVIOUS
  <2>3. j.op = "Walkover"
    BY <2>2 DEF Job
  <2>4. UNCHANGED title
    BY <1>7 DEF Forfeit
  <2> QED BY <1>5, <2>1, <2>2, <2>3, <2>4
<1>8. ASSUME NEW q \in Request, ExtendRound(q)
      PROVE  Title(job[r])'
  <2>1. PICK j : Begins(q, j) /\ j = Job("Pair", Max(rounds) + 1)
    BY <1>8 DEF ExtendRound
  <2>2. j.op = "Pair"
    BY <2>1 DEF Job
  <2>3. UNCHANGED title
    BY <1>8 DEF ExtendRound
  <2> QED BY <1>5, <2>1, <2>2, <2>3
<1>9. ASSUME NEW q \in Request, ApplyTiebreakers(q)
      PROVE  Title(job[r])'
  <2>1. PICK j : job' = [job EXCEPT ![q] = j] /\ q = r
    BY <1>9 DEF ApplyTiebreakers, Begins
  <2>2. job'[r] = j
    BY <1>3, <2>1
  <2>3. Title(j)'
    BY <1>9, <2>1, TitleTie
  <2> QED BY <1>0, <2>2, <2>3
<1>10. ASSUME NEW q \in Request, Statement(q)
       PROVE  Title(job[r])'
  <2>1. job[q].op # "Idle"
    BY <1>10 DEF Statement, Walkover, Check, Final, Pair, Cut, Open, Seat, Bye, Crown, Complete, Runs
  <2>2. q = r
    BY <2>1 DEF TitleInv, PlainInv, ByeInv, Idle, Job
  <2>3. job' = [job EXCEPT ![r] = job'[r]]
    BY <1>3, <1>10, <2>2 DEF Statement, Walkover, Check, Final, Pair, Cut, Open, Seat, Bye, Crown,
                             Complete, Then, Fails
  <2>4. PICK j : j = job'[r]
    OBVIOUS
  <2>5. job' = [job EXCEPT ![r] = j] /\ Statement(r)
    BY <1>10, <2>2, <2>3, <2>4
  <2>6. Title(j)'
    BY <2>5, TitleStatement
  <2> QED BY <1>0, <2>4, <2>6
<1>11. ASSUME NEW q \in Request, NEW m \in matches, Reset(q, m)
       PROVE  Title(job[r])'
  <2>1. job'[r].op = "Idle"
    BY <1>4, <1>11 DEF Reset
  <2>2. champion' = NoPlayer
    BY <1>3, <1>4, <1>11 DEF Reset, Title
  <2>3. PICK j : j = job'[r]
    OBVIOUS
  <2>4. Title(j)'
    BY <2>1, <2>2, <2>3 DEF Title
  <2> QED BY <1>0, <2>3, <2>4
<1>12. CASE UNCHANGED vars
  <2>1. job' = job /\ UNCHANGED <<status, champion, field, matches>>
    BY <1>12 DEF vars, rows, title
  <2>2. \A p : Good(p)' <=> Good(p)
    BY <2>1, GoodStays
  <2>3. PICK i : i = job[r]
    OBVIOUS
  <2>4. PICK p : p = i.p
    OBVIOUS
  <2>5. PICK w : w = champion
    OBVIOUS
  <2>6. Title(i)'
    BY <1>3, <2>1, <2>2, <2>3, <2>4, <2>5 DEF Title
  <2> QED BY <1>0, <2>1, <2>3, <2>6
<1> QED BY <1>6, <1>7, <1>8, <1>9, <1>10, <1>11, <1>12 DEF Next, Played

TitleAlone ==
    \A r \in Request : field.crowd = {r} /\ (field.system = "HYBRID" => extra = {}) => TitleInv(r)

(* With one request at a time (and, in a hybrid tournament, no extra       *)
(* rounds) the winner on the record of a completed tournament is a player  *)
(* its final placements put first, whether the top cut, the table, the     *)
(* organizer's tie-break or nobody before the completion named the winner: *)
(* who is about to be written was read from the results that the           *)
(* completion still finds (tournament.service.ts 826-831).                 *)
THEOREM TitleAndFirstPrize ==
    Spec /\ (field.system = "HYBRID" => field.rounds > 0) => ChampionPlacedFirst
<1> DEFINE Long == field.system = "HYBRID" => field.rounds > 0
           Inv == field \in Fields /\ TitleAlone
           Step == Serial /\ (extra = {} \/ field.system # "HYBRID")
                   /\ status # "COMPLETED" /\ status' = "COMPLETED" =>
                     \E table \in Leaderboards(matches, Player) : champion' \in Firsts(table)
<1>1. Init /\ Long => Inv
  BY TitleInit DEF Init, TitleAlone
<1>2. Inv /\ [Next]_vars => Inv'
  <2> SUFFICES ASSUME Inv, [Next]_vars
               PROVE  Inv'
    OBVIOUS
  <2>1. UNCHANGED field /\ (extra' = {} => extra = {})
    BY ExtraStays
  <2>2. ASSUME NEW r \in Request, field.crowd = {r}, field.system = "HYBRID" => extra' = {}
        PROVE  TitleInv(r)'
    BY <2>1, <2>2, TitleNext DEF TitleAlone
  <2> QED BY <2>1, <2>2 DEF TitleAlone
<1>3. Inv /\ [Next]_vars => [Step]_vars
  <2> SUFFICES ASSUME Inv, Next, Serial, extra = {} \/ field.system # "HYBRID",
                      status # "COMPLETED", status' = "COMPLETED"
               PROVE  \E table \in Leaderboards(matches, Player) : champion' \in Firsts(table)
    BY DEF vars, title
  <2>1. PICK r \in Request : field.crowd = {r}
    BY OneOfACrowd
  <2>2. TitleInv(r)
    BY <2>1 DEF TitleAlone
  <2>3. PICK q \in Request : Complete(q)
    <3>1. PICK q \in Request : Statement(q)
      BY DEF Next, Played, Report, ApplyTiebreakers, ExtendRound, Reset, Forfeit, title
    <3> QED BY <3>1 DEF Statement, Walkover, Check, Final, Pair, Cut, Open, Seat, Bye, Crown, title
  <2>4. CASE champion = NoPlayer
    <3>1. PICK table \in Leaderboards(matches, Player) : champion' \in Firsts(table)
      BY <2>3, <2>4 DEF Complete
    <3> QED BY <3>1
  <2>5. CASE champion # NoPlayer
    <3>1. champion' = champion
      BY <2>3, <2>5 DEF Complete
    <3>2. Good(champion)
      BY <2>2, <2>5 DEF TitleInv, Title
    <3> QED BY <3>1, <3>2 DEF Good
  <2> QED BY <2>4, <2>5
<1> HIDE DEF Inv
<1>4. ChampionPlacedFirst <=> [][Step]_vars
  BY DEF ChampionPlacedFirst
<1> QED BY <1>1, <1>2, <1>3, PTL DEF Spec, ChampionPlacedFirst

---------------------------------------------------------------------------
(* The circle method: in round r the places of two players add up to the   *)
(* last one for a single r.                                                *)
LEMMA CircleMeetsAll ==
    ASSUME NEW n \in Nat \ {0, 1}, NoPlayer \notin 1..n,
           NEW p \in 1..n, NEW q \in 1..n, p < q
    PROVE  \E m \in Circle(n) : Sides(m) = {p, q}
<1> DEFINE size == n + (n % 2)
           seat(r, i) == IF i = 0 THEN 1 ELSE IF i > r THEN i - r + 1 ELSE i - r + size
           who(x) == IF x > n THEN NoPlayer ELSE x
           pair(r, i) == LET a == who(seat(r, i)) b == who(seat(r, size - 1 - i))
                         IN  IF a = NoPlayer THEN <<b, a>> ELSE <<a, b>>
<1>1. size \in Nat /\ size >= n /\ size = 2 * (size \div 2) /\ size \div 2 \in Nat
  OBVIOUS
<1>2. Circle(n) = {Match(x + 1, pair(x, y), 1) : x \in 0..(size - 2), y \in 0..(size \div 2 - 1)}
  BY DEF Circle
<1> PICK h \in Nat : h = size \div 2
  BY <1>1
<1> PICK u \in Nat : u = size - 1
  BY <1>1
<1>3. size = 2 * h /\ u = 2 * h - 1 /\ n <= 2 * h /\ h > 0
  BY <1>1
<1> HIDE DEF size
(* The place of a player in round r.                                       *)
<1> DEFINE at(x, r) == IF x = 1 THEN 0 ELSE IF x - 1 + r <= u THEN x - 1 + r ELSE x - 1 + r - u
<1>4. \A x \in 1..size, r \in 0..(u - 1) : at(x, r) \in 0..u /\ seat(r, at(x, r)) = x
  BY <1>3
<1>5. \E r \in 0..(u - 1) : at(p, r) + at(q, r) = u
  <2>1. CASE p = 1
    <3>1. PICK r : r = u + 1 - q
      OBVIOUS
    <3>2. r \in 0..(u - 1) /\ at(p, r) = 0 /\ at(q, r) = u
      BY <1>3, <2>1, <3>1
    <3> QED BY <1>3, <3>2
  <2>2. CASE p > 1
    <3>1. PICK k \in Nat : p + q - 2 = 2 * k \/ p + q - 2 = 2 * k + 1
      <4>1. PICK s \in Nat : s = p + q - 2
        BY <2>2
      <4>2. s = 2 * (s \div 2) \/ s = 2 * (s \div 2) + 1
        OBVIOUS
      <4>3. s \div 2 \in Nat
        OBVIOUS
      <4> QED BY <4>1, <4>2, <4>3
    <3>2. CASE p + q - 2 = 2 * k
      <4>1. PICK r : r = u - k
        OBVIOUS
      <4>2. r \in 0..(u - 1) /\ at(p, r) + at(q, r) = u
        BY <1>3, <2>2, <3>2, <4>1
      <4> QED BY <4>2
    <3>3. CASE p + q - 2 = 2 * k + 1 /\ 2 * k + 1 <= u
      <4>1. PICK r : r = h - 1 - k
        OBVIOUS
      <4>2. r \in 0..(u - 1) /\ at(p, r) + at(q, r) = u
        BY <1>3, <2>2, <3>3, <4>1
      <4> QED BY <4>2
    <3>4. CASE p + q - 2 = 2 * k + 1 /\ 2 * k + 1 > u
      <4>1. PICK r : r = 3 * h - 2 - k
        OBVIOUS
      <4>2. r \in 0..(u - 1) /\ at(p, r) + at(q, r) = u
        BY <1>3, <2>2, <3>4, <4>1
      <4> QED BY <4>2
    <3> QED BY <1>3, <2>2, <3>1, <3>2, <3>3, <3>4
  <2> QED BY <2>1, <2>2
<1>6. PICK r \in 0..(u - 1) : at(p, r) + at(q, r) = u
  BY <1>5
<1>7. PICK i \in 0..(h - 1) : \/ seat(r, i) = p /\ seat(r, u - i) = q
                              \/ seat(r, i) = q /\ seat(r, u - i) = p
  <2> PICK a, b : a = at(p, r) /\ b = at(q, r)
    OBVIOUS
  <2>1. a \in 0..u /\ b \in 0..u /\ a + b = u /\ seat(r, a) = p /\ seat(r, b) = q
    BY <1>3, <1>4, <1>6
  <2> HIDE DEF seat, at
  <2>2. CASE a <= b
    <3>1. a \in 0..(h - 1) /\ u - a = b
      BY <1>3, <2>1, <2>2
    <3>2. seat(r, a) = p /\ seat(r, u - a) = q
      BY <2>1, <3>1
    <3> QED BY <3>1, <3>2
  <2>3. CASE b <= a
    <3>1. b \in 0..(h - 1) /\ u - b = a
      BY <1>3, <2>1, <2>3
    <3>2. seat(r, b) = q /\ seat(r, u - b) = p
      BY <2>1, <3>1
    <3> QED BY <3>1, <3>2
  <2> QED BY <2>1, <2>2, <2>3
<1>8. Match(r + 1, pair(r, i), 1) \in Circle(n)
  <2>1. r \in 0..(size - 2) /\ i \in 0..(size \div 2 - 1)
    BY <1>3
  <2> HIDE DEF pair
  <2> QED BY <1>2, <2>1
<1>9. {pair(r, i)[1], pair(r, i)[2]} = {p, q}
  <2> PICK a, b : a = seat(r, i) /\ b = seat(r, u - i)
    OBVIOUS
  <2>1. size - 1 - i = u - i
    BY <1>3
  <2>2. {a, b} = {p, q}
    BY <1>7
  <2>3. who(a) = a /\ who(b) = b /\ a # NoPlayer
    <3> HIDE DEF seat
    <3>1. a \in 1..n /\ b \in 1..n
      BY <2>2
    <3>2. ~(a > n) /\ ~(b > n)
      BY <3>1
    <3> QED BY <3>1, <3>2
  <2>4. pair(r, i) = IF who(a) = NoPlayer THEN <<who(b), who(a)>> ELSE <<who(a), who(b)>>
    BY <2>1
  <2> HIDE DEF who, seat, pair
  <2> QED BY <2>2, <2>3, <2>4
<1> QED
  <2> PICK x : x = pair(r, i)
    OBVIOUS
  <2>1. {x[1], x[2]} = {p, q} /\ Match(r + 1, x, 1) \in Circle(n)
    BY <1>8, <1>9
  <2>2. Match(r + 1, x, 1).one = x[1] /\ Match(r + 1, x, 1).two = x[2]
    BY DEF Match
  <2>3. Sides(Match(r + 1, x, 1)) = {p, q}
    <3> HIDE DEF pair, seat
    <3> QED BY <2>1, <2>2 DEF Sides
  <2> QED BY <2>1, <2>3

(* And they meet once only.                                                *)
LEMMA CircleMeetsOnce ==
    ASSUME NEW n \in Nat \ {0, 1}, NEW m \in Circle(n), NEW g \in Circle(n),
           Sides(m) = Sides(g), NEW p \in Sides(m), NEW q \in Sides(m), p # q
    PROVE  m = g
<1> DEFINE size == n + (n % 2)
           seat(r, i) == IF i = 0 THEN 1 ELSE IF i > r THEN i - r + 1 ELSE i - r + size
           who(x) == IF x > n THEN NoPlayer ELSE x
           pair(r, i) == LET a == who(seat(r, i)) b == who(seat(r, size - 1 - i))
                         IN  IF a = NoPlayer THEN <<b, a>> ELSE <<a, b>>
<1>1. size \in Nat /\ size >= n /\ size = 2 * (size \div 2) /\ size \div 2 \in Nat
  OBVIOUS
<1>2. Circle(n) = {Match(x + 1, pair(x, y), 1) : x \in 0..(size - 2), y \in 0..(size \div 2 - 1)}
  BY DEF Circle
<1> PICK h \in Nat : h = size \div 2
  BY <1>1
<1> PICK u \in Nat : u = size - 1
  BY <1>1
<1>3. size = 2 * h /\ u = 2 * h - 1 /\ n <= 2 * h /\ h > 0
  BY <1>1
<1>4. PICK r \in 0..(u - 1), i \in 0..(h - 1) : m = Match(r + 1, pair(r, i), 1)
  <2> HIDE DEF pair
  <2> QED BY <1>2, <1>3
<1>5. PICK s \in 0..(u - 1), j \in 0..(h - 1) : g = Match(s + 1, pair(s, j), 1)
  <2> HIDE DEF pair
  <2> QED BY <1>2, <1>3
<1> HIDE DEF size
<1>6. ASSUME NEW t \in 0..(u - 1), NEW k \in 0..(h - 1), NEW x, x = Match(t + 1, pair(t, k), 1)
      PROVE  Sides(x) \subseteq {seat(t, k), seat(t, u - k)} \ {NoPlayer}
  <2> PICK a, b : a = seat(t, k) /\ b = seat(t, u - k)
    OBVIOUS
  <2> PICK c, d : c = who(a) /\ d = who(b)
    OBVIOUS
  <2>1. size - 1 - k = u - k
    BY <1>3
  <2>2. c \in {a, NoPlayer} /\ d \in {b, NoPlayer}
    OBVIOUS
  <2>3. pair(t, k) = IF c = NoPlayer THEN <<d, c>> ELSE <<c, d>>
    BY <2>1
  <2>4. x.one = pair(t, k)[1] /\ x.two = pair(t, k)[2]
    <3> HIDE DEF pair
    <3> QED BY <1>6 DEF Match
  <2> HIDE DEF who, seat, pair
  <2>5. x.one \in {a, b, NoPlayer} /\ x.two \in {a, b, NoPlayer}
    BY <2>2, <2>3, <2>4
  <2> QED BY <2>5 DEF Sides
<1>7. Sides(m) \subseteq {seat(r, i), seat(r, u - i)} /\ Sides(g) \subseteq {seat(s, j), seat(s, u - j)}
  <2> HIDE DEF seat, pair
  <2> QED BY <1>4, <1>5, <1>6
<1>8. {seat(r, i), seat(r, u - i)} = {p, q} /\ {seat(s, j), seat(s, u - j)} = {p, q}
  <2> HIDE DEF seat, pair
  <2> QED BY <1>7
<1>9. r = s
  <2>1. CASE i = 0 /\ j = 0
    <3>1. seat(r, u) = u - r + 1 /\ seat(s, u) = u - s + 1 /\ seat(r, 0) = 1 /\ seat(s, 0) = 1
      BY <1>3
    <3>2. u - r + 1 # 1 /\ u - s + 1 # 1 /\ u - 0 = u
      BY <1>3
    <3>3. u - r + 1 = u - s + 1
      <4> HIDE DEF seat
      <4> QED BY <1>8, <2>1, <3>1, <3>2
    <3> QED BY <3>3
  <2>2. CASE i = 0 /\ j # 0
    <3>1. seat(s, j) # 1 /\ seat(s, u - j) # 1 /\ seat(r, 0) = 1
      BY <1>3, <2>2
    <3> QED BY <1>8, <2>2, <3>1
  <2>3. CASE i # 0 /\ j = 0
    <3>1. seat(r, i) # 1 /\ seat(r, u - i) # 1 /\ seat(s, 0) = 1
      BY <1>3, <2>3
    <3> QED BY <1>8, <2>3, <3>1
  <2>4. CASE i # 0 /\ j # 0
    <3>1. seat(r, i) + seat(r, u - i) \in {u + 2 - 2 * r, 2 * u + 2 - 2 * r, 3 * u + 2 - 2 * r}
      BY <1>3, <2>4
    <3>2. seat(s, j) + seat(s, u - j) \in {u + 2 - 2 * s, 2 * u + 2 - 2 * s, 3 * u + 2 - 2 * s}
      BY <1>3, <2>4
    <3>3. seat(r, i) \in Int /\ seat(r, u - i) \in Int /\ seat(s, j) \in Int /\ seat(s, u - j) \in Int
      BY <1>3
    <3> PICK a, b, c, d : a = seat(r, i) /\ b = seat(r, u - i) /\ c = seat(s, j) /\ d = seat(s, u - j)
      OBVIOUS
    <3> HIDE DEF seat
    <3>4. {a, b} = {p, q} /\ {c, d} = {p, q}
      BY <1>8
    <3>5. a \in Int /\ b \in Int /\ c \in Int /\ d \in Int
      BY <3>3
    <3>6. \/ a = c /\ b = d
          \/ a = d /\ b = c
      BY <3>4
    <3>7. a + b = c + d
      BY <3>5, <3>6
    <3>8. a + b \in {u + 2 - 2 * r, 2 * u + 2 - 2 * r, 3 * u + 2 - 2 * r}
          /\ c + d \in {u + 2 - 2 * s, 2 * u + 2 - 2 * s, 3 * u + 2 - 2 * s}
      BY <3>1, <3>2
    <3> QED BY <1>3, <3>5, <3>7, <3>8
  <2> QED BY <2>1, <2>2, <2>3, <2>4
<1>10. m.n = g.n
  <2> HIDE DEF pair
  <2> QED BY <1>4, <1>5, <1>9 DEF Match
<1> QED BY <1>10, CircleApart

---------------------------------------------------------------------------
(* Nothing is added to the draw of a round robin tournament without extra  *)
(* rounds, and what is rewritten keeps its players.                        *)
MeetOnce ==
    \A p, q \in Player : p < q =>
        \E m \in matches : Sides(m) = {p, q} /\ \A g \in matches : Sides(g) = {p, q} => g = m

FullDraw ==
    field.system = "ROUND_ROBIN" /\ extra = {} =>
        /\ \A r \in Request : job[r].op \notin {"Pair", "Cut", "Open", "Seat", "Bye"}
        /\ \A m \in matches : m.phase = 1
        /\ MeetOnce

LEMMA FullDrawInit == Init => FullDraw
<1> SUFFICES ASSUME Init, field.system = "ROUND_ROBIN"
             PROVE  FullDraw
  BY DEF FullDraw
<1>1. PICK n \in Nat \ {0, 1} : n = field.n /\ NoPlayer \notin 1..n
  BY RoundsAssumption DEF Init
<1>2. matches = {IF m.bye THEN Benched(m) ELSE m : m \in Circle(n)} /\ Player = 1..n
  BY <1>1 DEF Init, Drawn, Player
<1>3. \A m \in Circle(n) : DOMAIN m = MatchRow /\ m.phase = 1
  BY DEF Circle, Match, MatchRow
<1> DEFINE row(m) == IF m.bye THEN Benched(m) ELSE m
<1>4. \A m \in Circle(n) : row(m).phase = 1 /\ Sides(row(m)) = Sides(m)
  BY <1>3 DEF Benched, Sides, MatchRow
<1>5. matches = {row(m) : m \in Circle(n)}
  BY <1>2
<1> HIDE DEF row
<1>6. MeetOnce
  <2> SUFFICES ASSUME NEW p \in 1..n, NEW q \in 1..n, p < q
               PROVE  \E m \in matches : /\ Sides(m) = {p, q}
                                         /\ \A g \in matches : Sides(g) = {p, q} => g = m
    BY <1>2 DEF MeetOnce
  <2>1. PICK m \in Circle(n) : Sides(m) = {p, q}
    BY <1>1, CircleMeetsAll
  <2>2. ASSUME NEW x \in Circle(n), Sides(x) = {p, q}
        PROVE  x = m
    <3>1. p \in Sides(m) /\ q \in Sides(m) /\ p # q
      BY <2>1
    <3> QED BY <2>1, <2>2, <3>1, CircleMeetsOnce
  <2>3. row(m) \in matches /\ Sides(row(m)) = {p, q}
    BY <1>4, <1>5, <2>1
  <2>4. \A g \in matches : Sides(g) = {p, q} => g = row(m)
    BY <1>4, <1>5, <2>2
  <2> QED BY <2>3, <2>4
<1>7. \A m \in matches : m.phase = 1
  BY <1>4, <1>5
<1>8. \A r \in Request : job[r].op = "Idle"
  BY DEF Init, Idle, Job
<1> QED BY <1>6, <1>7, <1>8 DEF FullDraw

LEMMA MeetStill ==
    ASSUME MeetOnce, UNCHANGED field, NEW m \in matches, NEW g, Replace(m, g), Sides(g) = Sides(m)
    PROVE  MeetOnce'
<1>1. Player' = Player
  BY DEF Player
<1> SUFFICES ASSUME NEW p \in Player, NEW q \in Player, p < q
             PROVE  \E x \in matches' : /\ Sides(x) = {p, q}
                                        /\ \A y \in matches' : Sides(y) = {p, q} => y = x
  BY <1>1 DEF MeetOnce, Sides
<1>2. PICK x \in matches : Sides(x) = {p, q} /\ \A y \in matches : Sides(y) = {p, q} => y = x
  BY DEF MeetOnce
<1>3. matches' = (matches \ {m}) \cup {g}
  BY DEF Replace
<1>4. CASE x = m
  <2>1. g \in matches' /\ Sides(g) = {p, q}
    BY <1>2, <1>3, <1>4
  <2>2. \A y \in matches' : Sides(y) = {p, q} => y = g
    BY <1>2, <1>3, <1>4
  <2> QED BY <2>1, <2>2
<1>5. CASE x # m
  <2>1. Sides(g) # {p, q}
    BY <1>2, <1>5
  <2> QED BY <1>2, <1>3, <1>5, <2>1
<1> QED BY <1>4, <1>5

(* A step that rewrites at most one row, and what one request does next.   *)
LEMMA FullDrawStays ==
    ASSUME FullDraw, DrawInv, field.system = "ROUND_ROBIN", extra = {}, UNCHANGED <<field, extra>>,
           NEW r \in Request, NEW j, job' = [job EXCEPT ![r] = j],
           j.op \notin {"Pair", "Cut", "Open", "Seat", "Bye"},
           \/ UNCHANGED matches
           \/ \E m \in matches : \E g : Replace(m, g) /\ Sides(g) = Sides(m) /\ g.phase = m.phase
    PROVE  FullDraw'
<1>1. \A q \in Request : job'[q].op \notin {"Pair", "Cut", "Open", "Seat", "Bye"}
  BY DEF FullDraw, DrawInv
<1>2. CASE UNCHANGED matches
  <2>1. Player' = Player
    BY DEF Player
  <2> QED BY <1>1, <1>2, <2>1 DEF FullDraw, MeetOnce
<1>3. CASE \E m \in matches : \E g : Replace(m, g) /\ Sides(g) = Sides(m) /\ g.phase = m.phase
  <2> PICK m \in matches : \E g : Replace(m, g) /\ Sides(g) = Sides(m) /\ g.phase = m.phase
    BY <1>3
  <2>1. PICK g : Replace(m, g) /\ Sides(g) = Sides(m) /\ g.phase = m.phase
    OBVIOUS
  <2>2. MeetOnce'
    BY <2>1, MeetStill DEF FullDraw
  <2>3. \A x \in matches' : x.phase = 1
    BY <2>1 DEF FullDraw, Replace
  <2> QED BY <1>1, <2>2, <2>3 DEF FullDraw
<1> QED BY <1>2, <1>3

LEMMA FullDrawNext ==
    ASSUME FullDraw, DrawInv, [Next]_vars
    PROVE  FullDraw'
<1>0. UNCHANGED field /\ (extra' = {} => extra = {})
  BY ExtraStays
<1> SUFFICES ASSUME field.system = "ROUND_ROBIN", extra = {}, extra' = {}
             PROVE  FullDraw'
  BY <1>0 DEF FullDraw
<1> DEFINE Off == {"Pair", "Cut", "Open", "Seat", "Bye"}
           Same == \/ UNCHANGED matches
                   \/ \E m \in matches : \E g : /\ Replace(m, g) /\ Sides(g) = Sides(m)
                                               /\ g.phase = m.phase
<1>1. ASSUME NEW r \in Request, NEW j, job' = [job EXCEPT ![r] = j], j.op \notin Off, Same
      PROVE  FullDraw'
  BY <1>0, <1>1, FullDrawStays
<1>2. DOMAIN job = Request /\ \A m \in matches : DOMAIN m = MatchRow
  BY DEF DrawInv
<1>3. \A r \in Request : job[r].op \notin Off /\ DOMAIN job[r] = JobRow
  BY DEF FullDraw, DrawInv, Draft
<1>4. ASSUME NEW r \in Request, NEW op, op \notin Off, Then(r, op), UNCHANGED matches
      PROVE  FullDraw'
  <2> PICK j : j = [job[r] EXCEPT !.op = op]
    OBVIOUS
  <2>1. job' = [job EXCEPT ![r] = j]
    BY <1>2, <1>4 DEF Then
  <2>2. j.op = op
    BY <1>3 DEF JobRow
  <2> QED BY <1>1, <1>4, <2>1, <2>2
<1>5. ASSUME NEW m \in matches, NEW d, NEW w, NEW x, NEW g, Replace(m, g),
             \/ g = [m EXCEPT !.done = d, !.winner = w, !.scored = x]
             \/ g = [m EXCEPT !.done = d, !.winner = w]
      PROVE  Same
  <2>1. Sides(g) = Sides(m) /\ g.phase = m.phase
    BY <1>2, <1>5 DEF Sides, MatchRow
  <2> QED BY <1>5, <2>1
<1> HIDE DEF Off, Same
<1>6. ASSUME NEW r \in Request, NEW m \in matches, NEW w, Report(r, m, w)
      PROVE  FullDraw'
  <2>1. PICK g : Replace(m, g) /\ g = [m EXCEPT !.done = TRUE, !.winner = w, !.scored = w # NoPlayer /\ ~m.bye]
    BY <1>6 DEF Report
  <2>2. PICK x : x = (w # NoPlayer /\ ~m.bye)
    OBVIOUS
  <2>3. Same
    BY <1>5, <2>1, <2>2
  <2>4. PICK j : j = [Job("Check", 0) EXCEPT !.todo = <<Name(m)>>]
    OBVIOUS
  <2>5. job' = [job EXCEPT ![r] = j] /\ j.op \notin Off
    BY <1>6, <2>4 DEF Report, Begins, Job, Off
  <2> QED BY <1>1, <2>3, <2>5
<1>7. ASSUME NEW r \in Request, NEW p \in Player, Forfeit(r, p)
      PROVE  FullDraw'
  <2>1. PICK open : job' = [job EXCEPT ![r] = [Job("Walkover", 0) EXCEPT !.p = p, !.open = open]]
    BY <1>7 DEF Forfeit, Begins
  <2>2. PICK j : j = [Job("Walkover", 0) EXCEPT !.p = p, !.open = open]
    OBVIOUS
  <2>3. j.op \notin Off
    BY <2>2 DEF Job, Off
  <2>4. Same
    BY <1>7 DEF Forfeit, rows, Same
  <2> QED BY <1>1, <2>1, <2>2, <2>3, <2>4
<1>8. ASSUME NEW r \in Request, ApplyTiebreakers(r)
      PROVE  FullDraw'
  <2>1. PICK p : job' = [job EXCEPT ![r] = [Job("Crown", 0) EXCEPT !.p = p]]
    BY <1>8 DEF ApplyTiebreakers, Begins
  <2>2. PICK j : j = [Job("Crown", 0) EXCEPT !.p = p]
    OBVIOUS
  <2>3. j.op \notin Off
    BY <2>2 DEF Job, Off
  <2>4. Same
    BY <1>8 DEF ApplyTiebreakers, rows, Same
  <2> QED BY <1>1, <2>1, <2>2, <2>3, <2>4
<1>9. ASSUME NEW r \in Request, ExtendRound(r)
      PROVE  FALSE
  BY <1>9 DEF ExtendRound
<1>10. ASSUME NEW r \in Request, NEW m \in matches, Reset(r, m)
       PROVE  FullDraw'
  <2>1. PICK g : Replace(m, g) /\ g = [m EXCEPT !.done = FALSE, !.winner = NoPlayer, !.scored = FALSE]
    BY <1>10 DEF Reset
  <2>2. Same
    BY <1>5, <2>1
  <2>3. PICK j : j = job[r]
    OBVIOUS
  <2>4. job' = [job EXCEPT ![r] = j] /\ j.op \notin Off
    BY <1>3, <1>10, <2>3 DEF Reset, DrawInv
  <2> QED BY <1>1, <2>2, <2>4
<1>11. ASSUME NEW r \in Request, Walkover(r)
       PROVE  FullDraw'
  <2>1. CASE job[r].open = {}
    <3>1. PICK j : j = Idle
      OBVIOUS
    <3>2. job' = [job EXCEPT ![r] = j] /\ UNCHANGED matches /\ j.op \notin Off
      BY <1>11, <2>1, <3>1 DEF Walkover, Fails, Idle, Job, Off
    <3> QED BY <1>1, <3>2 DEF Same
  <2>2. CASE job[r].open # {}
    <3> PICK k \in job[r].open : \E m \in matches :
            IF m.done THEN job' = [job EXCEPT ![r].open = @ \ {k}] /\ UNCHANGED matches
            ELSE /\ Replace(m, [m EXCEPT !.done = TRUE, !.winner = Opponent(m, job[r].p)])
                 /\ job' = [job EXCEPT ![r].open = @ \ {k}, ![r].op = "Check", ![r].todo = <<k>>]
      BY <1>11, <2>2 DEF Walkover, Named
    <3>1. PICK m \in matches :
            IF m.done THEN job' = [job EXCEPT ![r].open = @ \ {k}] /\ UNCHANGED matches
            ELSE /\ Replace(m, [m EXCEPT !.done = TRUE, !.winner = Opponent(m, job[r].p)])
                 /\ job' = [job EXCEPT ![r].open = @ \ {k}, ![r].op = "Check", ![r].todo = <<k>>]
      OBVIOUS
    <3>2. CASE m.done
      <4>1. PICK j : j = [job[r] EXCEPT !.open = @ \ {k}]
        OBVIOUS
      <4>2. job' = [job EXCEPT ![r] = j] /\ UNCHANGED matches /\ j.op = job[r].op
        BY <1>2, <1>3, <3>1, <3>2, <4>1 DEF JobRow
      <4> QED BY <1>1, <1>3, <4>2 DEF Same
    <3>3. CASE ~m.done
      <4>1. PICK j : j = [job[r] EXCEPT !.open = @ \ {k}, !.op = "Check", !.todo = <<k>>]
        OBVIOUS
      <4>2. job' = [job EXCEPT ![r] = j] /\ j.op = "Check"
        BY <1>2, <1>3, <3>1, <3>3, <4>1 DEF JobRow
      <4>3. PICK w, g : Replace(m, g) /\ g = [m EXCEPT !.done = TRUE, !.winner = w]
        BY <3>1, <3>3
      <4>4. Same
        BY <1>5, <4>3
      <4> QED BY <1>1, <4>2, <4>4 DEF Off
    <3> QED BY <3>2, <3>3
  <2> QED BY <2>1, <2>2
<1>12. ASSUME NEW r \in Request, Check(r)
       PROVE  FullDraw'
  <2>1. UNCHANGED matches
    BY <1>12 DEF Check, rows
  <2>2. CASE job[r].todo = <<>>
    BY <1>4, <1>12, <2>1, <2>2 DEF Check, Off
  <2>3. CASE job[r].todo # <<>>
    <3>1. PICK m \in matches :
            LET i   == [job[r] EXCEPT !.todo = Tail(@), !.n = m.n + 1, !.phase = 1]
                won == {g.winner : g \in RoundOf(m.n)} \ {NoPlayer}
                go(op) == job' = [job EXCEPT ![r] = [i EXCEPT !.op = op]]
            IN  IF ~Over(m) THEN go("Check")
                ELSE IF m.phase = 2
                THEN IF won = {} THEN go("Check")
                     ELSE job' = [job EXCEPT ![r] =
                                     [i EXCEPT !.op = "Crown", !.p = Max(won)]]
                ELSE IF field.system # "ROUND_ROBIN" /\ m.n < field.rounds THEN go("Pair")
                ELSE go(IF field.system = "HYBRID" THEN "Cut" ELSE "Final")
      BY <1>12, <2>3 DEF Check, Named
    <3>2. PICK i : i = [job[r] EXCEPT !.todo = Tail(@), !.n = m.n + 1, !.phase = 1]
      OBVIOUS
    <3>3. DOMAIN i = JobRow
      BY <1>3, <3>2
    <3>4. PICK p : \/ \E op \in {"Check", "Final"} : job' = [job EXCEPT ![r] = [i EXCEPT !.op = op]]
                   \/ job' = [job EXCEPT ![r] = [i EXCEPT !.op = "Crown", !.p = p]]
      <4>1. PICK won : won = {g.winner : g \in RoundOf(m.n)} \ {NoPlayer}
        OBVIOUS
      <4>2. PICK p : p = Max(won)
        OBVIOUS
      <4> QED BY <3>1, <3>2, <4>1, <4>2
    <3>5. PICK j : /\ job' = [job EXCEPT ![r] = j]
                   /\ \/ \E op \in {"Check", "Final"} : j = [i EXCEPT !.op = op]
                      \/ j = [i EXCEPT !.op = "Crown", !.p = p]
      BY <3>4
    <3>6. j.op \in {"Check", "Final", "Crown"}
      BY <3>3, <3>5 DEF JobRow
    <3> QED BY <1>1, <2>1, <3>5, <3>6 DEF Same, Off
  <2> QED BY <2>2, <2>3
<1>13. ASSUME NEW r \in Request, Final(r)
       PROVE  FullDraw'
  <2>1. UNCHANGED matches
    BY <1>13 DEF Final, rows
  <2>2. CASE TiedOnTop(matches, Player)
    BY <1>4, <1>13, <2>1, <2>2 DEF Final, Off
  <2>3. CASE ~TiedOnTop(matches, Player)
    <3>1. PICK p : job' = [job EXCEPT ![r].op = "Crown", ![r].p = p]
      BY <1>13, <2>3 DEF Final
    <3>2. PICK j : j = [job[r] EXCEPT !.op = "Crown", !.p = p]
      OBVIOUS
    <3>3. job' = [job EXCEPT ![r] = j] /\ j.op = "Crown"
      BY <1>2, <1>3, <3>1, <3>2 DEF JobRow
    <3> QED BY <1>1, <2>1, <3>3 DEF Same, Off
  <2> QED BY <2>2, <2>3
<1>14. ASSUME NEW r \in Request, Crown(r) \/ Complete(r)
       PROVE  FullDraw'
  BY <1>4, <1>14 DEF Crown, Complete, rows, Off
<1>15. ASSUME NEW r \in Request, Pair(r) \/ Cut(r) \/ Open(r) \/ Seat(r) \/ Bye(r)
       PROVE  FALSE
  BY <1>3, <1>15 DEF Pair, Cut, Open, Seat, Bye, Runs, Off
<1>16. CASE UNCHANGED vars
  <2>1. UNCHANGED <<field, matches, job, extra>>
    BY <1>16 DEF vars, rows
  <2> QED BY <2>1 DEF FullDraw, MeetOnce, Player
<1> QED BY <1>6, <1>7, <1>8, <1>9, <1>10, <1>11, <1>12, <1>13, <1>14, <1>15, <1>16
        DEF Next, Played, Statement

(* In a round robin tournament of any size without extra rounds every pair *)
(* of players is drawn exactly once: the circle method meets all pairs     *)
(* (formats.service.ts 989-1040), and nothing that happens afterwards adds,*)
(* drops or reseats a match.  (FullDraw says so of any number of requests, *)
(* whoever was forfeited, which FreshOpponents does not ask.)              *)
THEOREM EveryPairOnce == Spec => [](field.system = "ROUND_ROBIN" => FreshOpponents)
<1> DEFINE Inv == DrawInv /\ FullDraw
           Goal == field.system = "ROUND_ROBIN" => FreshOpponents
<1>1. Init => Inv
  BY DrawInit, FullDrawInit
<1>2. Inv /\ [Next]_vars => Inv'
  BY DrawNext, FullDrawNext
<1>3. Inv => Goal
  <2> SUFFICES ASSUME Inv, field.system = "ROUND_ROBIN", extra = {},
                      NEW p \in Player, NEW q \in Player, p < q
               PROVE  Cardinality({m \in matches : m.phase = 1 /\ Sides(m) = {p, q}}) = 1
    BY DEF FreshOpponents
  <2>1. PICK m \in matches : Sides(m) = {p, q} /\ \A g \in matches : Sides(g) = {p, q} => g = m
    BY DEF FullDraw, MeetOnce
  <2>2. {g \in matches : g.phase = 1 /\ Sides(g) = {p, q}} = {m}
    BY <2>1 DEF FullDraw
  <2> QED BY <2>2, FS_Singleton
<1> HIDE DEF Inv, Goal
<1>4. Spec => []Goal
  BY <1>1, <1>2, <1>3, PTL DEF Spec
<1> QED BY <1>4 DEF Goal
=============================================================================
