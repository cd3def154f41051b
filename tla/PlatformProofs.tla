--------------------------- MODULE PlatformProofs ---------------------------
(***************************************************************************)
(* Theorems about the parts of the platform: drawing a bracket,            *)
(* countdowns, backups and signing in.                                     *)
(***************************************************************************)
EXTENDS Platform, Sequences, FiniteSetTheorems, WellFoundedInduction, TLAPS

(***************************************************************************)
(* Drawing a bracket                                                       *)
(***************************************************************************)

LEMMA Least ==
    ASSUME NEW S, S \subseteq Nat, S # {}
    PROVE  \E x \in S : \A y \in S : x <= y
<1> DEFINE R == OpToRel(<, Nat)
<1>1. \E x \in S : \A y \in S : <<y, x>> \notin R
  BY NatLessThanWellFounded, WFMin
<1>2. \A x, y \in S : <<y, x>> \notin R => x <= y
  BY DEF OpToRel
<1> HIDE DEF R
<1> QED BY <1>1, <1>2

LEMMA Induct ==
    ASSUME NEW P, 0 \in P, \A k \in Nat : k \in P => k + 1 \in P
    PROVE  \A k \in Nat : k \in P
<1> SUFFICES ASSUME NEW k \in Nat, k \notin P
             PROVE  FALSE
  OBVIOUS
<1> DEFINE Q == {i \in Nat : i \notin P}
<1>1. PICK i \in Q : \A j \in Q : i <= j
  BY Least
<1>2. i # 0 /\ i - 1 \in Nat
  BY <1>1
<1>3. i - 1 \in P
  BY <1>1, <1>2
<1> QED BY <1>1, <1>2, <1>3

---------------------------------------------------------------------------
(* The powers of two: 2^k is the number of subsets of k things, and a      *)
(* further thing is in half of them.                                       *)
LEMMA Subsets ==
    ASSUME NEW S, IsFiniteSet(S), NEW x, x \notin S
    PROVE  Cardinality(SUBSET (S \cup {x})) = 2 * Cardinality(SUBSET S)
<1> DEFINE T == SUBSET S
           U == {t \cup {x} : t \in T}
<1>1. IsFiniteSet(T) /\ Cardinality(T) \in Nat
  BY FS_SUBSET, FS_CardinalityType
<1>2. SUBSET (S \cup {x}) = T \cup U
  <2>1. ASSUME NEW t \in SUBSET (S \cup {x})
        PROVE  t \in T \cup U
    <3>1. CASE x \in t
      <4>1. t = (t \ {x}) \cup {x} /\ t \ {x} \in T
        BY <3>1
      <4> QED BY <4>1
    <3>2. CASE x \notin t
      BY <3>2
    <3> QED BY <3>1, <3>2
  <2> QED BY <2>1
<1>3. T \cap U = {}
  OBVIOUS
<1>4. ExistsBijection(T, U)
  <2> DEFINE f == [t \in T |-> t \cup {x}]
  <2>1. \A s, t \in T : f[s] = f[t] => s = t
    <3> SUFFICES ASSUME NEW s \in T, NEW t \in T, s \cup {x} = t \cup {x}
                 PROVE  s = t
      OBVIOUS
    <3>1. s = (s \cup {x}) \ {x} /\ t = (t \cup {x}) \ {x}
      OBVIOUS
    <3> QED BY <3>1
  <2>2. f \in [T -> U] /\ \A u \in U : \E t \in T : f[t] = u
    OBVIOUS
  <2> HIDE DEF f, T, U
  <2>3. f \in Injection(T, U)
    BY <2>1, <2>2 DEF Injection, IsInjective
  <2>4. f \in Surjection(T, U)
    BY <2>2 DEF Surjection
  <2> QED BY <2>3, <2>4 DEF ExistsBijection, Bijection
<1> HIDE DEF T, U
<1>5. IsFiniteSet(U) /\ Cardinality(U) = Cardinality(T)
  BY <1>1, <1>4, FS_Bijection, FS_SameCardinalityBij
<1>6. Cardinality(T \cup U) = Cardinality(T) + Cardinality(U) - Cardinality(T \cap U)
  BY <1>1, <1>5, FS_Union
<1>7. Cardinality(T \cap U) = 0
  BY <1>3, FS_EmptySet
<1>8. Cardinality(T \cup U) = 2 * Cardinality(T)
  BY <1>1, <1>5, <1>6, <1>7
<1> QED BY <1>2, <1>8 DEF T

LEMMA Powers ==
    /\ 2^0 = 1
    /\ \A k \in Nat : 2^k \in Nat /\ 2^k > 0 /\ 2^(k + 1) = 2 * 2^k
<1>1. \A k \in Nat : /\ IsFiniteSet(1..k) /\ Cardinality(1..k) = k
                     /\ Cardinality(SUBSET (1..k)) = 2^k /\ 2^k \in Nat
  <2> SUFFICES ASSUME NEW k \in Nat
               PROVE  /\ IsFiniteSet(1..k) /\ Cardinality(1..k) = k
                      /\ Cardinality(SUBSET (1..k)) = 2^k /\ 2^k \in Nat
    OBVIOUS
  <2>1. IsFiniteSet(1..k) /\ Cardinality(1..k) = k
    BY FS_Interval
  <2>2. Cardinality(SUBSET (1..k)) = 2^k /\ IsFiniteSet(SUBSET (1..k))
    BY <2>1, FS_SUBSET
  <2> QED BY <2>1, <2>2, FS_CardinalityType
<1>2. ASSUME NEW k \in Nat
      PROVE  2^(k + 1) = 2 * 2^k
  <2>1. (1..k) \cup {k + 1} = 1..(k + 1) /\ k + 1 \notin 1..k
    OBVIOUS
  <2>2. Cardinality(SUBSET (1..(k + 1))) = 2 * Cardinality(SUBSET (1..k))
    BY <1>1, <2>1, Subsets
  <2> QED BY <1>1, <2>2
<1>3. 2^0 = 1
  <2>1. 1..0 = {} /\ SUBSET {} = {{}}
    OBVIOUS
  <2>2. Cardinality({{}}) = 1
    BY FS_Singleton
  <2> QED BY <1>1, <2>1, <2>2
<1>4. \A k \in Nat : 2^k > 0
  <2> DEFINE P == {k \in Nat : 2^k > 0}
  <2>1. 0 \in P
    BY <1>3
  <2>2. \A k \in Nat : k \in P => k + 1 \in P
    BY <1>1, <1>2
  <2> HIDE DEF P
  <2>3. \A k \in Nat : k \in P
    BY <2>1, <2>2, Induct
  <2> QED BY <2>3 DEF P
<1> QED BY <1>1, <1>2, <1>3, <1>4

LEMMA DivideProduct ==
    ASSUME NEW x \in Nat, x > 0, NEW y \in Nat
    PROVE  (x * y) \div x = y
OBVIOUS

LEMMA DivideTwice ==
    ASSUME NEW x \in Nat, NEW b \in Nat, b > 0
    PROVE  (2 * x) \div (2 * b) = x \div b /\ x \div b \in Nat
OBVIOUS

---------------------------------------------------------------------------
(* Every seed is in the order once.                                        *)
Permuted(o) ==
    /\ o \in Seq(Nat) /\ Len(o) > 0
    /\ \A i \in 1..Len(o) : o[i] \in 1..Len(o)
    /\ \A i, j \in 1..Len(o) : o[i] = o[j] => i = j
    /\ \A s \in 1..Len(o) : \E i \in 1..Len(o) : o[i] = s

(* Adjacent seeds are complements.                                         *)
Facing(o) ==
    \A a \in Nat \ {0} : 2 * a <= Len(o) => o[2 * a - 1] + o[2 * a] = Len(o) + 1

LEMMA DoubledSteps ==
    ASSUME NEW o \in Seq(Nat), \A i \in 1..Len(o) : o[i] \in 1..Len(o)
    PROVE  /\ Draw!Doubled(o) \in Seq(Nat) /\ Len(Draw!Doubled(o)) = 2 * Len(o)
           /\ \A a \in 1..Len(o) : /\ Draw!Doubled(o)[2 * a - 1] = o[a]
                                   /\ Draw!Doubled(o)[2 * a] = 2 * Len(o) + 1 - o[a]
<1> PICK L \in Nat : L = Len(o)
  OBVIOUS
<1> PICK d : d = Draw!Doubled(o)
  OBVIOUS
<1>1. d = [i \in 1..2 * L |-> IF i % 2 = 1 THEN o[(i + 1) \div 2] ELSE 2 * L + 1 - o[i \div 2]]
  BY DEF Draw!Doubled
<1>2. ASSUME NEW a \in 1..L
      PROVE  d[2 * a - 1] = o[a] /\ d[2 * a] = 2 * L + 1 - o[a]
  <2>1. /\ 2 * a - 1 \in 1..2 * L /\ (2 * a - 1) % 2 = 1 /\ ((2 * a - 1) + 1) \div 2 = a
        /\ 2 * a \in 1..2 * L /\ (2 * a) % 2 # 1 /\ (2 * a) \div 2 = a
    OBVIOUS
  <2> QED BY <1>1, <2>1
<1>3. \A i \in 1..2 * L : \E a \in 1..L : i = 2 * a - 1 \/ i = 2 * a
  <2> SUFFICES ASSUME NEW i \in 1..2 * L
               PROVE  \E a \in 1..L : i = 2 * a - 1 \/ i = 2 * a
    OBVIOUS
  <2>1. (i + 1) \div 2 \in 1..L /\ (i = 2 * ((i + 1) \div 2) - 1 \/ i = 2 * ((i + 1) \div 2))
    OBVIOUS
  <2> QED BY <2>1
<1>4. \A i \in 1..2 * L : d[i] \in Nat
  <2> SUFFICES ASSUME NEW i \in 1..2 * L
               PROVE  d[i] \in Nat
    OBVIOUS
  <2>1. PICK a \in 1..L : i = 2 * a - 1 \/ i = 2 * a
    BY <1>3
  <2>2. o[a] \in Nat /\ 2 * L + 1 - o[a] \in Nat
    <3>1. o[a] \in 1..L
      OBVIOUS
    <3> QED BY <3>1
  <2> QED BY <1>2, <2>1, <2>2
<1>5. d \in [1..2 * L -> Nat]
  BY <1>1, <1>4
<1>6. d \in Seq(Nat) /\ Len(d) = 2 * L
  BY <1>5
<1> QED BY <1>2, <1>6

LEMMA Halves ==
    ASSUME NEW L \in Nat, NEW i \in 1..2 * L
    PROVE  \E a \in 1..L : i = 2 * a - 1 \/ i = 2 * a
<1>1. (i + 1) \div 2 \in 1..L /\ (i = 2 * ((i + 1) \div 2) - 1 \/ i = 2 * ((i + 1) \div 2))
  OBVIOUS
<1> QED BY <1>1

LEMMA DoubledPermuted ==
    ASSUME NEW o, Permuted(o)
    PROVE  Permuted(Draw!Doubled(o)) /\ Facing(Draw!Doubled(o))
<1> PICK L \in Nat \ {0} : L = Len(o)
  BY DEF Permuted
<1> PICK d : d = Draw!Doubled(o)
  OBVIOUS
<1>1. d \in Seq(Nat) /\ Len(d) = 2 * L
  BY DoubledSteps DEF Permuted
<1>2. \A a \in 1..L : d[2 * a - 1] = o[a] /\ d[2 * a] = 2 * L + 1 - o[a]
  BY DoubledSteps DEF Permuted
<1>3. \A a \in 1..L : o[a] \in 1..L /\ \A b \in 1..L : o[a] = o[b] => a = b
  BY DEF Permuted
<1>4. ASSUME NEW i \in 1..2 * L
      PROVE  d[i] \in 1..2 * L
  <2> PICK a \in 1..L : i = 2 * a - 1 \/ i = 2 * a
    BY Halves
  <2>1. o[a] \in 1..L /\ d[2 * a - 1] = o[a] /\ d[2 * a] = 2 * L + 1 - o[a]
    BY <1>2, <1>3
  <2> PICK x \in 1..L : x = o[a]
    BY <2>1
  <2>2. x \in 1..2 * L /\ 2 * L + 1 - x \in 1..2 * L
    OBVIOUS
  <2> QED BY <2>1, <2>2
<1>5. ASSUME NEW i \in 1..2 * L, NEW j \in 1..2 * L, d[i] = d[j]
      PROVE  i = j
  <2> PICK a \in 1..L : i = 2 * a - 1 \/ i = 2 * a
    BY Halves
  <2> PICK b \in 1..L : j = 2 * b - 1 \/ j = 2 * b
    BY Halves
  <2>1. o[a] \in 1..L /\ o[b] \in 1..L /\ (o[a] = o[b] => a = b)
    BY <1>3
  <2>2. d[2 * a - 1] = o[a] /\ d[2 * a] = 2 * L + 1 - o[a]
        /\ d[2 * b - 1] = o[b] /\ d[2 * b] = 2 * L + 1 - o[b]
    BY <1>2
  <2> PICK x \in 1..L : x = o[a]
    BY <2>1
  <2> PICK y \in 1..L : y = o[b]
    BY <2>1
  <2>3. x # 2 * L + 1 - y /\ y # 2 * L + 1 - x /\ (2 * L + 1 - x = 2 * L + 1 - y => x = y)
    OBVIOUS
  <2>4. CASE i = 2 * a - 1 /\ j = 2 * b - 1
    BY <1>5, <2>1, <2>2, <2>4
  <2>5. CASE i = 2 * a - 1 /\ j = 2 * b
    BY <1>5, <2>2, <2>3, <2>5
  <2>6. CASE i = 2 * a /\ j = 2 * b - 1
    BY <1>5, <2>2, <2>3, <2>6
  <2>7. CASE i = 2 * a /\ j = 2 * b
    BY <1>5, <2>1, <2>2, <2>3, <2>7
  <2> QED BY <2>4, <2>5, <2>6, <2>7
<1>6. ASSUME NEW s \in 1..2 * L
      PROVE  \E i \in 1..2 * L : d[i] = s
  <2>1. CASE s \in 1..L
    <3>1. PICK a \in 1..L : o[a] = s
      BY <2>1 DEF Permuted
    <3> QED BY <1>2, <3>1
  <2>2. CASE s \notin 1..L
    <3>1. 2 * L + 1 - s \in 1..L
      BY <2>2
    <3>2. PICK a \in 1..L : o[a] = 2 * L + 1 - s
      BY <3>1 DEF Permuted
    <3>3. d[2 * a] = s /\ 2 * a \in 1..2 * L
      BY <1>2, <3>2
    <3> QED BY <3>3
  <2> QED BY <2>1, <2>2
<1>7. Permuted(d)
  BY <1>1, <1>4, <1>5, <1>6 DEF Permuted
<1>8. Facing(d)
  <2> SUFFICES ASSUME NEW a \in Nat \ {0}, 2 * a <= 2 * L
               PROVE  d[2 * a - 1] + d[2 * a] = 2 * L + 1
    BY <1>1 DEF Facing
  <2>1. a \in 1..L
    OBVIOUS
  <2> QED BY <1>2, <1>3, <2>1
<1> QED BY <1>7, <1>8

---------------------------------------------------------------------------
(* standardSeedOrder, step by step.                                        *)
LEMMA SeedOrderSteps ==
    /\ Draw!SeedOrder[0] = <<1>>
    /\ \A k \in Nat : Draw!SeedOrder[k + 1] = Draw!Doubled(Draw!SeedOrder[k])
<1> DEFINE G(f, k) == f = [j \in 0..k |-> IF j = 0 THEN <<1>> ELSE Draw!Doubled(f[j - 1])]
           P == {k \in Nat : \E f : G(f, k)}
<1>1. 0 \in P
  <2>1. G([j \in 0..0 |-> <<1>>], 0)
    OBVIOUS
  <2> QED BY <2>1
<1>2. ASSUME NEW k \in Nat, k \in P
      PROVE  k + 1 \in P
  <2>1. PICK f : G(f, k)
    BY <1>2
  <2> DEFINE g == [j \in 0..(k + 1) |-> IF j = k + 1 THEN Draw!Doubled(f[k]) ELSE f[j]]
  <2>2. ASSUME NEW j \in 0..(k + 1)
        PROVE  g[j] = IF j = 0 THEN <<1>> ELSE Draw!Doubled(g[j - 1])
    <3>1. CASE j = 0
      BY <2>1, <3>1
    <3>2. CASE j = k + 1
      BY <3>2
    <3>3. CASE j # 0 /\ j # k + 1
      <4>1. j \in 0..k /\ j - 1 \in 0..k /\ j - 1 # k + 1
        BY <3>3
      <4>2. f[j] = Draw!Doubled(f[j - 1])
        BY <2>1, <3>3, <4>1
      <4> QED BY <3>3, <4>1, <4>2
    <3> QED BY <3>1, <3>2, <3>3
  <2>3. DOMAIN g = 0..(k + 1) /\ g = [j \in 0..(k + 1) |-> g[j]]
    OBVIOUS
  <2> HIDE DEF g
  <2>4. g = [j \in 0..(k + 1) |-> IF j = 0 THEN <<1>> ELSE Draw!Doubled(g[j - 1])]
    BY <2>2, <2>3
  <2> QED BY <2>4
<1>3. \A k \in Nat : \E f : G(f, k)
  <2> HIDE DEF G
  <2>1. \A k \in Nat : k \in P
    <3> HIDE DEF P
    <3> QED BY <1>1, <1>2, Induct
  <2> QED BY <2>1
(* Two such functions agree where both are defined.                        *)
<1>4. ASSUME NEW f, NEW g, NEW k \in Nat, NEW l \in Nat, G(f, k), G(g, l), k <= l
      PROVE  \A j \in 0..k : f[j] = g[j]
  <2> DEFINE Q == {j \in Nat : j <= k => f[j] = g[j]}
  <2>1. 0 \in Q
    <3>1. f[0] = <<1>> /\ g[0] = <<1>>
      BY <1>4
    <3> QED BY <3>1
  <2>2. ASSUME NEW j \in Nat, j \in Q
        PROVE  j + 1 \in Q
    <3> SUFFICES ASSUME j + 1 <= k
                 PROVE  f[j + 1] = g[j + 1]
      OBVIOUS
    <3>1. j + 1 \in 0..k /\ j + 1 \in 0..l /\ j + 1 # 0 /\ (j + 1) - 1 = j
      BY <1>4
    <3>2. f[j + 1] = Draw!Doubled(f[(j + 1) - 1]) /\ g[j + 1] = Draw!Doubled(g[(j + 1) - 1])
      BY <1>4, <3>1
    <3>3. f[j] = g[j]
      BY <2>2
    <3> QED BY <3>1, <3>2, <3>3
  <2> HIDE DEF Q
  <2>3. \A j \in Nat : j \in Q
    BY <2>1, <2>2, Induct
  <2> QED BY <2>3 DEF Q
<1> DEFINE part(k) == CHOOSE f : G(f, k)
           seed == [k \in Nat |-> part(k)[k]]
<1>5. \A k \in Nat : G(part(k), k)
  <2> HIDE DEF G
  <2> QED BY <1>3
<1>6. seed[0] = <<1>> /\ \A k \in Nat : seed[k + 1] = Draw!Doubled(seed[k])
  <2>1. part(0)[0] = <<1>>
    <3>1. G(part(0), 0)
      BY <1>5
    <3> HIDE DEF part
    <3> QED BY <3>1
  <2>2. ASSUME NEW k \in Nat
        PROVE  part(k + 1)[k + 1] = Draw!Doubled(part(k)[k])
    <3>1. G(part(k + 1), k + 1) /\ G(part(k), k)
      <4>1. k + 1 \in Nat
        OBVIOUS
      <4> HIDE DEF G, part
      <4> QED BY <1>5, <4>1
    <3> HIDE DEF part
    <3>2. part(k + 1)[k + 1] = Draw!Doubled(part(k + 1)[(k + 1) - 1])
      BY <3>1
    <3>3. (k + 1) - 1 = k /\ k <= k + 1 /\ k \in 0..k /\ k + 1 \in Nat
      OBVIOUS
    <3>4. part(k + 1)[k] = part(k)[k]
      <4> HIDE DEF G
      <4> QED BY <1>4, <3>1, <3>3
    <3> QED BY <3>2, <3>3, <3>4
  <2> HIDE DEF part
  <2> QED BY <2>1, <2>2
<1> HIDE DEF part
<1>7. seed = [k \in Nat |-> IF k = 0 THEN <<1>> ELSE Draw!Doubled(seed[k - 1])]
  <2>1. \A k \in Nat : seed[k] = IF k = 0 THEN <<1>> ELSE Draw!Doubled(seed[k - 1])
    <3> SUFFICES ASSUME NEW k \in Nat, k # 0
                 PROVE  seed[k] = Draw!Doubled(seed[k - 1])
      BY <1>6
    <3>1. k - 1 \in Nat /\ (k - 1) + 1 = k
      OBVIOUS
    <3> HIDE DEF seed
    <3> QED BY <1>6, <3>1
  <2>2. seed = [k \in Nat |-> seed[k]]
    OBVIOUS
  <2> HIDE DEF seed
  <2> QED BY <2>1, <2>2
<1> HIDE DEF seed
<1>8. Draw!SeedOrder = CHOOSE f : f = [k \in Nat |-> IF k = 0 THEN <<1>> ELSE Draw!Doubled(f[k - 1])]
  BY DEF Draw!SeedOrder
<1>9. Draw!SeedOrder = [k \in Nat |-> IF k = 0 THEN <<1>> ELSE Draw!Doubled(Draw!SeedOrder[k - 1])]
  BY <1>7, <1>8
<1>10. ASSUME NEW k \in Nat
       PROVE  Draw!SeedOrder[k + 1] = Draw!Doubled(Draw!SeedOrder[k])
  <2>1. k + 1 \in Nat /\ k + 1 # 0 /\ (k + 1) - 1 = k
    OBVIOUS
  <2> QED BY <1>9, <2>1
<1> QED BY <1>9, <1>10

LEMMA SeedOrders ==
    ASSUME NEW k \in Nat
    PROVE  /\ Permuted(Draw!SeedOrder[k]) /\ Len(Draw!SeedOrder[k]) = 2^k
           /\ k > 0 => Facing(Draw!SeedOrder[k])
<1> DEFINE P == {l \in Nat : Permuted(Draw!SeedOrder[l]) /\ Len(Draw!SeedOrder[l]) = 2^l}
<1>1. 0 \in P
  <2>1. <<1>> \in Seq(Nat) /\ Len(<<1>>) = 1 /\ <<1>>[1] = 1 /\ 1..1 = {1}
    OBVIOUS
  <2>2. Permuted(<<1>>)
    BY <2>1 DEF Permuted
  <2> QED BY <2>1, <2>2, SeedOrderSteps, Powers
<1>2. ASSUME NEW l \in Nat, l \in P
      PROVE  l + 1 \in P /\ Facing(Draw!SeedOrder[l + 1])
  <2>1. Draw!SeedOrder[l + 1] = Draw!Doubled(Draw!SeedOrder[l])
    BY SeedOrderSteps
  <2>2. Permuted(Draw!Doubled(Draw!SeedOrder[l])) /\ Facing(Draw!Doubled(Draw!SeedOrder[l]))
    BY <1>2, DoubledPermuted
  <2>3. Len(Draw!Doubled(Draw!SeedOrder[l])) = 2 * 2^l
    BY <1>2, DoubledSteps DEF Permuted
  <2>4. 2^(l + 1) = 2 * 2^l
    BY Powers
  <2> QED BY <2>1, <2>2, <2>3, <2>4
<1>3. \A l \in Nat : l \in P
  <2> HIDE DEF P
  <2> QED BY <1>1, <1>2, Induct
<1>4. k > 0 => Facing(Draw!SeedOrder[k])
  <2> SUFFICES ASSUME k > 0
               PROVE  Facing(Draw!SeedOrder[k])
    OBVIOUS
  <2>1. k - 1 \in Nat /\ (k - 1) + 1 = k
    OBVIOUS
  <2> HIDE DEF P
  <2> QED BY <1>2, <1>3, <2>1
<1> QED BY <1>3, <1>4

---------------------------------------------------------------------------
LEMMA PowersGrow ==
    /\ \A k \in Nat : k < 2^k
    /\ \A j, k \in Nat : j <= k => 2^j <= 2^k
    /\ \A j, k \in Nat : j < k => 2^j < 2^k
    /\ \A j, k \in Nat : 2^(j + k) = 2^j * 2^k
<1>1. \A k \in Nat : k < 2^k
  <2> DEFINE P == {k \in Nat : k < 2^k}
  <2>1. 0 \in P
    BY Powers
  <2>2. \A k \in Nat : k \in P => k + 1 \in P
    BY Powers
  <2> HIDE DEF P
  <2>3. \A k \in Nat : k \in P
    BY <2>1, <2>2, Induct
  <2> QED BY <2>3 DEF P
<1>2. \A j, d \in Nat : 2^j <= 2^(j + d) /\ 2^(j + d) = 2^j * 2^d
  <2> SUFFICES ASSUME NEW j \in Nat
               PROVE  \A d \in Nat : 2^j <= 2^(j + d) /\ 2^(j + d) = 2^j * 2^d
    OBVIOUS
  <2> DEFINE P == {d \in Nat : 2^j <= 2^(j + d) /\ 2^(j + d) = 2^j * 2^d}
  <2> PICK x \in Nat : x = 2^j
    BY Powers
  <2>1. 0 \in P
    <3>1. j + 0 = j /\ x * 1 = x
      OBVIOUS
    <3> QED BY <3>1, Powers
  <2>2. ASSUME NEW d \in Nat, d \in P
        PROVE  d + 1 \in P
    <3> PICK y \in Nat : y = 2^(j + d)
      BY Powers
    <3> PICK z \in Nat : z = 2^d
      BY Powers
    <3>1. x <= y /\ y = x * z
      BY <2>2
    <3>2. j + (d + 1) = (j + d) + 1 /\ j + d \in Nat
      OBVIOUS
    <3>3. 2^(j + (d + 1)) = 2 * y /\ 2^(d + 1) = 2 * z
      BY <3>2, Powers
    <3>4. 2 * y = x * (2 * z) /\ x <= 2 * y
      BY <3>1
    <3> QED BY <3>3, <3>4
  <2> HIDE DEF P
  <2>3. \A d \in Nat : d \in P
    BY <2>1, <2>2, Induct
  <2> QED BY <2>3 DEF P
<1>3. ASSUME NEW j \in Nat, NEW k \in Nat, j <= k
      PROVE  2^j <= 2^k
  <2>1. k - j \in Nat /\ j + (k - j) = k
    BY <1>3
  <2> QED BY <1>2, <2>1
<1>4. ASSUME NEW j \in Nat, NEW k \in Nat, j < k
      PROVE  2^j < 2^k
  <2>1. j + 1 \in Nat /\ j + 1 <= k
    BY <1>4
  <2>2. 2^(j + 1) <= 2^k
    BY <1>3, <2>1
  <2>3. 2^(j + 1) = 2 * 2^j /\ 2^j \in Nat /\ 2^j > 0 /\ 2^k \in Nat
    BY Powers
  <2> QED BY <2>2, <2>3
<1> QED BY <1>1, <1>2, <1>3, <1>4

(* The exponent is the one number whose power holds the field and whose    *)
(* half does not.                                                          *)
LEMMA ExponentIs ==
    ASSUME NEW m \in Nat, m >= 2, NEW k \in Nat, 2^k >= m, k = 0 \/ 2^(k - 1) < m
    PROVE  Draw!Exponent(m) = k /\ k > 0
<1>1. k > 0 /\ k - 1 \in Nat /\ 2^(k - 1) < m
  <2>1. k # 0
    <3> SUFFICES ASSUME k = 0
                 PROVE  FALSE
      OBVIOUS
    <3>1. 2^k = 1
      BY ONLY k = 0, Powers
    <3> QED BY <3>1
  <2> QED BY <2>1
<1>2. k \in 0..m
  <2>1. k - 1 < 2^(k - 1) /\ 2^(k - 1) \in Nat
    BY <1>1, PowersGrow, Powers
  <2> QED BY <1>1, <2>1
<1>3. \A j \in 0..(k - 1) : 2^j < m
  <2> SUFFICES ASSUME NEW j \in 0..(k - 1)
               PROVE  2^j < m
    OBVIOUS
  <2>1. j \in Nat /\ k - 1 \in Nat /\ j <= k - 1
    BY <1>1
  <2>2. 2^j <= 2^(k - 1)
    BY <2>1, PowersGrow
  <2>3. 2^j \in Nat /\ 2^(k - 1) \in Nat
    BY <2>1, Powers
  <2> QED BY <1>1, <2>2, <2>3
<1>4. ASSUME NEW l \in 0..m, 2^l >= m, \A j \in 0..(l - 1) : 2^j < m
      PROVE  l = k
  <2>1. ~(l < k)
    <3> SUFFICES ASSUME l < k
                 PROVE  FALSE
      OBVIOUS
    <3>1. l \in 0..(k - 1) /\ 2^l \in Nat
      BY Powers
    <3> QED BY <1>3, <1>4, <3>1
  <2>2. ~(k < l)
    <3> SUFFICES ASSUME k < l
                 PROVE  FALSE
      OBVIOUS
    <3>1. k \in 0..(l - 1) /\ 2^k \in Nat
      BY Powers
    <3> QED BY <1>4, <3>1
  <2> QED BY <2>1, <2>2
<1> QED BY <1>1, <1>2, <1>3, <1>4 DEF Draw!Exponent

---------------------------------------------------------------------------
(* Round one of a field of m in an order of 2L seeds that face their       *)
(* complements: what the two slots of a match are.                         *)
Kept(s, m) == IF s <= m THEN s ELSE 0

LEMMA FirstPairs ==
    ASSUME NEW o, Permuted(o), NEW L \in Nat \ {0}, Len(o) = 2 * L, NEW m \in Nat
    PROVE  /\ Len(Draw!Slots(o, m)) = 2 * L
           /\ Draw!Slots(o, m) \in Seq(0..m)
           /\ \A i \in 1..2 * L : Draw!Slots(o, m)[i] = Kept(o[i], m)
           /\ Len(Draw!Pairs(Draw!Slots(o, m))) = L
           /\ DOMAIN Draw!Pairs(Draw!Slots(o, m)) = 1..L
<1> PICK w : w = Draw!Slots(o, m)
  OBVIOUS
<1> PICK p : p = Draw!Pairs(w)
  OBVIOUS
<1>1. w = [i \in 1..2 * L |-> Kept(o[i], m)]
  BY DEF Draw!Slots, Kept
<1>2. \A i \in 1..2 * L : Kept(o[i], m) \in 0..m
  BY DEF Kept, Permuted
<1>3. w \in [1..2 * L -> 0..m]
  BY <1>1, <1>2
<1>4. w \in Seq(0..m) /\ Len(w) = 2 * L
  BY <1>3
<1>5. (Len(w) + 1) \div 2 = L
  BY <1>4
<1>6. p = [i \in 1..L |-> <<w[2 * i - 1], IF 2 * i <= 2 * L THEN w[2 * i] ELSE 0>>]
  BY <1>4, <1>5 DEF Draw!Pairs
<1>7. Len(p) = L /\ DOMAIN p = 1..L
  BY <1>6
<1> QED BY <1>1, <1>4, <1>7

LEMMA PairAt ==
    ASSUME NEW o, NEW L \in Nat \ {0}, Len(o) = 2 * L, NEW m \in Nat, NEW i \in 1..L
    PROVE  /\ Draw!Pairs(Draw!Slots(o, m))[i][1] = Kept(o[2 * i - 1], m)
           /\ Draw!Pairs(Draw!Slots(o, m))[i][2] = Kept(o[2 * i], m)
<1> PICK w : w = Draw!Slots(o, m)
  OBVIOUS
<1>1. w = [j \in 1..2 * L |-> Kept(o[j], m)]
  BY DEF Draw!Slots, Kept
<1>2. Len(w) = 2 * L /\ (2 * L + 1) \div 2 = L
  BY <1>1
<1>3. Draw!Pairs(w)[i] = <<w[2 * i - 1], IF 2 * i <= 2 * L THEN w[2 * i] ELSE 0>>
  BY <1>2 DEF Draw!Pairs
<1>4. 2 * i - 1 \in 1..2 * L /\ 2 * i \in 1..2 * L /\ 2 * i <= 2 * L
  OBVIOUS
<1>5. w[2 * i - 1] = Kept(o[2 * i - 1], m) /\ w[2 * i] = Kept(o[2 * i], m)
  BY <1>1, <1>4
<1> QED BY <1>3, <1>4, <1>5

LEMMA PairFacing ==
    ASSUME NEW o, Facing(o), NEW L \in Nat, Len(o) = 2 * L, NEW i \in 1..L
    PROVE  o[2 * i - 1] + o[2 * i] = 2 * L + 1
<1>1. i \in Nat \ {0} /\ 2 * i <= 2 * L
  OBVIOUS
<1> QED BY <1>1 DEF Facing

SeatedOnce(p, s, byes) ==
    \E i \in 1..Len(p), c \in {1, 2} :
        /\ p[i][c] = s
        /\ \A j \in 1..Len(p), d \in {1, 2} : p[j][d] = s => <<j, d>> = <<i, c>>
        /\ (p[i][3 - c] = 0) <=> (s <= byes)

(* Every seed of the field is in round one once, and its opponent's slot   *)
(* is empty when its complement is outside the field.                      *)
LEMMA FieldSeated ==
    ASSUME NEW o, Permuted(o), Facing(o), NEW L \in Nat \ {0}, Len(o) = 2 * L, NEW m \in Nat,
           NEW s \in 1..m, m <= 2 * L
    PROVE  SeatedOnce(Draw!Pairs(Draw!Slots(o, m)), s, 2 * L - m)
<1> PICK p : p = Draw!Pairs(Draw!Slots(o, m))
  OBVIOUS
<1>1. Len(p) = L
  BY FirstPairs
<1>2. \A j \in 1..L : 2 * j - 1 \in 1..2 * L /\ 2 * j \in 1..2 * L
  OBVIOUS
<1>3. \A j \in 1..L : p[j][1] = Kept(o[2 * j - 1], m) /\ p[j][2] = Kept(o[2 * j], m)
  BY PairAt
<1>4. PICK a \in 1..2 * L : o[a] = s
  <2>1. s \in 1..2 * L /\ 2 * L = Len(o)
    OBVIOUS
  <2> QED BY <2>1 DEF Permuted
<1>5. PICK i \in 1..L : a = 2 * i - 1 \/ a = 2 * i
  BY Halves
<1>6. \A x \in 1..2 * L : o[x] \in 1..2 * L /\ (Kept(o[x], m) = s => x = a)
  <2> SUFFICES ASSUME NEW x \in 1..2 * L
               PROVE  o[x] \in 1..2 * L /\ (Kept(o[x], m) = s => x = a)
    OBVIOUS
  <2>1. o[x] \in 1..2 * L /\ (o[x] = o[a] => x = a)
    BY DEF Permuted
  <2> QED BY <1>4, <2>1 DEF Kept
<1>7. o[2 * i - 1] + o[2 * i] = 2 * L + 1 /\ o[2 * i - 1] \in 1..2 * L /\ o[2 * i] \in 1..2 * L
  BY <1>2, <1>6, PairFacing
<1>8. Kept(s, m) = s
  BY DEF Kept
<1>9. \A j \in 1..L : /\ p[j][1] = s => 2 * j - 1 = a
                      /\ p[j][2] = s => 2 * j = a
  BY <1>2, <1>3, <1>6
<1>10. CASE a = 2 * i - 1
  <2>1. p[i][1] = s /\ p[i][2] = Kept(o[2 * i], m)
    BY <1>3, <1>4, <1>8, <1>10
  <2>2. o[2 * i] = 2 * L + 1 - s
    BY <1>4, <1>7, <1>10
  <2>3. p[i][2] = 0 <=> s <= 2 * L - m
    BY <1>7, <2>1, <2>2 DEF Kept
  <2>4. ASSUME NEW j \in 1..L, NEW d \in {1, 2}, p[j][d] = s
        PROVE  j = i /\ d = 1
    BY <1>9, <1>10, <2>4
  <2>5. 3 - 1 = 2
    OBVIOUS
  <2> QED BY <1>1, <2>1, <2>3, <2>4, <2>5 DEF SeatedOnce
<1>11. CASE a = 2 * i
  <2>1. p[i][2] = s /\ p[i][1] = Kept(o[2 * i - 1], m)
    BY <1>3, <1>4, <1>8, <1>11
  <2>2. o[2 * i - 1] = 2 * L + 1 - s
    BY <1>4, <1>7, <1>11
  <2>3. p[i][1] = 0 <=> s <= 2 * L - m
    BY <1>7, <2>1, <2>2 DEF Kept
  <2>4. ASSUME NEW j \in 1..L, NEW d \in {1, 2}, p[j][d] = s
        PROVE  j = i /\ d = 2
    BY <1>9, <1>11, <2>4
  <2>5. 3 - 2 = 1
    OBVIOUS
  <2> QED BY <1>1, <2>1, <2>3, <2>4, <2>5 DEF SeatedOnce
<1> QED BY <1>5, <1>10, <1>11

(* No two slots of a match are empty when the field fills more than half.  *)
LEMMA NoEmptyPair ==
    ASSUME NEW o, Permuted(o), Facing(o), NEW L \in Nat \ {0}, Len(o) = 2 * L, NEW m \in Nat,
           L < m, NEW i \in 1..L
    PROVE  Draw!Pairs(Draw!Slots(o, m))[i] # <<0, 0>>
<1> PICK p : p = Draw!Pairs(Draw!Slots(o, m))
  OBVIOUS
<1>1. 2 * i - 1 \in 1..2 * L /\ 2 * i \in 1..2 * L
  OBVIOUS
<1>4. \A j \in 1..L : p[j][1] = Kept(o[2 * j - 1], m) /\ p[j][2] = Kept(o[2 * j], m)
  BY PairAt
<1>2. o[2 * i - 1] + o[2 * i] = 2 * L + 1 /\ o[2 * i - 1] \in 1..2 * L /\ o[2 * i] \in 1..2 * L
  <2>1. \A x \in 1..2 * L : o[x] \in 1..2 * L
    BY DEF Permuted
  <2> QED BY <1>1, <2>1, PairFacing
<1>3. Kept(o[2 * i - 1], m) # 0 \/ Kept(o[2 * i], m) # 0
  BY <1>2 DEF Kept
<1>5. p[i][1] # 0 \/ p[i][2] # 0
  BY <1>3, <1>4
<1> QED BY <1>5

---------------------------------------------------------------------------
(* Two seeds up to t stand in different blocks of B slots.                 *)
Apart(o, t, B) ==
    \A a, b \in 1..Len(o) :
        a # b /\ o[a] <= t /\ o[b] <= t => (a - 1) \div B # (b - 1) \div B

(* Doubling leaves the old seeds where they were, in blocks twice as long. *)
LEMMA ApartDoubled ==
    ASSUME NEW o, Permuted(o), NEW t \in Nat, t <= Len(o), NEW B \in Nat, B > 0, Apart(o, t, B)
    PROVE  Apart(Draw!Doubled(o), t, 2 * B)
<1> PICK L \in Nat \ {0} : L = Len(o)
  BY DEF Permuted
<1> PICK d : d = Draw!Doubled(o)
  OBVIOUS
<1>1. Len(d) = 2 * L
  BY DoubledSteps DEF Permuted
<1>2. \A a \in 1..L : d[2 * a - 1] = o[a] /\ d[2 * a] = 2 * L + 1 - o[a]
  BY DoubledSteps DEF Permuted
<1>3. \A a \in 1..L : o[a] \in 1..L
  BY DEF Permuted
<1>4. ASSUME NEW i \in 1..2 * L, d[i] <= t
      PROVE  \E a \in 1..L : i = 2 * a - 1 /\ o[a] <= t
  <2> PICK a \in 1..L : i = 2 * a - 1 \/ i = 2 * a
    BY Halves
  <2>1. o[a] \in 1..L /\ d[2 * a - 1] = o[a] /\ d[2 * a] = 2 * L + 1 - o[a]
    BY <1>2, <1>3
  <2>2. i # 2 * a
    <3> SUFFICES ASSUME i = 2 * a
                 PROVE  FALSE
      OBVIOUS
    <3>1. d[i] = 2 * L + 1 - o[a]
      BY <2>1
    <3> QED BY <1>4, <2>1, <3>1
  <2>3. d[i] = o[a]
    BY <2>1, <2>2
  <2> QED BY <1>4, <2>2, <2>3
<1>5. ASSUME NEW i \in 1..2 * L, NEW j \in 1..2 * L, i # j, d[i] <= t, d[j] <= t
      PROVE  (i - 1) \div (2 * B) # (j - 1) \div (2 * B)
  <2> PICK a \in 1..L : i = 2 * a - 1 /\ o[a] <= t
    BY <1>4, <1>5
  <2> PICK b \in 1..L : j = 2 * b - 1 /\ o[b] <= t
    BY <1>4, <1>5
  <2>1. (a - 1) \div B # (b - 1) \div B
    BY <1>5 DEF Apart
  <2>2. i - 1 = 2 * (a - 1) /\ j - 1 = 2 * (b - 1) /\ a - 1 \in Nat /\ b - 1 \in Nat
    OBVIOUS
  <2>3. (2 * (a - 1)) \div (2 * B) = (a - 1) \div B /\ (2 * (b - 1)) \div (2 * B) = (b - 1) \div B
    BY <2>2, DivideTwice
  <2> QED BY <2>1, <2>2, <2>3
<1> QED BY <1>1, <1>5 DEF Apart

LEMMA SeedsApart ==
    ASSUME NEW k \in Nat, NEW j \in 0..k
    PROVE  Apart(Draw!SeedOrder[k], 2^j, 2^(k - j))
<1> DEFINE P == {l \in Nat : \A i \in 0..l : Apart(Draw!SeedOrder[l], 2^i, 2^(l - i))}
<1>1. 0 \in P
  <2>1. Len(Draw!SeedOrder[0]) = 1
    BY SeedOrders, Powers
  <2>2. Apart(Draw!SeedOrder[0], 2^0, 2^(0 - 0))
    BY <2>1 DEF Apart
  <2>3. 0..0 = {0}
    OBVIOUS
  <2> QED BY <2>2, <2>3
<1>2. ASSUME NEW l \in Nat, l \in P
      PROVE  l + 1 \in P
  <2> PICK o : o = Draw!SeedOrder[l]
    OBVIOUS
  <2> PICK d : d = Draw!SeedOrder[l + 1]
    OBVIOUS
  <2>1. d = Draw!Doubled(o) /\ Permuted(o) /\ Len(o) = 2^l
    BY SeedOrderSteps, SeedOrders
  <2>2. ASSUME NEW i \in 0..l
        PROVE  Apart(d, 2^i, 2^((l + 1) - i))
    <3>1. Apart(o, 2^i, 2^(l - i))
      BY <1>2
    <3>2. l - i \in Nat /\ (l + 1) - i = (l - i) + 1 /\ i \in Nat /\ i <= l
      OBVIOUS
    <3> PICK B \in Nat : B = 2^(l - i) /\ B > 0
      BY <3>2, Powers
    <3> PICK t \in Nat : t = 2^i
      BY <3>2, Powers
    <3>3. 2^((l + 1) - i) = 2 * B
      BY <3>2, Powers
    <3>4. t <= Len(o)
      BY <2>1, <3>2, PowersGrow
    <3>5. Apart(d, t, 2 * B)
      BY <2>1, <3>1, <3>4, ApartDoubled
    <3> QED BY <3>3, <3>5
  <2>3. Apart(d, 2^(l + 1), 2^((l + 1) - (l + 1)))
    <3>1. (l + 1) - (l + 1) = 0
      OBVIOUS
    <3>2. 2^((l + 1) - (l + 1)) = 1
      BY <3>1, Powers
    <3>3. \A x, y \in Nat : (x \div 1 = y \div 1) => x = y
      OBVIOUS
    <3>4. Len(d) \in Nat
      BY SeedOrders DEF Permuted
    <3>5. Apart(d, 2^(l + 1), 1)
      BY <3>3, <3>4 DEF Apart
    <3> QED BY <3>2, <3>5
  <2>4. \A i \in 0..(l + 1) : i \in 0..l \/ i = l + 1
    OBVIOUS
  <2>5. \A i \in 0..(l + 1) : Apart(d, 2^i, 2^((l + 1) - i))
    BY <2>2, <2>3, <2>4
  <2> QED BY <2>5
<1>3. k \in P
  <2> HIDE DEF P
  <2> QED BY <1>1, <1>2, Induct
<1> QED BY <1>3

(* A power of two splits into blocks of a lower one.                       *)
LEMMA Blocks ==
    ASSUME NEW k \in Nat, NEW j \in 0..k
    PROVE  2^k \div 2^j = 2^(k - j)
<1>1. j \in Nat /\ k - j \in Nat /\ j + (k - j) = k
  OBVIOUS
<1> PICK x \in Nat : x = 2^j /\ x > 0
  BY <1>1, Powers
<1> PICK y \in Nat : y = 2^(k - j)
  BY <1>1, Powers
<1>2. 2^k = x * y
  BY <1>1, PowersGrow
<1> QED BY <1>2, DivideProduct

LEMMA SeqWider ==
    ASSUME NEW S, NEW T, S \subseteq T, NEW s \in Seq(S)
    PROVE  s \in Seq(T)
<1>1. s \in [1..Len(s) -> T] /\ Len(s) \in Nat
  OBVIOUS
<1> QED BY <1>1

LEMMA SeqOf ==
    ASSUME NEW T, NEW M \in Nat, NEW c \in [1..M -> T]
    PROVE  c \in Seq(T) /\ Len(c) = M
OBVIOUS

LEMMA Appended ==
    ASSUME NEW S, NEW s \in Seq(S), NEW x \in S, NEW r \in Nat, Len(s) = r
    PROVE  Append(s, x) \in Seq(S) /\ Len(Append(s, x)) = r + 1 /\ Append(s, x)[r + 1] = x
OBVIOUS

LEMMA AppendedAt ==
    ASSUME NEW S, NEW s \in Seq(S), NEW x \in S, NEW q \in 1..Len(s)
    PROVE  Append(s, x)[q] = s[q]
OBVIOUS

LEMMA PairOf ==
    ASSUME NEW line, NEW L \in Nat \ {0}, Len(line) = 2 * L, NEW i \in 1..L
    PROVE  Draw!Pairs(line)[i] = <<line[2 * i - 1], line[2 * i]>>
<1>1. (2 * L + 1) \div 2 = L /\ 2 * i <= 2 * L
  OBVIOUS
<1> QED BY <1>1 DEF Draw!Pairs

(* One fold of a line of 2L slots.                                         *)
LEMMA FoldLine ==
    ASSUME NEW T, NEW line \in Seq(T), NEW L \in Nat \ {0}, Len(line) = 2 * L
    PROVE  Draw!Pairs(line) \in Seq(T \X T) /\ Len(Draw!Pairs(line)) = L
<1>1. (2 * L + 1) \div 2 = L
  OBVIOUS
<1> PICK p : p = Draw!Pairs(line)
  OBVIOUS
<1>2. p = [i \in 1..L |-> <<line[2 * i - 1], IF 2 * i <= 2 * L THEN line[2 * i] ELSE 0>>]
  BY <1>1 DEF Draw!Pairs
<1>3. \A x \in 1..2 * L : line[x] \in T
  <2>1. \A x \in 1..Len(line) : line[x] \in T
    BY ONLY line \in Seq(T)
  <2> QED BY <2>1
<1>4. \A i \in 1..L : p[i] \in T \X T
  <2> SUFFICES ASSUME NEW i \in 1..L
               PROVE  p[i] \in T \X T
    OBVIOUS
  <2>1. 2 * i - 1 \in 1..2 * L /\ 2 * i \in 1..2 * L /\ 2 * i <= 2 * L
    OBVIOUS
  <2>2. line[2 * i - 1] \in T /\ line[2 * i] \in T
    BY <1>3, <2>1
  <2>3. p[i] = <<line[2 * i - 1], line[2 * i]>>
    BY <1>2, <2>1
  <2> QED BY <2>2, <2>3
<1>5. p \in [1..L -> T \X T]
  BY <1>2, <1>4
<1>6. p \in Seq(T \X T) /\ Len(p) = L
  BY <1>5, SeqOf
<1> QED BY <1>6

LEMMA FoldFirst ==
    ASSUME NEW line, NEW L \in Nat \ {0}, Len(line) = 2 * L, NEW i \in 1..L
    PROVE  Draw!Pairs(line)[i][1] = line[2 * i - 1]
<1>1. (2 * L + 1) \div 2 = L
  OBVIOUS
<1> QED BY <1>1 DEF Draw!Pairs

---------------------------------------------------------------------------
Line == (Draw!Alive..n) \X (Draw!Alive..n)

(* The rounds folded so far: r of them, half as many matches in each.      *)
Folded(k, r) ==
    /\ rounds \in Seq(Seq(Line)) /\ Len(rounds) = r
    /\ current \in Seq(Draw!Alive..n) /\ Len(current) = 2^(k - r)
    /\ r = 0 => current = Draw!Slots(order, n)
    /\ r > 0 => /\ rounds[1] = Draw!Pairs(Draw!Slots(order, n))
                /\ \A i \in 1..Len(current) : current[i] = Draw!Alive
    /\ \A q \in 1..r : /\ Len(rounds[q]) = 2^(k - q)
                       /\ \A i \in 1..Len(rounds[q]) : rounds[q][i] # <<0, 0>>
    /\ pc = "done" => r = k

(* The bracket has its size: k rounds.                                     *)
SizedFor(k) ==
    k \in Nat \ {0} /\ k = Draw!Exponent(n) /\ power = 2^k /\ 2^(k - 1) < n /\ n <= power

DrawInv ==
    /\ n \in 2..MaxField /\ n \in Nat
    /\ pc \in {"size", "order", "seat", "fold", "done"}
    /\ pc = "size" => order = <<1>> /\ \E i \in Nat : power = 2^i /\ (i = 0 \/ 2^(i - 1) < n)
    /\ pc \in {"size", "order", "seat"} => rounds = <<>>
    /\ pc # "size" => \E k \in Nat \ {0} : SizedFor(k)
    /\ pc = "order" => \E j \in 0..Draw!Exponent(n) : order = Draw!SeedOrder[j]
    /\ pc \in {"seat", "fold", "done"} => order = Draw!SeedOrder[Draw!Exponent(n)]
    /\ pc \in {"fold", "done"} =>
          \E r \in 0..Draw!Exponent(n) : Folded(Draw!Exponent(n), r)

LEMMA DrawInit == Draw!Init => DrawInv
<1> SUFFICES ASSUME Draw!Init
             PROVE  DrawInv
  OBVIOUS
<1>1. n \in 2..MaxField /\ n \in Nat /\ pc = "size" /\ order = <<1>> /\ rounds = <<>>
  BY DEF Draw!Init
<1>2. power = 2^0
  BY Powers DEF Draw!Init
<1> QED BY <1>1, <1>2 DEF DrawInv

LEMMA SizeStep ==
    ASSUME DrawInv, Draw!GrowPower
    PROVE  DrawInv'
<1>1. /\ n \in 2..MaxField /\ n \in Nat /\ n >= 2 /\ pc = "size" /\ order = <<1>> /\ rounds = <<>>
      /\ n' = n /\ order' = order /\ rounds' = rounds /\ current' = current
  BY DEF DrawInv, Draw!GrowPower
<1> PICK i \in Nat : power = 2^i /\ (i = 0 \/ 2^(i - 1) < n)
  BY <1>1 DEF DrawInv
<1> PICK x \in Nat : x = 2^i
  BY Powers
<1>2. CASE power < n
  <2>1. power' = 2 * x /\ pc' = "size"
    BY <1>1, <1>2 DEF Draw!GrowPower
  <2>2. power' = 2^(i + 1)
    BY <2>1, Powers
  <2>3. i + 1 \in Nat /\ (i + 1) - 1 = i /\ i + 1 # 0
    OBVIOUS
  <2>4. 2^((i + 1) - 1) < n
    BY <1>2, <2>3
  <2>5. \E j \in Nat : power' = 2^j /\ (j = 0 \/ 2^(j - 1) < n')
    BY <1>1, <2>2, <2>3, <2>4
  <2> QED BY <1>1, <2>1, <2>5 DEF DrawInv
<1>3. CASE ~(power < n)
  <2>1. power' = power /\ pc' = "order"
    BY <1>1, <1>3 DEF Draw!GrowPower
  <2>2. n <= x
    BY <1>1, <1>3
  <2>3. Draw!Exponent(n) = i /\ i > 0
    BY <1>1, <2>2, ExponentIs
  <2>4. SizedFor(i)' /\ i \in Nat \ {0}
    BY <1>1, <2>1, <2>2, <2>3 DEF SizedFor
  <2>5. order' = Draw!SeedOrder[0] /\ 0 \in 0..Draw!Exponent(n)
    BY <1>1, <2>3, SeedOrderSteps
  <2> QED BY <1>1, <2>1, <2>4, <2>5 DEF DrawInv
<1> QED BY <1>2, <1>3

LEMMA OrderStep ==
    ASSUME DrawInv, Draw!DoubleOrder
    PROVE  DrawInv'
<1>1. /\ n \in 2..MaxField /\ n \in Nat /\ pc = "order" /\ rounds = <<>>
      /\ n' = n /\ power' = power /\ rounds' = rounds /\ current' = current
  BY DEF DrawInv, Draw!DoubleOrder
<1> PICK k \in Nat \ {0} : SizedFor(k)
  BY <1>1 DEF DrawInv
<1>2. k = Draw!Exponent(n) /\ power = 2^k
  BY DEF SizedFor
<1> PICK j \in 0..k : order = Draw!SeedOrder[j]
  BY <1>1, <1>2 DEF DrawInv
<1>3. j \in Nat /\ Len(order) = 2^j
  BY SeedOrders
<1>4. SizedFor(k)'
  BY <1>1 DEF SizedFor
<1>5. CASE Len(order) < power
  <2>1. order' = Draw!Doubled(order) /\ pc' = "order"
    BY <1>1, <1>5 DEF Draw!DoubleOrder
  <2>2. j # k
    <3>1. 2^j # 2^k
      BY <1>2, <1>3, <1>5, Powers
    <3> QED BY <3>1
  <2>3. j + 1 \in 0..k /\ order' = Draw!SeedOrder[j + 1]
    BY <1>3, <2>1, <2>2, SeedOrderSteps
  <2> QED BY <1>1, <1>2, <1>4, <2>1, <2>3 DEF DrawInv
<1>6. CASE ~(Len(order) < power)
  <2>1. order' = order /\ pc' = "seat"
    BY <1>1, <1>6 DEF Draw!DoubleOrder
  <2>2. j = k
    <3> SUFFICES ASSUME j < k
                 PROVE  FALSE
      OBVIOUS
    <3>1. 2^j < 2^k
      BY <1>3, PowersGrow
    <3> QED BY <1>2, <1>3, <1>6, <3>1
  <2> QED BY <1>1, <1>2, <1>4, <2>1, <2>2 DEF DrawInv
<1> QED BY <1>5, <1>6

(* The finished order, as the later loops use it.                          *)
LEMMA Ordered ==
    ASSUME DrawInv, pc \in {"seat", "fold", "done"}
    PROVE  \E k \in Nat \ {0}, L \in Nat \ {0} :
               /\ SizedFor(k) /\ k = Draw!Exponent(n) /\ order = Draw!SeedOrder[k]
               /\ Permuted(order) /\ Facing(order) /\ L = 2^(k - 1)
               /\ power = 2 * L /\ Len(order) = 2 * L /\ L < n /\ n <= 2 * L
<1> PICK k \in Nat \ {0} : SizedFor(k)
  BY DEF DrawInv
<1>1. k - 1 \in Nat /\ (k - 1) + 1 = k /\ k \in Nat /\ k > 0
  OBVIOUS
<1> PICK L \in Nat \ {0} : L = 2^(k - 1)
  BY <1>1, Powers
<1>2. k = Draw!Exponent(n) /\ power = 2^k /\ L < n /\ n <= power
  BY DEF SizedFor
<1>3. 2^k = 2 * L
  BY <1>1, Powers
<1>4. order = Draw!SeedOrder[k]
  BY <1>2 DEF DrawInv
<1>5. Permuted(order) /\ Facing(order) /\ Len(order) = 2^k
  BY <1>1, <1>4, SeedOrders
<1> QED BY <1>2, <1>3, <1>4, <1>5

LEMMA SeatStep ==
    ASSUME DrawInv, Draw!Seat
    PROVE  DrawInv'
<1>1. /\ n \in 2..MaxField /\ n \in Nat /\ pc = "seat" /\ rounds = <<>> /\ pc' = "fold"
      /\ n' = n /\ power' = power /\ rounds' = rounds /\ order' = order
      /\ current' = Draw!Slots(order, n)
  BY DEF DrawInv, Draw!Seat
<1> PICK k \in Nat \ {0}, L \in Nat \ {0} :
        /\ SizedFor(k) /\ k = Draw!Exponent(n) /\ order = Draw!SeedOrder[k]
        /\ Permuted(order) /\ power = 2 * L /\ Len(order) = 2 * L
  BY <1>1, Ordered
<1>2. SizedFor(k)'
  BY <1>1 DEF SizedFor
<1>3. Len(current') = 2 * L /\ current' \in Seq(0..n)
  <2>1. Len(Draw!Slots(order, n)) = 2 * L
    BY DEF Draw!Slots
  <2>2. Draw!Slots(order, n) \in Seq(0..n)
    BY <1>1, FirstPairs
  <2> QED BY <1>1, <2>1, <2>2
<1>4. current' \in Seq(Draw!Alive..n)
  <2>1. 0..n \subseteq Draw!Alive..n
    BY <1>1 DEF Draw!Alive
  <2> QED BY <1>3, <2>1, SeqWider
<1>5. Len(current') = 2^(k - 0)
  <2>1. k - 0 = k /\ power = 2^k
    BY DEF SizedFor
  <2> QED BY <1>3, <2>1
<1>6. <<>> \in Seq(Seq(Line')) /\ Len(<<>>) = 0 /\ 1..0 = {}
  OBVIOUS
<1>7. Folded(k, 0)'
  BY <1>1, <1>4, <1>5, <1>6 DEF Folded
<1>8. 0 \in 0..k
  OBVIOUS
<1> QED BY <1>1, <1>2, <1>7, <1>8 DEF DrawInv

LEMMA FoldStep ==
    ASSUME DrawInv, Draw!FoldRound
    PROVE  DrawInv'
<1>1. /\ n \in 2..MaxField /\ n \in Nat /\ pc = "fold"
      /\ n' = n /\ power' = power /\ order' = order
  BY DEF DrawInv, Draw!FoldRound
<1> PICK k \in Nat \ {0}, L \in Nat \ {0} :
        /\ SizedFor(k) /\ k = Draw!Exponent(n) /\ order = Draw!SeedOrder[k]
        /\ Permuted(order) /\ Facing(order) /\ Len(order) = 2 * L /\ L < n /\ L = 2^(k - 1)
  BY <1>1, Ordered
<1> PICK r \in 0..k : Folded(k, r)
  BY <1>1 DEF DrawInv
<1>2. SizedFor(k)'
  BY <1>1 DEF SizedFor
<1>3. r \in Nat /\ k - r \in Nat /\ Len(current) = 2^(k - r)
  BY DEF Folded
<1>4. CASE Len(current) > 1
  <2>1. r # k
    <3> SUFFICES ASSUME r = k
                 PROVE  FALSE
      OBVIOUS
    <3>1. k - r = 0
      OBVIOUS
    <3>2. 2^(k - r) = 1
      BY <3>1, Powers
    <3> QED BY <1>3, <1>4, <3>2
  <2>2. r + 1 \in 0..k /\ k - (r + 1) \in Nat /\ (k - (r + 1)) + 1 = k - r
    <3>1. r \in 0..k /\ k \in Nat
      OBVIOUS
    <3> QED BY ONLY <2>1, <3>1
  <2> PICK M \in Nat \ {0} : M = 2^(k - (r + 1))
    BY <2>2, Powers
  <2>3. Len(current) = 2 * M
    BY <1>3, <2>2, Powers
  <2> PICK p : p = Draw!Pairs(current)
    OBVIOUS
  <2>4. current \in Seq(Draw!Alive..n)
    BY DEF Folded
  <2>5. p \in Seq(Line) /\ Len(p) = M /\ \A i \in 1..M : p[i][1] = current[2 * i - 1]
    <3>1. p \in Seq((Draw!Alive..n) \X (Draw!Alive..n)) /\ Len(p) = M
      BY <1>1, <2>3, <2>4, FoldLine
    <3>2. \A i \in 1..M : p[i][1] = current[2 * i - 1]
      BY <1>1, <2>3, <2>4, FoldFirst
    <3> QED BY <3>1, <3>2 DEF Line
  <2>6. ASSUME NEW i \in 1..M
        PROVE  p[i] # <<0, 0>>
    <3>1. CASE r = 0
      <4>1. current = Draw!Slots(order, n)
        BY <3>1 DEF Folded
      <4>2. k - (0 + 1) = k - 1 /\ M = L
        BY <3>1
      <4>3. Draw!Pairs(Draw!Slots(order, n))[i] # <<0, 0>>
        BY <1>1, <4>2, NoEmptyPair
      <4> QED BY <4>1, <4>3
    <3>2. CASE r > 0
      <4>1. 2 * i - 1 \in 1..Len(current)
        BY <2>3
      <4>2. current[2 * i - 1] = Draw!Alive
        BY <3>2, <4>1 DEF Folded
      <4>3. p[i][1] = Draw!Alive
        BY <2>5, <4>2
      <4>4. p[i][1] # 0
        BY <4>3 DEF Draw!Alive
      <4>5. <<0, 0>>[1] = 0
        OBVIOUS
      <4> QED BY ONLY <4>4, <4>5
    <3>3. r = 0 \/ r > 0
      OBVIOUS
    <3> QED BY <3>1, <3>2, <3>3
  <2>7. /\ rounds' = Append(rounds, p) /\ pc' = "fold"
        /\ current' = [i \in 1..M |-> Draw!Alive]
    <3>1. /\ rounds' = Append(rounds, p) /\ pc' = "fold"
          /\ current' = [i \in 1..M |-> IF p[i] # <<0, 0>> THEN Draw!Alive ELSE 0]
      BY <1>1, <1>4, <2>5 DEF Draw!FoldRound
    <3> QED BY <2>6, <3>1
  <2>8. current' \in Seq(Draw!Alive..n) /\ Len(current') = M /\ \A i \in 1..M : current'[i] = Draw!Alive
    <3>1. Draw!Alive \in Draw!Alive..n
      BY <1>1 DEF Draw!Alive
    <3> PICK c : c = current'
      OBVIOUS
    <3>2. c = [i \in 1..M |-> Draw!Alive]
      BY <2>7
    <3>3. c \in [1..M -> Draw!Alive..n]
      BY <3>1, <3>2
    <3>4. c \in Seq(Draw!Alive..n) /\ Len(c) = M
      BY <3>3, SeqOf
    <3> QED BY <3>2, <3>4
  <2>9. rounds \in Seq(Seq(Line)) /\ Len(rounds) = r
    BY DEF Folded
  <2>10. /\ rounds' \in Seq(Seq(Line)) /\ Len(rounds') = r + 1 /\ rounds'[r + 1] = p
         /\ \A q \in 1..r : rounds'[q] = rounds[q]
    <3>1. Append(rounds, p) \in Seq(Seq(Line)) /\ Len(Append(rounds, p)) = r + 1
          /\ Append(rounds, p)[r + 1] = p
      <4> PICK S : S = Seq(Line)
        OBVIOUS
      <4>1. rounds \in Seq(S) /\ p \in S /\ r \in Nat /\ Len(rounds) = r
        BY <1>3, <2>5, <2>9
      <4>2. Append(rounds, p) \in Seq(S) /\ Len(Append(rounds, p)) = r + 1
            /\ Append(rounds, p)[r + 1] = p
        BY ONLY <4>1, Appended
      <4> QED BY <4>2
    <3>2. \A q \in 1..r : Append(rounds, p)[q] = rounds[q]
      BY <2>5, <2>9, AppendedAt
    <3> QED BY <2>7, <3>1, <3>2
  <2>11. rounds'[1] = Draw!Pairs(Draw!Slots(order, n))
    <3>1. CASE r = 0
      BY <2>10, <3>1 DEF Folded
    <3>2. CASE r > 0
      BY <2>10, <3>2 DEF Folded
    <3> QED BY <1>3, <3>1, <3>2
  <2>12. ASSUME NEW q \in 1..(r + 1)
         PROVE  /\ Len(rounds'[q]) = 2^(k - q)
                /\ \A i \in 1..Len(rounds'[q]) : rounds'[q][i] # <<0, 0>>
    <3>1. CASE q = r + 1
      BY <2>5, <2>6, <2>10, <3>1
    <3>2. CASE q \in 1..r
      <4>1. rounds'[q] = rounds[q]
        BY <2>10, <3>2
      <4>2. Len(rounds[q]) = 2^(k - q) /\ \A i \in 1..Len(rounds[q]) : rounds[q][i] # <<0, 0>>
        BY <3>2 DEF Folded
      <4> QED BY <4>1, <4>2
    <3>3. q = r + 1 \/ q \in 1..r
      OBVIOUS
    <3> QED BY <3>1, <3>2, <3>3
  <2>13. Line' = Line
    BY <1>1 DEF Line
  <2>14. Folded(k, r + 1)'
    <3>1. rounds' \in Seq(Seq(Line')) /\ Len(rounds') = r + 1
      BY <2>10, <2>13
    <3>2. current' \in Seq(Draw!Alive..n') /\ Len(current') = 2^(k - (r + 1))
      BY <1>1, <2>8
    <3>3. rounds'[1] = Draw!Pairs(Draw!Slots(order', n'))
      BY <1>1, <2>11
    <3>4. \A i \in 1..Len(current') : current'[i] = Draw!Alive
      BY <2>8
    <3>5. r + 1 # 0 /\ pc' # "done"
      BY <1>3, <2>7
    <3> QED BY <2>12, <3>1, <3>2, <3>3, <3>4, <3>5 DEF Folded
  <2> QED BY <1>1, <1>2, <2>2, <2>7, <2>14 DEF DrawInv
<1>5. CASE ~(Len(current) > 1)
  <2>1. UNCHANGED <<rounds, current>> /\ pc' = "done"
    BY <1>1, <1>5 DEF Draw!FoldRound
  <2>2. r = k
    <3> PICK d \in Nat : d = k - r
      BY <1>3
    <3> PICK x \in Nat : x = 2^d
      BY Powers
    <3>1. d < x
      BY PowersGrow
    <3>2. x <= 1
      BY <1>3, <1>5
    <3>3. d = 0
      BY <3>1, <3>2
    <3> QED BY <3>3
  <2>3. Line' = Line
    BY <1>1 DEF Line
  <2>4. Folded(k, r)'
    BY <1>1, <2>1, <2>2, <2>3 DEF Folded
  <2> QED BY <1>1, <1>2, <2>1, <2>4 DEF DrawInv
<1> QED BY <1>4, <1>5

LEMMA DrawStep == DrawInv /\ [Draw!Next]_Draw!vars => DrawInv'
<1> SUFFICES ASSUME DrawInv, [Draw!Next]_Draw!vars
             PROVE  DrawInv'
  OBVIOUS
<1>1. CASE UNCHANGED Draw!vars
  <2>1. UNCHANGED <<n, power, order, current, rounds, pc>>
    BY <1>1 DEF Draw!vars
  <2>2. \A k : SizedFor(k)' <=> SizedFor(k)
    BY <2>1 DEF SizedFor
  <2>3. \A k, r : Folded(k, r)' <=> Folded(k, r)
    BY <2>1 DEF Folded, Line
  <2> QED BY <2>1, <2>2, <2>3 DEF DrawInv
<1> QED BY <1>1, SizeStep, OrderStep, SeatStep, FoldStep DEF Draw!Next

LEMMA DrawAlways == Draw!Spec => []DrawInv
<1>1. DrawInv /\ [Draw!Next]_Draw!vars => DrawInv'
  BY DrawStep
<1> QED BY <1>1, DrawInit, PTL DEF Draw!Spec

LEMMA DrawSeats == DrawInv => Draw!FirstRoundSeatsTheField /\ Draw!NoPhantomMatch
<1> SUFFICES ASSUME DrawInv
             PROVE  Draw!FirstRoundSeatsTheField /\ Draw!NoPhantomMatch
  OBVIOUS
<1>1. CASE rounds = <<>>
  <2>1. Len(rounds) = 0 /\ 1..0 = {}
    BY <1>1
  <2> QED BY <1>1, <2>1 DEF Draw!FirstRoundSeatsTheField, Draw!NoPhantomMatch
<1>2. CASE rounds # <<>>
  <2>1. pc \in {"fold", "done"} /\ n \in Nat
    BY <1>2 DEF DrawInv
  <2> PICK k \in Nat \ {0}, L \in Nat \ {0} :
          /\ k = Draw!Exponent(n) /\ Permuted(order) /\ Facing(order)
          /\ power = 2 * L /\ Len(order) = 2 * L /\ L < n /\ n <= 2 * L
    BY <2>1, Ordered
  <2> PICK r \in 0..k : Folded(k, r)
    BY <2>1 DEF DrawInv
  <2>2. rounds \in Seq(Seq(Line)) /\ Len(rounds) = r
    BY DEF Folded
  <2>3. r > 0
    BY <1>2, <2>2
  <2>4. rounds[1] = Draw!Pairs(Draw!Slots(order, n))
    BY <2>3 DEF Folded
  <2>5. ASSUME NEW s \in 1..n
        PROVE  \E i \in 1..Len(rounds[1]), c \in {1, 2} :
                   /\ rounds[1][i][c] = s
                   /\ \A j \in 1..Len(rounds[1]), d \in {1, 2} :
                         rounds[1][j][d] = s => <<j, d>> = <<i, c>>
                   /\ (rounds[1][i][3 - c] = 0) <=> (s <= power - n)
    <3>1. SeatedOnce(Draw!Pairs(Draw!Slots(order, n)), s, 2 * L - n)
      BY <2>1, FieldSeated
    <3>2. SeatedOnce(rounds[1], s, power - n)
      BY <2>4, <3>1
    <3> QED BY <3>2 DEF SeatedOnce
  <2>6. Draw!FirstRoundSeatsTheField
    BY <2>5 DEF Draw!FirstRoundSeatsTheField
  <2>7. \A q \in 1..r : \A i \in 1..Len(rounds[q]) : rounds[q][i] # <<0, 0>>
    BY DEF Folded
  <2> QED BY <2>2, <2>6, <2>7 DEF Draw!NoPhantomMatch
<1> QED BY <1>1, <1>2

LEMMA DrawApart == DrawInv => Draw!SeedsStayApart
<1> SUFFICES ASSUME DrawInv, pc = "done", NEW j \in 0..Draw!Exponent(n),
                    NEW a \in 1..power, NEW b \in 1..power,
                    a # b, order[a] <= 2^j, order[b] <= 2^j
             PROVE  (a - 1) \div (power \div 2^j) # (b - 1) \div (power \div 2^j)
  BY DEF Draw!SeedsStayApart
<1> PICK k \in Nat \ {0}, L \in Nat \ {0} :
        /\ SizedFor(k) /\ k = Draw!Exponent(n) /\ order = Draw!SeedOrder[k]
        /\ power = 2 * L /\ Len(order) = 2 * L
  BY Ordered
<1>1. power = 2^k /\ j \in 0..k /\ k \in Nat
  BY DEF SizedFor
<1>2. power \div 2^j = 2^(k - j)
  BY <1>1, Blocks
<1>3. Apart(order, 2^j, 2^(k - j))
  BY <1>1, SeedsApart
<1>4. (a - 1) \div 2^(k - j) # (b - 1) \div 2^(k - j)
  BY <1>3 DEF Apart
<1> QED BY <1>2, <1>4

LEMMA DrawShape == DrawInv => Draw!DrawMatchesShape
<1> SUFFICES ASSUME DrawInv, pc = "done"
             PROVE  Draw!DrawMatchesShape
  BY DEF Draw!DrawMatchesShape
<1> PICK k \in Nat \ {0}, L \in Nat \ {0} :
        /\ SizedFor(k) /\ k = Draw!Exponent(n) /\ order = Draw!SeedOrder[k]
        /\ Permuted(order) /\ L = 2^(k - 1)
        /\ power = 2 * L /\ Len(order) = 2 * L
  BY Ordered
<1>1. n \in Nat /\ power = 2^k
  BY DEF SizedFor, DrawInv
<1> PICK r \in 0..k : Folded(k, r)
  BY DEF DrawInv
<1>2. r = k /\ r > 0 /\ Len(rounds) = k
  BY DEF Folded
<1>3. rounds[1] = Draw!Pairs(Draw!Slots(order, n))
  BY <1>2 DEF Folded
<1>4. ASSUME NEW m \in Draw!FirstRound(k)
      PROVE  rounds[1][m[2] + 1] = Draw!EntrantsOf(n)[m]
  <2>1. PICK j \in 0..(L - 1) : m = <<1, j>>
    BY DEF Draw!FirstRound
  <2> PICK w : w = Draw!Slots(order, n)
    OBVIOUS
  <2>2. Draw!EntrantsOf(n)[m] = <<w[2 * m[2] + 1], w[2 * m[2] + 2]>>
    BY DEF Draw!EntrantsOf
  <2>3. m[2] = j /\ j + 1 \in 1..L /\ 2 * (j + 1) - 1 = 2 * j + 1 /\ 2 * (j + 1) = 2 * j + 2
    BY <2>1
  <2>4. Len(w) = 2 * L
    BY DEF Draw!Slots
  <2>5. Draw!Pairs(w)[j + 1] = <<w[2 * (j + 1) - 1], w[2 * (j + 1)]>>
    BY <2>3, <2>4, PairOf
  <2> QED BY <1>3, <2>2, <2>3, <2>5
<1>5. ASSUME NEW m \in Draw!WinnersMatches(k)
      PROVE  m[2] + 1 \in 1..Len(rounds[m[1]])
  <2>1. PICK i \in 1..k : m \in {<<i, j>> : j \in 0..2^(k - i) - 1}
    BY DEF Draw!WinnersMatches
  <2>2. PICK j \in 0..2^(k - i) - 1 : m = <<i, j>>
    BY <2>1
  <2>3. Len(rounds[i]) = 2^(k - i)
    <3>1. i \in 1..r
      BY <1>2
    <3> QED BY <3>1 DEF Folded
  <2>4. 2^(k - i) \in Nat
    <3>1. k - i \in Nat
      BY ONLY k \in Nat \ {0}, i \in 1..k
    <3> QED BY <3>1, Powers
  <2>5. m[1] = i /\ m[2] = j
    BY <2>2
  <2>6. j + 1 \in 1..2^(k - i)
    BY <2>4
  <2> QED BY <2>3, <2>5, <2>6
<1> QED BY <1>1, <1>2, <1>4, <1>5 DEF Draw!DrawMatchesShape

(* Every entrant sits in round one once, and the byes are the best seeds': *)
(* what seedBracketSlots leaves for startTournament to count on.           *)
THEOREM FieldIsSeated == Draw!Spec => []FirstRoundSeatsTheField
<1>1. DrawInv => FirstRoundSeatsTheField
  BY DrawSeats DEF FirstRoundSeatsTheField
<1> QED BY <1>1, DrawAlways, PTL

(* No match of the drawn bracket has two empty slots, in any round: the    *)
(* case bracket-seeding.helper.ts calls structurally impossible.           *)
THEOREM NobodyPlaysNobody == Draw!Spec => []Draw!NoPhantomMatch
BY DrawAlways, DrawSeats, PTL

(* Of the 2^j best seeds no two stand in the same of 2^j blocks of slots:  *)
(* standardSeedOrder keeps them apart until only 2^j players are left.     *)
THEOREM BestMeetLast == Draw!Spec => []SeedsStayApart
<1>1. DrawInv => SeedsStayApart
  BY DrawApart DEF SeedsStayApart
<1> QED BY <1>1, DrawAlways, PTL

(* nextPowerOfTwo, standardSeedOrder, seedBracketSlots and generateBracket *)
(* end with the bracket BracketShape defines.                              *)
THEOREM LoopsBuildTheShape == Draw!Spec => []DrawMatchesShape
<1>1. DrawInv => DrawMatchesShape
  BY DrawShape DEF DrawMatchesShape
<1> QED BY <1>1, DrawAlways, PTL

(***************************************************************************)
(* Countdowns                                                              *)
(***************************************************************************)

Columns == {"duration", "paused", "endsAt", "running", "notified", "flips"}

(* A countdown that is to be announced: its row runs, or the pass found it *)
(* and has not come to it.                                                 *)
Running(m) == row[m].running /\ ~row[m].notified
Waits(job, m) == pass[job].step # "idle" /\ m \in pass[job].left
Awaited(job, m) == IF Running(m) \/ Waits(job, m) THEN 1 ELSE 0

(* One that is flagged, and about to be announced.                         *)
Flagged(job, m) == IF pass[job].step = "notify" /\ pass[job].match = m THEN 1 ELSE 0

ClockTyped(job) ==
    /\ DOMAIN row = Match /\ \A m \in Match : DOMAIN row[m] = Columns
    /\ DOMAIN timing = Timing
    /\ \A r \in Timing : timing[r].step # "idle" => timing[r].match \in Match
    /\ DOMAIN pass = {job}
    /\ pass[job].step \in {"idle", "flag", "notify"}
    /\ pass[job].step # "idle" => pass[job].left \subseteq Match
    /\ pass[job].step = "notify" =>
          pass[job].match \in Match /\ pass[job].match \notin pass[job].left
    /\ starts \in [Match -> Nat]
    /\ announced \in [Match -> Nat]

(* Whatever is announced or to be announced was started.                   *)
Started(job) ==
    \A m \in Match : announced[m] + Awaited(job, m) + Flagged(job, m) <= starts[m]

ClockInv(job) == ClockTyped(job) /\ Started(job)

(* A request that writes columns leaves the others.                        *)
LEMMA PersistWrites ==
    ASSUME NEW job, ClockTyped(job), NEW r \in Timing, NEW data,
           timing[r].step # "idle", Clock!Persist(r, data)
    PROVE  LET m == timing[r].match IN
           /\ DOMAIN row' = Match
           /\ \A k \in Match : DOMAIN row'[k] = Columns
           /\ \A k \in Match : k # m => row'[k] = row[k]
           /\ \A c \in Columns :
                 row'[m][c] = IF c \in DOMAIN data THEN data[c] ELSE row[m][c]
           /\ DOMAIN timing' = Timing
           /\ \A s \in Timing : timing'[s].step # "idle" => timing'[s].match \in Match
           /\ UNCHANGED <<pass, announced>>
<1> DEFINE m == timing[r].match
<1>1. m \in Match
  BY DEF ClockTyped
<1>2. row' = [row EXCEPT ![m] = [c \in DOMAIN @ |-> IF c \in DOMAIN data THEN data[c] ELSE @[c]]]
  BY DEF Clock!Persist
<1>3. timing' = [timing EXCEPT ![r] = Clock!Idle] /\ UNCHANGED <<pass, announced>>
  BY DEF Clock!Persist
<1>4. DOMAIN timing' = Timing
      /\ \A s \in Timing : timing'[s].step # "idle" => timing'[s].match \in Match
  BY <1>3 DEF ClockTyped, Clock!Idle
<1> HIDE DEF m
<1>5. row'[m] = [c \in Columns |-> IF c \in DOMAIN data THEN data[c] ELSE row[m][c]]
  BY <1>1, <1>2 DEF ClockTyped
<1>6. DOMAIN row' = Match /\ \A k \in Match : k # m => row'[k] = row[k]
  BY <1>1, <1>2 DEF ClockTyped
<1>7. \A k \in Match : DOMAIN row'[k] = Columns
  BY <1>1, <1>5, <1>6 DEF ClockTyped
<1>8. \A c \in Columns : row'[m][c] = IF c \in DOMAIN data THEN data[c] ELSE row[m][c]
  BY <1>5
<1> QED
  BY <1>3, <1>4, <1>6, <1>7, <1>8 DEF m

(* No request but the one that starts a countdown makes one run.           *)
LEMMA RequestsStart ==
    ASSUME NEW job, ClockInv(job), NEW r \in Timing,
           \/ \E d \in Durations : Clock!Set(r, d)
           \/ \E d \in Durations \union {None} : Clock!Start(r, d)
           \/ Clock!Pause(r) \/ Clock!Reset(r)
           \/ \E u \in Flipper : Clock!Flip(r, u)
    PROVE  ClockInv(job)'
<1>1. ClockTyped(job)
  BY DEF ClockInv
<1>2. timing[r].step # "idle"
  BY DEF Clock!Set, Clock!Start, Clock!Pause, Clock!Reset, Clock!Flip
<1>3. PICK m \in Match : m = timing[r].match
  BY <1>1, <1>2 DEF ClockTyped
<1> DEFINE Stops(data) == "running" \in DOMAIN data /\ data["running"] = FALSE
           Leaves(data) == "running" \notin DOMAIN data /\ "notified" \notin DOMAIN data
<1>4. PICK data : /\ Clock!Persist(r, data)
                  /\ \/ UNCHANGED starts /\ Stops(data)
                     \/ UNCHANGED starts /\ Leaves(data)
                     \/ starts' = [starts EXCEPT ![m] = @ + 1]
  <2> DEFINE Works(data) == /\ Clock!Persist(r, data)
                            /\ \/ UNCHANGED starts /\ Stops(data)
                               \/ UNCHANGED starts /\ Leaves(data)
                               \/ starts' = [starts EXCEPT ![m] = @ + 1]
  <2>1. ASSUME NEW d, Clock!Set(r, d) PROVE \E data : Works(data)
    <3> DEFINE data == [duration |-> d, paused |-> d, endsAt |-> None,
                        running |-> FALSE, notified |-> FALSE]
    <3>1. Clock!Persist(r, data) /\ UNCHANGED starts /\ Stops(data)
      BY <2>1 DEF Clock!Set
    <3> QED  BY <3>1
  <2>2. ASSUME NEW d, Clock!Start(r, d) PROVE \E data : Works(data)
    <3>1. (\E data : Clock!Persist(r, data)) /\ starts' = [starts EXCEPT ![m] = @ + 1]
      BY <1>3, <2>2 DEF Clock!Start
    <3> QED  BY <3>1
  <2>3. ASSUME Clock!Pause(r) PROVE \E data : Works(data)
    <3>1. PICK left : /\ UNCHANGED starts
                      /\ Clock!Persist(r, [running |-> FALSE, paused |-> left, endsAt |-> None])
      BY <2>3 DEF Clock!Pause
    <3> DEFINE data == [running |-> FALSE, paused |-> left, endsAt |-> None]
    <3>2. Stops(data)
      OBVIOUS
    <3> QED  BY <3>1, <3>2
  <2>4. ASSUME Clock!Reset(r) PROVE \E data : Works(data)
    <3> DEFINE data == [running |-> FALSE, endsAt |-> None, notified |-> FALSE,
                        paused |-> timing[r].seen.duration]
    <3>1. Clock!Persist(r, data) /\ UNCHANGED starts /\ Stops(data)
      BY <2>4 DEF Clock!Reset
    <3> QED  BY <3>1
  <2>5. ASSUME NEW u, Clock!Flip(r, u) PROVE \E data : Works(data)
    <3> DEFINE data == [flips |-> timing[r].seen.flips \union {u}]
    <3>1. Clock!Persist(r, data) /\ UNCHANGED starts /\ Leaves(data)
      BY <2>5 DEF Clock!Flip
    <3> QED  BY <3>1
  <2> HIDE DEF Works
  <2>6. \E data : Works(data)
    BY <2>1, <2>2, <2>3, <2>4, <2>5
  <2> QED
    BY <2>6 DEF Works
<1>5. /\ DOMAIN row' = Match
      /\ \A k \in Match : DOMAIN row'[k] = Columns
      /\ \A k \in Match : k # m => row'[k] = row[k]
      /\ \A c \in Columns :
            row'[m][c] = IF c \in DOMAIN data THEN data[c] ELSE row[m][c]
      /\ DOMAIN timing' = Timing
      /\ \A s \in Timing : timing'[s].step # "idle" => timing'[s].match \in Match
      /\ UNCHANGED <<pass, announced>>
  BY <1>1, <1>2, <1>3, <1>4, PersistWrites
<1>6. ClockTyped(job)'
  BY <1>1, <1>4, <1>5 DEF ClockTyped
<1>7. /\ \A k \in Match : Flagged(job, k)' = Flagged(job, k)
      /\ \A k \in Match : Waits(job, k)' <=> Waits(job, k)
  BY <1>5 DEF Flagged, Waits
<1>8. \A k \in Match : k # m => (Running(k)' <=> Running(k))
  BY <1>5 DEF Running
<1>9. /\ row'[m].running = (IF "running" \in DOMAIN data THEN data["running"] ELSE row[m].running)
      /\ row'[m].notified = (IF "notified" \in DOMAIN data THEN data["notified"] ELSE row[m].notified)
  BY <1>5 DEF Columns
<1>10. starts' = [starts EXCEPT ![m] = @ + 1] \/ (UNCHANGED starts /\ (Running(m)' => Running(m)))
  <2>1. Stops(data) => row'[m].running = FALSE
    BY <1>9
  <2>2. Leaves(data) => row'[m].running = row[m].running /\ row'[m].notified = row[m].notified
    BY <1>9
  <2> HIDE DEF Stops, Leaves
  <2> QED
    BY <1>4, <2>1, <2>2 DEF Running
<1>11. Started(job)'
  <2> SUFFICES ASSUME NEW k \in Match
               PROVE  (announced[k] + Awaited(job, k) + Flagged(job, k) <= starts[k])'
    BY DEF Started
  <2>1. announced[k] + Awaited(job, k) + Flagged(job, k) <= starts[k]
    BY DEF ClockInv, Started
  <2>2. announced[k] \in Nat /\ starts[k] \in Nat /\ announced'[k] = announced[k]
    BY <1>1, <1>5 DEF ClockTyped
  <2>3. Flagged(job, k)' = Flagged(job, k) /\ Flagged(job, k) \in {0, 1}
    BY <1>7 DEF Flagged
  <2>4. Awaited(job, k) \in {0, 1} /\ Awaited(job, k)' \in {0, 1}
    BY DEF Awaited
  <2>5. CASE starts'[k] = starts[k] + 1
    BY <2>1, <2>2, <2>3, <2>4, <2>5
  <2>6. CASE starts'[k] = starts[k] /\ (Running(k)' => Running(k))
    <3>1. Awaited(job, k)' <= Awaited(job, k)
      BY <1>7, <2>6 DEF Awaited
    <3> QED
      BY <2>1, <2>2, <2>3, <2>4, <2>6, <3>1
  <2>7. \/ starts'[k] = starts[k] + 1
        \/ starts'[k] = starts[k] /\ k # m
        \/ starts'[k] = starts[k] /\ (Running(m)' => Running(m))
    BY <1>1, <1>10 DEF ClockTyped
  <2> QED
    BY <1>8, <2>5, <2>6, <2>7
<1> QED
  BY <1>6, <1>11 DEF ClockInv

(* A pass takes up what runs, flags it and then announces it.              *)
LEMMA JobAnnounces ==
    ASSUME NEW job, ClockInv(job),
           Clock!Wake(job) \/ Clock!Notify(job) \/ \E m \in Match : Clock!Flag(job, m)
    PROVE  ClockInv(job)'
<1>1. ClockTyped(job)
  BY DEF ClockInv
<1>2. \A m \in Match : /\ announced[m] + Awaited(job, m) + Flagged(job, m) <= starts[m]
                       /\ announced[m] \in Nat /\ starts[m] \in Nat
  BY <1>1 DEF ClockInv, Started, ClockTyped
<1>3. CASE Clock!Wake(job)
  <2>1. /\ pass[job] = Clock!Idle
        /\ pass' = [pass EXCEPT ![job] = [step |-> "flag", left |-> {m \in Match : Clock!RanOut(m)}]]
        /\ UNCHANGED <<row, timing, starts, announced>>
    BY <1>3 DEF Clock!Wake
  <2>2. pass'[job] = [step |-> "flag", left |-> {m \in Match : Clock!RanOut(m)}]
        /\ DOMAIN pass' = {job}
    BY <1>1, <2>1 DEF ClockTyped
  <2>3. ClockTyped(job)'
    BY <1>1, <2>1, <2>2 DEF ClockTyped
  <2>4. \A m \in Match : Awaited(job, m)' = Awaited(job, m) /\ Flagged(job, m)' = Flagged(job, m)
    BY <2>1, <2>2 DEF Awaited, Flagged, Running, Waits, Clock!RanOut, Clock!Idle
  <2> QED
    BY <1>2, <2>1, <2>3, <2>4 DEF ClockInv, Started
<1>4. CASE Clock!Notify(job)
  <2> DEFINE m == pass[job].match
             left == pass[job].left
  <2>1. /\ pass[job].step = "notify"
        /\ announced' = [announced EXCEPT ![m] = @ + 1]
        /\ pass' = [pass EXCEPT ![job] = IF left = {} THEN Clock!Idle
                                         ELSE [step |-> "flag", left |-> left]]
        /\ UNCHANGED <<row, timing, starts>>
    BY <1>1, <1>4 DEF Clock!Notify, ClockTyped
  <2>2. m \in Match /\ left \subseteq Match /\ m \notin left
    BY <1>1, <2>1 DEF ClockTyped
  <2> HIDE DEF m, left
  <2>3. /\ DOMAIN pass' = {job}
        /\ pass'[job] = IF left = {} THEN Clock!Idle ELSE [step |-> "flag", left |-> left]
    BY <1>1, <2>1 DEF ClockTyped
  <2>4. ClockTyped(job)'
    BY <1>1, <2>1, <2>2, <2>3 DEF ClockTyped, Clock!Idle
  <2>5. \A k \in Match : Awaited(job, k)' = Awaited(job, k)
    BY <2>1, <2>3 DEF Awaited, Running, Waits, Clock!Idle, left
  <2>6. \A k \in Match : /\ Flagged(job, k)' = 0
                         /\ Flagged(job, k) = IF k = m THEN 1 ELSE 0
    BY <2>1, <2>3 DEF Flagged, Clock!Idle, m
  <2>7. \A k \in Match : announced'[k] = IF k = m THEN announced[k] + 1 ELSE announced[k]
    BY <1>1, <2>1, <2>2 DEF ClockTyped
  <2>8. \A k \in Match : Awaited(job, k) \in {0, 1}
    BY DEF Awaited
  <2>9. Started(job)'
    BY <1>2, <2>1, <2>5, <2>6, <2>7, <2>8 DEF Started
  <2> QED
    BY <2>4, <2>9 DEF ClockInv
<1>5. ASSUME NEW m \in Match, Clock!Flag(job, m)
      PROVE  ClockInv(job)'
  <2>1. /\ pass[job].step = "flag" /\ m \in pass[job].left
        /\ row' = [row EXCEPT ![m].notified = TRUE, ![m].running = FALSE]
        /\ pass' = [pass EXCEPT ![job] =
                       [step |-> "notify", match |-> m, left |-> pass[job].left \ {m}]]
        /\ UNCHANGED <<timing, starts, announced>>
    BY <1>1, <1>5 DEF Clock!Flag, ClockTyped
  <2>2. /\ DOMAIN pass' = {job}
        /\ pass'[job] = [step |-> "notify", match |-> m, left |-> pass[job].left \ {m}]
    BY <1>1, <2>1 DEF ClockTyped
  <2>3. /\ DOMAIN row' = Match /\ \A k \in Match : DOMAIN row'[k] = Columns
        /\ \A k \in Match : k # m => row'[k] = row[k]
        /\ ~row'[m].running
    BY <1>1, <2>1 DEF ClockTyped, Columns
  <2>4. ClockTyped(job)'
    BY <1>1, <2>1, <2>2, <2>3 DEF ClockTyped
  <2>5. /\ Awaited(job, m) = 1 /\ Awaited(job, m)' = 0
        /\ Flagged(job, m) = 0 /\ Flagged(job, m)' = 1
    BY <2>1, <2>2, <2>3 DEF Awaited, Flagged, Running, Waits
  <2>6. \A k \in Match : k # m => /\ Awaited(job, k)' = Awaited(job, k)
                                  /\ Flagged(job, k)' = Flagged(job, k)
    BY <2>1, <2>2, <2>3 DEF Awaited, Flagged, Running, Waits
  <2>7. Started(job)'
    BY <1>2, <2>1, <2>5, <2>6 DEF Started
  <2> QED
    BY <2>4, <2>7 DEF ClockInv
<1> QED
  BY <1>3, <1>4, <1>5

(* As long as the passes of the job do not overlap, a countdown is         *)
(* announced at most once, however many matches, requests and durations    *)
(* there are and however long a pass takes (MatchTimerJob).  Where passes  *)
(* overlap it is not so.                                                   *)
THEOREM CountdownsAnnouncedOnce ==
    ASSUME NEW job, Jobs = {job}
    PROVE  Clock!Spec => []CountdownAnnouncedOnce
<1>1. Clock!Init => ClockInv(job)
  BY DEF Clock!Init, ClockInv, ClockTyped, Started, Awaited, Flagged, Running, Waits,
     Clock!Idle, Clock!Unset, Columns
<1>2. ClockInv(job) /\ [Clock!Next]_Clock!vars => ClockInv(job)'
  <2> SUFFICES ASSUME ClockInv(job), [Clock!Next]_Clock!vars PROVE ClockInv(job)'
    OBVIOUS
  <2>1. CASE UNCHANGED <<row, timing, pass, starts, announced>>
    BY <2>1 DEF ClockInv, ClockTyped, Started, Awaited, Flagged, Running, Waits
  <2>2. ASSUME NEW r \in Timing,
               \/ Clock!Refused(r)
               \/ \E m \in Match, action \in {"set", "start", "pause", "reset", "flip"} :
                     Clock!Read(r, m, action)
        PROVE  ClockInv(job)'
    <3>1. /\ UNCHANGED <<row, pass, starts, announced>>
          /\ DOMAIN timing' = Timing
          /\ \A s \in Timing : timing'[s].step # "idle" => timing'[s].match \in Match
      BY <2>2 DEF Clock!Refused, Clock!Read, Clock!Idle, ClockInv, ClockTyped
    <3> QED
      BY <3>1 DEF ClockInv, ClockTyped, Started, Awaited, Flagged, Running, Waits
  <2>3. ASSUME NEW r \in Timing,
               \/ \E d \in Durations : Clock!Set(r, d)
               \/ \E d \in Durations \union {None} : Clock!Start(r, d)
               \/ Clock!Pause(r) \/ Clock!Reset(r)
               \/ \E u \in Flipper : Clock!Flip(r, u)
        PROVE  ClockInv(job)'
    BY <2>3, RequestsStart
  <2>4. CASE Clock!Wake(job) \/ Clock!Notify(job) \/ \E m \in Match : Clock!Flag(job, m)
    BY <2>4, JobAnnounces
  <2>5. CASE Clock!Tick \/ UNCHANGED Clock!vars
    BY <2>1, <2>5 DEF Clock!Tick, Clock!vars
  <2> QED
    BY <2>2, <2>3, <2>4, <2>5 DEF Clock!Next
<1>3. ClockInv(job) => CountdownAnnouncedOnce
  <2> SUFFICES ASSUME ClockInv(job), NEW m \in Match PROVE announced[m] <= starts[m]
    BY DEF CountdownAnnouncedOnce, Clock!CountdownAnnouncedOnce
  <2>1. announced[m] + Awaited(job, m) + Flagged(job, m) <= starts[m]
        /\ announced[m] \in Nat /\ starts[m] \in Nat
    BY DEF ClockInv, Started, ClockTyped
  <2>2. Awaited(job, m) \in {0, 1} /\ Flagged(job, m) \in {0, 1}
    BY DEF Awaited, Flagged
  <2> QED
    BY <2>1, <2>2
<1> QED
  BY <1>1, <1>2, <1>3, PTL DEF Clock!Spec

(***************************************************************************)
(* Backups                                                                 *)
(***************************************************************************)

Rows == {"none", "ours", "changed", "theirs"}
Held == Contents \union {Empty}
Sites == [content : Held, settings : [Key -> Rows]]
Backups == [at : Nat, holds : Sites, safety : BOOLEAN, pinned : BOOLEAN]
FileNames == [second : Nat, alias : {"", "alias"}]
Copies == [name : FileNames, at : Nat]

(* No backup of another server is dated at the very moment of a backup of  *)
(* this one.                                                               *)
OffClock(at) == \A i \in Nat : at # 2 * i
Imported ==
    /\ \A u \in Usages : u.foreign \subseteq Backups /\ \A f \in u.foreign : OffClock(f.at)
    /\ None \notin Held /\ None \notin Copies /\ None \notin Key

(* What follows a copy: nothing, a restore or a reset.                     *)
Nothing == [step : {"idle"}]
Thens ==
    Nothing \union [step : {"keep"}, loads : Sites, was : {None}, copy : {None}]
            \union [step : {"empty"}, was : {None}, copy : {None}]

Was == Held \union {None}
Copied == Copies \union {None}

Dumping == [step : {"dump"}, safety : BOOLEAN, alias : {"", "alias"}, then : Thens]
Writing ==
    [step : {"write"}, safety : BOOLEAN, alias : {"", "alias"}, then : Thens, dump : Sites]
Listing == [step : {"list"}, then : Thens, made : Held, copy : Copies]
Pruning ==
    [step : {"prune"}, then : Thens, made : Held, copy : Copies, doomed : SUBSET FileNames]
Keeping == [step : {"keep"}, loads : Sites, was : Was, copy : Copied]
Loading == [step : {"load"}, loads : Sites, was : Was, copy : Copied, own : [Key -> Rows]]
Owning == [step : {"own"}, was : Was, copy : Copied, own : [Key -> Rows]]
Ending == [step : {"empty", "clear"}, was : Was, copy : Copied]

Copying == Dumping \union Writing \union Listing \union Pruning
Replacing == Keeping \union Loading \union Owning \union Ending
Tasks == Nothing \union Copying \union Replacing

(* What a process remembers, by its step.                                  *)
LEMMA TaskFields ==
    ASSUME NEW me \in Tasks
    PROVE  /\ me.step \in {"idle", "dump", "write", "list", "prune",
                           "keep", "load", "own", "empty", "clear"}
           /\ me.step = "idle" => me = Vault!Idle
           /\ me.step = "dump" => me \in Dumping
           /\ me.step = "write" => me \in Writing
           /\ me.step = "list" => me \in Listing
           /\ me.step = "prune" => me \in Pruning
           /\ me.step = "keep" => me \in Keeping
           /\ me.step = "load" => me \in Loading
           /\ me.step = "own" => me \in Owning
           /\ me.step \in {"empty", "clear"} => me \in Ending
<1>1. \A t \in Nothing : t.step = "idle" /\ t = Vault!Idle
  BY DEF Nothing, Vault!Idle
<1>2. \A t \in Dumping : t.step = "dump"
  BY DEF Dumping
<1>3. \A t \in Writing : t.step = "write"
  BY DEF Writing
<1>4. \A t \in Listing : t.step = "list"
  BY DEF Listing
<1>5. \A t \in Pruning : t.step = "prune"
  BY DEF Pruning
<1>6. \A t \in Keeping : t.step = "keep"
  BY DEF Keeping
<1>7. \A t \in Loading : t.step = "load"
  BY DEF Loading
<1>8. \A t \in Owning : t.step = "own"
  BY DEF Owning
<1>9. \A t \in Ending : t.step \in {"empty", "clear"}
  BY DEF Ending
<1> QED
  BY <1>1, <1>2, <1>3, <1>4, <1>5, <1>6, <1>7, <1>8, <1>9 DEF Tasks, Copying, Replacing

(* Where a task goes on to after its copy is made.                         *)
LEMMA ThenFields ==
    ASSUME NEW then \in Thens
    PROVE  /\ then.step \in {"idle", "keep", "empty"}
           /\ then.step = "idle" => then = Vault!Idle
  BY DEF Thens, Nothing, Vault!Idle

NextTask(then, was, copy) == [then EXCEPT !.was = was, !.copy = copy]

LEMMA ThenGoesOn ==
    ASSUME NEW then \in Thens, then # Vault!Idle, NEW was \in Was, NEW copy \in Copied
    PROVE  /\ NextTask(then, was, copy) \in Replacing
           /\ NextTask(then, was, copy).step = then.step
           /\ NextTask(then, was, copy).was = was
           /\ NextTask(then, was, copy).copy = copy
<1>1. ASSUME NEW next, next = [then EXCEPT !.was = was, !.copy = copy]
      PROVE  next \in Replacing /\ next.step = then.step /\ next.was = was /\ next.copy = copy
  <2>1. CASE then \in [step : {"keep"}, loads : Sites, was : {None}, copy : {None}]
    <3>1. next = [step |-> then.step, loads |-> then.loads, was |-> was, copy |-> copy]
      BY <1>1, <2>1
    <3> QED
      BY <2>1, <3>1 DEF Replacing, Keeping
  <2>2. CASE then \in [step : {"empty"}, was : {None}, copy : {None}]
    <3>1. next = [step |-> then.step, was |-> was, copy |-> copy]
      BY <1>1, <2>2
    <3> QED
      BY <2>2, <3>1 DEF Replacing, Ending
  <2> QED
    BY <2>1, <2>2, ThenFields DEF Thens, Nothing, Vault!Idle
<1> QED
  BY <1>1 DEF NextTask

VaultTyped ==
    /\ usage \in Usages
    /\ process \in [Vault!Process -> Tasks]
    /\ site \in Sites
    /\ ours \in [Key -> Rows] /\ DOMAIN cached = Key
    /\ files \in [DOMAIN files -> Backups]
    /\ DOMAIN files \subseteq named /\ named \subseteq FileNames
    /\ second \in Nat /\ written \in Nat

(* The actions that only touch the site or its settings.                   *)
SiteStep ==
    \/ Vault!Edit \/ Vault!CacheSetting \/ Vault!DropSetting
    \/ \E k \in Key : Vault!GetSetting(k) \/ Vault!ChangeSetting(k)

(* Those that touch files only.                                            *)
FileStep == Vault!Import \/ \E x \in DOMAIN files : Vault!Pin(x) \/ Vault!RemoveFile(x)

(* Those that begin something.                                             *)
BeginStep ==
    \/ Vault!Manual \/ Vault!Nightly \/ Vault!ResetData
    \/ \E x \in DOMAIN files : Vault!Restore(x)

(* The steps of a restore or a reset.                                      *)
RestoreStep ==
    \/ Vault!Keep \/ Vault!Load \/ Vault!LoadFails \/ Vault!ClearCache \/ Vault!EmptySite
    \/ \E k \in Key : Vault!OwnSetting(k)

(* The steps of a copy.                                                    *)
CopyStep(p) == Vault!Dump(p) \/ Vault!Write(p) \/ Vault!List(p) \/ Vault!Prune(p)

LEMMA VaultSteps ==
    ASSUME Vault!Next
    PROVE  SiteStep \/ FileStep \/ BeginStep \/ RestoreStep \/ Vault!Crash
               \/ \E p \in Vault!Process : CopyStep(p)
  BY DEF Vault!Next, SiteStep, FileStep, BeginStep, RestoreStep, CopyStep

LEMMA SitesChange ==
    ASSUME NEW s \in Sites
    PROVE  /\ s.content \in Held /\ s.settings \in [Key -> Rows]
           /\ \A c \in Held : [s EXCEPT !.content = c] \in Sites
                                /\ [s EXCEPT !.content = c].settings = s.settings
           /\ \A k \in Key, v \in Rows :
                 LET t == [s EXCEPT !.settings[k] = v] IN
                 t \in Sites /\ t.content = s.content
                    /\ t.settings = [s.settings EXCEPT ![k] = v]
  BY DEF Sites

LEMMA NoRowsTyped == Vault!NoRows \in [Key -> Rows]
  BY DEF Vault!NoRows, Rows

LEMMA SiteTyped ==
    ASSUME VaultTyped, SiteStep, UNCHANGED usage
    PROVE  VaultTyped'
<1>1. UNCHANGED <<process, Vault!disk>>
  BY DEF SiteStep, Vault!Edit, Vault!GetSetting, Vault!CacheSetting, Vault!ChangeSetting,
     Vault!DropSetting
<1>2. site' \in Sites
  <2>1. CASE Vault!Edit
    BY <2>1, SitesChange DEF Vault!Edit, VaultTyped, Held
  <2>2. ASSUME NEW k \in Key, Vault!ChangeSetting(k)
        PROVE  site' \in Sites
    <3>1. site.settings[k] \in Rows
      BY SitesChange DEF VaultTyped
    <3>2. PICK v : v \in {"changed", "none", site.settings[k]}
                     /\ site' = [site EXCEPT !.settings[k] = v]
      BY <2>2 DEF Vault!ChangeSetting
    <3>3. v \in Rows
      BY <3>1, <3>2 DEF Rows
    <3> QED
      BY <3>2, <3>3, SitesChange DEF VaultTyped
  <2>3. CASE UNCHANGED site
    BY <2>3 DEF VaultTyped
  <2> QED
    BY <2>1, <2>2, <2>3 DEF SiteStep, Vault!GetSetting, Vault!CacheSetting, Vault!DropSetting
<1>3. ours' \in [Key -> Rows]
  BY DEF SiteStep, Vault!Edit, Vault!GetSetting, Vault!CacheSetting, Vault!ChangeSetting,
     Vault!DropSetting, VaultTyped, Rows, Vault!settingState
<1>4. DOMAIN cached' = Key
  BY DEF SiteStep, Vault!Edit, Vault!GetSetting, Vault!CacheSetting, Vault!ChangeSetting,
     Vault!DropSetting, VaultTyped, Vault!settingState, Vault!Uncache
<1> QED
  BY <1>1, <1>2, <1>3, <1>4 DEF VaultTyped, Vault!disk

(* A file is put under its name, or a file is gone.                        *)
LEMMA PutTyped ==
    ASSUME VaultTyped, NEW name \in FileNames, NEW file \in Backups, Vault!Put(name, file)
    PROVE  /\ files' \in [DOMAIN files' -> Backups]
           /\ DOMAIN files' = DOMAIN files \union {name}
           /\ files'[name] = file
           /\ \A x \in DOMAIN files : x # name => files'[x] = files[x]
           /\ named' = named \union {name} /\ named' \subseteq FileNames
           /\ second' \in Nat /\ written' = written + 1
<1>1. files' = [x \in DOMAIN files \union {name} |-> IF x = name THEN file ELSE files[x]]
  BY DEF Vault!Put
<1>2. /\ named' = named \union {name} /\ second' = name.second /\ written' = written + 1
  BY DEF Vault!Put
<1>3. name.second \in Nat
  BY DEF FileNames
<1> QED
  BY <1>1, <1>2, <1>3 DEF VaultTyped

LEMMA NextSecond ==
    ASSUME VaultTyped
    PROVE  \A s : s \in {second, second + 1} => s \in Nat /\ s >= second
  BY DEF VaultTyped

LEMMA NamesTyped ==
    ASSUME VaultTyped, NEW alias \in {"", "alias"}
    PROVE  \A name \in Vault!Names(alias) :
              /\ name \in FileNames /\ name.alias = alias
              /\ name.second \in {second, second + 1}
<1>1. ASSUME NEW s, s \in {second, second + 1}
      PROVE  LET name == [second |-> s, alias |-> alias] IN
             name \in FileNames /\ name.alias = alias /\ name.second = s
  BY <1>1, NextSecond DEF FileNames
<1> QED
  BY <1>1 DEF Vault!Names

LEMMA FileTyped ==
    ASSUME Imported, VaultTyped, FileStep, UNCHANGED usage
    PROVE  VaultTyped'
<1>1. UNCHANGED <<process, site, Vault!settingState>>
  BY DEF FileStep, Vault!Import, Vault!Pin, Vault!RemoveFile
<1>2. /\ files' \in [DOMAIN files' -> Backups]
      /\ DOMAIN files' \subseteq named' /\ named' \subseteq FileNames
      /\ second' \in Nat /\ written' \in Nat
  <2>1. CASE Vault!Import
    <3>1. PICK file \in usage.foreign \union {files[x] : x \in DOMAIN files},
               name \in Vault!Names("alias") : Vault!Put(name, file)
      BY <2>1 DEF Vault!Import
    <3>2. file \in Backups
      BY DEF VaultTyped, Imported
    <3>3. name \in FileNames
      BY NamesTyped
    <3>4. /\ files' \in [DOMAIN files' -> Backups] /\ DOMAIN files' = DOMAIN files \union {name}
          /\ named' = named \union {name} /\ named' \subseteq FileNames
          /\ second' \in Nat /\ written' = written + 1
      BY <3>1, <3>2, <3>3, PutTyped
    <3>5. DOMAIN files \subseteq named /\ written \in Nat
      BY DEF VaultTyped
    <3> QED
      BY <3>4, <3>5
  <2>2. ASSUME NEW x \in DOMAIN files, Vault!Pin(x)
        PROVE  <1>2!1 /\ <1>2!2 /\ <1>2!3
    <3>1. files' = [files EXCEPT ![x].pinned = ~@]
      BY <2>2 DEF Vault!Pin
    <3>2. UNCHANGED <<second, written, named>>
      BY <2>2 DEF Vault!Pin
    <3>3. [files[x] EXCEPT !.pinned = ~@] \in Backups
      BY DEF VaultTyped, Backups
    <3> QED
      BY <3>1, <3>2, <3>3 DEF VaultTyped
  <2>3. ASSUME NEW x \in DOMAIN files, Vault!RemoveFile(x)
        PROVE  <1>2!1 /\ <1>2!2 /\ <1>2!3
    <3>1. files' = [y \in DOMAIN files \ {x} |-> files[y]]
      BY <2>3 DEF Vault!RemoveFile
    <3>2. UNCHANGED <<second, written, named>>
      BY <2>3 DEF Vault!RemoveFile
    <3> QED
      BY <3>1, <3>2 DEF VaultTyped
  <2> QED
    BY <2>1, <2>2, <2>3 DEF FileStep
<1> QED
  BY <1>1, <1>2 DEF VaultTyped, Vault!settingState

(* A process goes on to a task.                                            *)
LEMMA TaskTaken ==
    ASSUME VaultTyped, NEW p \in Vault!Process, NEW next \in Tasks,
           process' = [process EXCEPT ![p] = next]
    PROVE  /\ process' \in [Vault!Process -> Tasks]
           /\ process'[p] = next
           /\ \A q \in Vault!Process : q # p => process'[q] = process[q]
  BY DEF VaultTyped

(* Whoever begins had nothing to do, and copies or restores a safety copy. *)
LEMMA Beginning ==
    ASSUME VaultTyped, BeginStep
    PROVE  /\ UNCHANGED <<site, Vault!settingState, Vault!disk>>
           /\ \E p \in Vault!Process : \E next \in Tasks :
                 /\ process[p] = Vault!Idle
                 /\ process' = [process EXCEPT ![p] = next]
                 /\ next.step \in {"dump", "keep"}
                 /\ next.step = "dump" => next.then = Vault!Idle \/ next.alias = ""
                 /\ next.step = "keep" => next.was = None
                 /\ p = "night" =>
                       next.step = "dump" /\ next.then = Vault!Idle /\ next.alias = ""
<1> DEFINE Fits(p, next) ==
                 /\ process[p] = Vault!Idle
                 /\ process' = [process EXCEPT ![p] = next]
                 /\ next.step \in {"dump", "keep"}
                 /\ next.step = "dump" => next.then = Vault!Idle \/ next.alias = ""
                 /\ next.step = "keep" => next.was = None
                 /\ p = "night" =>
                       next.step = "dump" /\ next.then = Vault!Idle /\ next.alias = ""
<1>1. UNCHANGED <<site, Vault!settingState, Vault!disk>>
  BY DEF BeginStep, Vault!Manual, Vault!Nightly, Vault!ResetData, Vault!Restore, Vault!Create
<1>2. ASSUME NEW p \in Vault!Process, NEW safety \in BOOLEAN, NEW alias \in {"", "alias"},
             NEW then \in Thens, Vault!Create(p, safety, alias, then), process[p] = Vault!Idle,
             then = Vault!Idle \/ alias = "",
             p = "night" => then = Vault!Idle /\ alias = ""
      PROVE  \E next \in Tasks : Fits(p, next)
  <2> DEFINE next == [step |-> "dump", safety |-> safety, alias |-> alias, then |-> then]
  <2>1. process' = [process EXCEPT ![p] = next]
    BY <1>2 DEF Vault!Create, Vault!Go
  <2>2. next.step = "dump" /\ next.then = then /\ next.alias = alias
    OBVIOUS
  <2>3. next \in Tasks
    BY DEF Tasks, Copying, Dumping
  <2> HIDE DEF next
  <2> QED
    BY <1>2, <2>1, <2>2, <2>3
<1> HIDE DEF Fits
<1>3. Vault!Idle \in Thens
  BY DEF Thens, Nothing, Vault!Idle
<1>4. ASSUME Vault!Manual
      PROVE  \E next \in Tasks : Fits("user", next)
  BY <1>2, <1>3, <1>4 DEF Vault!Manual, Vault!Process
<1>5. ASSUME Vault!Nightly
      PROVE  \E next \in Tasks : Fits("night", next)
  BY <1>2, <1>3, <1>5 DEF Vault!Nightly, Vault!Process
<1>6. ASSUME Vault!ResetData
      PROVE  \E next \in Tasks : Fits("user", next)
  <2>1. [step |-> "empty", was |-> None, copy |-> None] \in Thens
    BY DEF Thens
  <2> QED
    BY <1>2, <1>6, <2>1 DEF Vault!ResetData, Vault!Process
<1>7. ASSUME NEW x \in DOMAIN files, Vault!Restore(x)
      PROVE  \E next \in Tasks : Fits("user", next)
  <2> DEFINE load == [step |-> "keep", loads |-> files[x].holds, was |-> None, copy |-> None]
  <2>1. files[x].holds \in Sites
    BY DEF VaultTyped, Backups
  <2>2. load \in Thens /\ load \in Keeping
    BY <2>1 DEF Thens, Keeping, Was, Copied
  <2>3. load.step = "keep" /\ load.was = None
    OBVIOUS
  <2>4. /\ process["user"] = Vault!Idle
        /\ Vault!Go("user", load) \/ Vault!Create("user", TRUE, "", load)
    BY <1>7 DEF Vault!Restore
  <2> HIDE DEF load
  <2>5. CASE Vault!Go("user", load)
    BY <2>2, <2>3, <2>4, <2>5 DEF Vault!Go, Fits, Tasks, Replacing
  <2>6. CASE Vault!Create("user", TRUE, "", load)
    BY <1>2, <2>2, <2>4, <2>6 DEF Vault!Process
  <2> QED
    BY <2>4, <2>5, <2>6
<1> QED
  BY <1>1, <1>4, <1>5, <1>6, <1>7 DEF BeginStep, Vault!Process, Fits

LEMMA BeginTyped ==
    ASSUME VaultTyped, BeginStep, UNCHANGED usage
    PROVE  VaultTyped'
<1>1. UNCHANGED <<site, Vault!settingState, Vault!disk>>
  BY Beginning
<1>2. \E p \in Vault!Process : \E next \in Tasks : process' = [process EXCEPT ![p] = next]
  BY Beginning
<1>3. process' \in [Vault!Process -> Tasks]
  BY <1>2, TaskTaken
<1> QED
  BY <1>1, <1>3 DEF VaultTyped, Vault!settingState, Vault!disk


LEMMA PruneGoesOn ==
    ASSUME VaultTyped, NEW p \in Vault!Process, process[p] \in Pruning, Vault!Prune(p)
    PROVE  LET me == process[p] IN
           \E next \in Tasks :
              /\ process' = [process EXCEPT ![p] = next]
              /\ \/ next = Vault!Idle
                 \/ /\ me.then # Vault!Idle /\ me.copy.name \in DOMAIN files \ me.doomed
                    /\ next \in Replacing /\ next.step = me.then.step
                    /\ next.was = me.made /\ next.copy = me.copy
<1> DEFINE me == process[p]
           next == NextTask(me.then, me.made, me.copy)
<1>1. me.then \in Thens /\ me.made \in Was /\ me.copy \in Copied
  BY DEF Pruning, Was, Copied
<1>2. \/ process' = [process EXCEPT ![p] = Vault!Idle]
      \/ /\ me.then # Vault!Idle /\ me.copy.name \in DOMAIN files \ me.doomed
         /\ process' = [process EXCEPT ![p] = next]
  BY DEF Vault!Prune, Vault!Go, NextTask
<1>3. Vault!Idle \in Tasks
  BY DEF Tasks, Nothing, Vault!Idle
<1>4. CASE process' = [process EXCEPT ![p] = Vault!Idle]
  BY <1>3, <1>4
<1>5. CASE /\ me.then # Vault!Idle /\ me.copy.name \in DOMAIN files \ me.doomed
           /\ process' = [process EXCEPT ![p] = next]
  <2>2. /\ next \in Replacing /\ next.step = me.then.step
        /\ next.was = me.made /\ next.copy = me.copy
    BY <1>1, <1>5, ThenGoesOn
  <2>3. next \in Tasks
    BY <2>2 DEF Tasks
  <2> HIDE DEF next
  <2> QED
    BY <1>5, <2>2, <2>3
<1> QED
  BY <1>2, <1>4, <1>5

LEMMA CopyTyped ==
    ASSUME VaultTyped, NEW p \in Vault!Process, CopyStep(p), UNCHANGED usage
    PROVE  VaultTyped'
<1> DEFINE me == process[p]
<1>1. UNCHANGED <<site, Vault!settingState>>
  BY DEF CopyStep, Vault!Dump, Vault!Write, Vault!List, Vault!Prune
<1>2. me \in Tasks
  BY DEF VaultTyped
<1>3. CASE Vault!Dump(p)
  <2> DEFINE next == [step |-> "write", safety |-> me.safety, alias |-> me.alias,
                      then |-> me.then, dump |-> site]
  <2>1. me.step = "dump" /\ process' = [process EXCEPT ![p] = next] /\ UNCHANGED Vault!disk
    BY <1>3 DEF Vault!Dump, Vault!Go
  <2>2. me \in Dumping
    BY <1>2, <2>1, TaskFields
  <2>3. next \in Tasks
    BY <2>2 DEF VaultTyped, Dumping, Writing, Tasks, Copying
  <2>4. process' \in [Vault!Process -> Tasks]
    BY <2>1, <2>3, TaskTaken
  <2> QED
    BY <1>1, <2>1, <2>4 DEF VaultTyped, Vault!settingState, Vault!disk
<1>4. CASE Vault!Write(p)
  <2>1. me.step = "write"
    BY <1>4 DEF Vault!Write
  <2>2. me \in Writing
    BY <1>2, <2>1, TaskFields
  <2> DEFINE made == [at |-> Vault!Now, holds |-> me.dump, safety |-> me.safety,
                      pinned |-> me.alias # ""]
             next(name) == [step |-> "list", then |-> me.then, made |-> me.dump.content,
                            copy |-> [name |-> name, at |-> Vault!Now]]
  <2>3. PICK name \in Vault!Names(me.alias) :
           Vault!Put(name, made) /\ process' = [process EXCEPT ![p] = next(name)]
    BY <1>4 DEF Vault!Write, Vault!Go
  <2>4. name \in FileNames
    BY <2>2, NamesTyped DEF Writing
  <2>5. Vault!Now \in Nat
    BY DEF VaultTyped, Vault!Now
  <2>6. made \in Backups
    BY <2>2, <2>5 DEF Writing, Backups
  <2>7. /\ files' \in [DOMAIN files' -> Backups] /\ DOMAIN files' = DOMAIN files \union {name}
        /\ named' = named \union {name} /\ named' \subseteq FileNames
        /\ second' \in Nat /\ written' = written + 1
    <3> HIDE DEF made
    <3> QED
      BY <2>3, <2>4, <2>6, PutTyped
  <2>8. me.dump.content \in Held
    BY <2>2, SitesChange DEF Writing
  <2>9. next(name) \in Tasks
    BY <2>2, <2>4, <2>5, <2>8 DEF Writing, Listing, Tasks, Copying, Copies
  <2>10. process' \in [Vault!Process -> Tasks]
    <3> HIDE DEF next
    <3> QED
      BY <2>3, <2>9, TaskTaken
  <2> QED
    BY <1>1, <2>7, <2>10 DEF VaultTyped, Vault!settingState
<1>5. CASE Vault!List(p)
  <2>1. me.step = "list" /\ UNCHANGED Vault!disk
    BY <1>5 DEF Vault!List
  <2>2. me \in Listing
    BY <1>2, <2>1, TaskFields
  <2> DEFINE next(kept) == [step |-> "prune", then |-> me.then, made |-> me.made,
                            copy |-> me.copy, doomed |-> Vault!Disposable \ kept]
  <2>3. PICK kept \in SUBSET Vault!Disposable : process' = [process EXCEPT ![p] = next(kept)]
    BY <1>5 DEF Vault!List, Vault!Go
  <2>4. Vault!Disposable \ kept \in SUBSET FileNames
    BY DEF VaultTyped, Vault!Disposable
  <2>5. next(kept) \in Tasks
    BY <2>2, <2>4 DEF Listing, Pruning, Tasks, Copying
  <2>6. process' \in [Vault!Process -> Tasks]
    <3> HIDE DEF next
    <3> QED
      BY <2>3, <2>5, TaskTaken
  <2> QED
    BY <1>1, <2>1, <2>6 DEF VaultTyped, Vault!settingState, Vault!disk
<1>6. CASE Vault!Prune(p)
  <2>1. /\ me.step = "prune" /\ UNCHANGED <<second, written, named>>
        /\ files' = [x \in DOMAIN files \ me.doomed |-> files[x]]
    BY <1>6 DEF Vault!Prune
  <2>2. me \in Pruning
    BY <1>2, <2>1, TaskFields
  <2>3. process' \in [Vault!Process -> Tasks]
    BY <1>6, <2>2, PruneGoesOn, TaskTaken
  <2>4. files' \in [DOMAIN files' -> Backups] /\ DOMAIN files' \subseteq DOMAIN files
    BY <2>1 DEF VaultTyped
  <2> QED
    BY <1>1, <2>1, <2>3, <2>4 DEF VaultTyped, Vault!settingState
<1> QED
  BY <1>3, <1>4, <1>5, <1>6 DEF CopyStep

(* A restore that stops leaves a site, and forgets the rows it has lost.   *)
LEMMA InterruptedTyped ==
    ASSUME VaultTyped, Vault!Interrupted
    PROVE  /\ site' \in Sites /\ ours' \in [Key -> Rows]
           /\ \A k \in Key : ours'[k] # "none" => site'.settings[k] = ours'[k]
<1>1. site' \in Sites
  <2>1. CASE process["user"].step = "load"
    <3>1. process["user"] \in Loading
      BY <2>1, TaskFields DEF VaultTyped, Vault!Process
    <3> DEFINE loads == process["user"].loads
    <3>2. loads \in Sites
      BY <3>1 DEF Loading
    <3>3. {site.content, Empty, loads.content} \subseteq Held
      BY <3>2, SitesChange DEF VaultTyped, Held
    <3>4. {site.settings, Vault!NoRows, loads.settings} \subseteq [Key -> Rows]
      BY <3>2, SitesChange, NoRowsTyped DEF VaultTyped
    <3>5. site' \in [content : {site.content, Empty, loads.content},
                     settings : {site.settings, Vault!NoRows, loads.settings}]
      BY <2>1 DEF Vault!Interrupted
    <3> HIDE DEF loads
    <3> QED
      BY <3>3, <3>4, <3>5 DEF Sites
  <2>2. CASE process["user"].step # "load"
    BY <2>2 DEF Vault!Interrupted, VaultTyped
  <2> QED
    BY <2>1, <2>2
<1>2. ours' = [k \in Key |-> IF site'.settings[k] = ours[k] THEN ours[k] ELSE "none"]
  BY DEF Vault!Interrupted
<1> QED
  BY <1>1, <1>2 DEF VaultTyped, Rows

(* The user's request goes on to the next step of a restore or a reset.    *)
UserGoes(next) == next \in Tasks /\ process' = [process EXCEPT !["user"] = next]

LEMMA KeepTyped ==
    ASSUME VaultTyped, Vault!Keep
    PROVE  \E kept \in {site.settings, Vault!NoRows} :
              /\ process["user"] \in Keeping
              /\ UserGoes([step |-> "load", loads |-> process["user"].loads,
                           was |-> process["user"].was, copy |-> process["user"].copy,
                           own |-> kept])
              /\ kept = site.settings => UNCHANGED ours
              /\ kept # site.settings => ours' = Vault!NoRows
              /\ UNCHANGED <<site, cached, reading, changing, missed, Vault!disk>>
<1> DEFINE me == process["user"]
           next(kept) == [step |-> "load", loads |-> me.loads, was |-> me.was,
                          copy |-> me.copy, own |-> kept]
<1>1. me \in Keeping
  BY TaskFields DEF Vault!Keep, VaultTyped, Vault!Process
<1>2. ASSUME NEW kept \in {site.settings, Vault!NoRows}
      PROVE  next(kept) \in Tasks
  <2>1. kept \in [Key -> Rows]
    BY SitesChange, NoRowsTyped DEF VaultTyped
  <2> QED
    BY <1>1, <2>1 DEF Keeping, Loading, Tasks, Replacing
<1> HIDE DEF next
<1> QED
  BY <1>1, <1>2 DEF Vault!Keep, Vault!Go, UserGoes, next

LEMMA LoadTyped ==
    ASSUME VaultTyped, Vault!Load
    PROVE  /\ process["user"] \in Loading
           /\ UserGoes([step |-> "own", own |-> process["user"].own,
                        was |-> process["user"].was, copy |-> process["user"].copy])
           /\ site' = process["user"].loads /\ site' \in Sites
           /\ UNCHANGED <<Vault!settingState, Vault!disk>>
<1> DEFINE me == process["user"]
           next == [step |-> "own", own |-> me.own, was |-> me.was, copy |-> me.copy]
<1>1. me \in Loading
  BY TaskFields DEF Vault!Load, VaultTyped, Vault!Process
<1>2. next \in Tasks
  BY <1>1 DEF Loading, Owning, Tasks, Replacing
<1>3. me.loads \in Sites
  BY <1>1 DEF Loading
<1> HIDE DEF next
<1> QED
  BY <1>1, <1>2, <1>3 DEF Vault!Load, Vault!Go, UserGoes, next

LEMMA OwnSettingTyped ==
    ASSUME VaultTyped, NEW k \in Key, Vault!OwnSetting(k)
    PROVE  LET me == process["user"] IN
           /\ me \in Owning /\ me.own[k] # "none"
           /\ UserGoes([step |-> "own", own |-> [me.own EXCEPT ![k] = "none"],
                        was |-> me.was, copy |-> me.copy])
           /\ \/ site' = [site EXCEPT !.settings[k] = me.own[k]] /\ UNCHANGED ours
              \/ ours' = [ours EXCEPT ![k] = "none"] /\ UNCHANGED site
           /\ site' \in Sites /\ ours' \in [Key -> Rows]
           /\ UNCHANGED <<cached, reading, changing, missed, Vault!disk>>
<1> DEFINE me == process["user"]
           next == [step |-> "own", own |-> [me.own EXCEPT ![k] = "none"],
                    was |-> me.was, copy |-> me.copy]
<1>1. me \in Owning
  BY TaskFields DEF Vault!OwnSetting, VaultTyped, Vault!Process
<1>2. [me EXCEPT !.own[k] = "none"] = next
  BY <1>1 DEF Owning
<1>3. next \in Tasks
  BY <1>1 DEF Owning, Tasks, Replacing, Rows
<1>4. UserGoes(next) /\ me.own[k] # "none"
  BY <1>2, <1>3 DEF Vault!OwnSetting, Vault!Go, UserGoes
<1>5. me.own[k] \in Rows
  BY <1>1 DEF Owning
<1>6. /\ \/ site' = [site EXCEPT !.settings[k] = me.own[k]] /\ UNCHANGED ours
         \/ ours' = [ours EXCEPT ![k] = "none"] /\ UNCHANGED site
      /\ UNCHANGED <<cached, reading, changing, missed, Vault!disk>>
  BY DEF Vault!OwnSetting
<1>7. site' \in Sites
  BY <1>5, <1>6, SitesChange DEF VaultTyped
<1>8. ours' \in [Key -> Rows]
  BY <1>6 DEF VaultTyped, Rows
<1> QED
  BY <1>1, <1>4, <1>6, <1>7, <1>8

LEMMA EmptySiteTyped ==
    ASSUME VaultTyped, Vault!EmptySite
    PROVE  /\ process["user"] \in Ending
           /\ UserGoes([step |-> "clear", was |-> process["user"].was,
                        copy |-> process["user"].copy])
           /\ site' = [site EXCEPT !.content = Empty] /\ site' \in Sites
           /\ UNCHANGED <<Vault!settingState, Vault!disk>>
<1> DEFINE me == process["user"]
           next == [step |-> "clear", was |-> me.was, copy |-> me.copy]
<1>1. me \in Ending
  BY TaskFields DEF Vault!EmptySite, VaultTyped, Vault!Process
<1>2. next \in Tasks
  BY <1>1 DEF Ending, Tasks, Replacing
<1>3. [site EXCEPT !.content = Empty] \in Sites
  BY SitesChange DEF VaultTyped, Held
<1> HIDE DEF next
<1> QED
  BY <1>1, <1>2, <1>3 DEF Vault!EmptySite, Vault!Go, UserGoes, next

LEMMA IdleIsATask == Vault!Idle \in Tasks
  BY DEF Tasks, Nothing, Vault!Idle

LEMMA RestoreTyped ==
    ASSUME VaultTyped, RestoreStep, UNCHANGED usage
    PROVE  VaultTyped'
<1>1. UNCHANGED Vault!disk /\ DOMAIN cached' = Key
  BY DEF RestoreStep, Vault!Keep, Vault!Load, Vault!LoadFails, Vault!ClearCache, Vault!EmptySite,
     Vault!OwnSetting, Vault!settingState, Vault!Uncache, VaultTyped
<1> DEFINE Fits == \/ \E next : UserGoes(next)
                   \/ process' = [process EXCEPT !["user"] = Vault!Idle]
<1>2. Fits /\ site' \in Sites /\ ours' \in [Key -> Rows]
  <2>1. CASE Vault!Keep
    BY <2>1, KeepTyped, NoRowsTyped DEF VaultTyped
  <2>2. CASE Vault!Load
    BY <2>2, LoadTyped DEF VaultTyped, Vault!settingState
  <2>3. CASE Vault!LoadFails
    BY <2>3, InterruptedTyped DEF Vault!LoadFails, Vault!Go
  <2>4. CASE Vault!ClearCache
    BY <2>4 DEF Vault!ClearCache, Vault!Go, VaultTyped
  <2>5. CASE Vault!EmptySite
    BY <2>5, EmptySiteTyped DEF VaultTyped, Vault!settingState
  <2>6. ASSUME NEW k \in Key, Vault!OwnSetting(k)
        PROVE  <1>2
    BY <2>6, OwnSettingTyped
  <2> QED
    BY <2>1, <2>2, <2>3, <2>4, <2>5, <2>6 DEF RestoreStep
<1>3. process' \in [Vault!Process -> Tasks]
  BY <1>2, TaskTaken, IdleIsATask DEF UserGoes, Vault!Process
<1> QED
  BY <1>1, <1>2, <1>3 DEF VaultTyped, Vault!disk

LEMMA CrashTyped ==
    ASSUME VaultTyped, Vault!Crash, UNCHANGED usage
    PROVE  VaultTyped'
<1>1. site' \in Sites /\ ours' \in [Key -> Rows]
  BY InterruptedTyped DEF Vault!Crash
<1>2. /\ process' = [p \in Vault!Process |-> Vault!Idle] /\ UNCHANGED Vault!disk
      /\ DOMAIN cached' = Key
  BY DEF Vault!Crash
<1> QED
  BY <1>1, <1>2, IdleIsATask DEF VaultTyped, Vault!disk

(* What the vault holds is of these kinds, always.                         *)
LEMMA VaultBeginsTyped ==
    ASSUME Imported, Vault!Init
    PROVE  VaultTyped
<1>1. ours \in [Key -> Rows]
  BY DEF Vault!Init, Rows
<1>2. site \in Sites
  BY <1>1 DEF Vault!Init, Sites, Held
<1>3. process \in [Vault!Process -> Tasks]
  BY IdleIsATask DEF Vault!Init
<1>4. files \in [DOMAIN files -> Backups] /\ DOMAIN files = {}
  BY DEF Vault!Init
<1> QED
  BY <1>1, <1>2, <1>3, <1>4 DEF VaultTyped, Vault!Init

LEMMA VaultStaysTyped ==
    ASSUME Imported, VaultTyped, [Vault!Next]_Vault!vars
    PROVE  VaultTyped'
<1>1. CASE Vault!Next
  BY <1>1, VaultSteps, SiteTyped, FileTyped, BeginTyped, RestoreTyped, CrashTyped, CopyTyped
     DEF Vault!Next
<1>2. CASE UNCHANGED Vault!vars
  BY <1>2 DEF VaultTyped, Vault!vars, Vault!settingState, Vault!disk
<1> QED
  BY <1>1, <1>2

(***************************************************************************)
(* The settings of this server                                             *)
(***************************************************************************)

(* A row people have set is in the database, or a restore is about to put  *)
(* it back.                                                                *)
RowHeld(k) ==
    LET me == process["user"] IN
    ours[k] # "none" =>
        /\ me.step = "load" => me.own[k] = ours[k]
        /\ me.step = "own" /\ me.own[k] # "none" => me.own[k] = ours[k]
        /\ ~(me.step = "own" /\ me.own[k] # "none") => site.settings[k] = ours[k]

(* What is cached, or about to be, is what is in the database.             *)
CacheFresh(k) ==
    process["user"].step # "own" /\ k \notin missed /\ k # changing =>
        /\ cached[k] \in {None, site.settings[k]}
        /\ reading # None /\ reading.key = k => reading.value = site.settings[k]

SettingsInv == VaultTyped /\ \A k \in Key : RowHeld(k) /\ CacheFresh(k)

(* Steps of copies, and with files, leave the settings and their restore.  *)
LEMMA CopiesAside ==
    ASSUME VaultTyped, FileStep \/ BeginStep \/ \E p \in Vault!Process : CopyStep(p)
    PROVE  /\ UNCHANGED <<site, Vault!settingState>>
           /\ \/ UNCHANGED process["user"]
              \/ /\ process["user"].step \notin {"load", "own"}
                 /\ process'["user"].step \notin {"load", "own"}
<1> DEFINE Aside == \/ process'["user"] = process["user"]
                    \/ /\ process["user"].step \notin {"load", "own"}
                       /\ process'["user"].step \notin {"load", "own"}
<1>1. CASE FileStep
  BY <1>1 DEF FileStep, Vault!Import, Vault!Pin, Vault!RemoveFile
<1>2. CASE BeginStep
  <2>1. PICK p \in Vault!Process, next \in Tasks :
           /\ process[p] = Vault!Idle /\ process' = [process EXCEPT ![p] = next]
           /\ next.step \in {"dump", "keep"}
    BY <1>2, Beginning
  <2>2. process'[p] = next /\ \A q \in Vault!Process : q # p => process'[q] = process[q]
    BY <2>1, TaskTaken
  <2>3. Aside
    BY <2>1, <2>2 DEF Vault!Idle, Vault!Process
  <2> QED
    BY <1>2, <2>3, Beginning
<1>3. ASSUME NEW p \in Vault!Process, CopyStep(p)
      PROVE  UNCHANGED <<site, Vault!settingState>> /\ Aside
  <2>1. UNCHANGED <<site, Vault!settingState>>
    BY <1>3 DEF CopyStep, Vault!Dump, Vault!Write, Vault!List, Vault!Prune
  <2>2. process[p].step \notin {"load", "own"}
    BY <1>3 DEF CopyStep, Vault!Dump, Vault!Write, Vault!List, Vault!Prune
  <2>3. \A next : process' = [process EXCEPT ![p] = next]
                  => process'[p] = next /\ \A q \in Vault!Process : q # p => process'[q] = process[q]
    BY DEF VaultTyped
  <2>4. \E next : process' = [process EXCEPT ![p] = next] /\ next.step \notin {"load", "own"}
    <3>1. CASE Vault!Prune(p)
      <4>1. process[p] \in Pruning
        BY <3>1, TaskFields DEF VaultTyped, Vault!Prune
      <4>2. process[p].then.step \in {"idle", "keep", "empty"}
        BY <4>1, ThenFields DEF Pruning
      <4> QED
        BY <3>1, <4>1, <4>2, PruneGoesOn DEF Vault!Idle
    <3>2. CASE Vault!Dump(p)
      <4> DEFINE next == [step |-> "write", safety |-> process[p].safety,
                          alias |-> process[p].alias, then |-> process[p].then, dump |-> site]
      <4>1. process' = [process EXCEPT ![p] = next]
        BY <3>2 DEF Vault!Dump, Vault!Go
      <4>2. next.step = "write"
        OBVIOUS
      <4> HIDE DEF next
      <4> QED
        BY <4>1, <4>2
    <3>3. CASE Vault!Write(p)
      BY <3>3 DEF Vault!Write, Vault!Go
    <3>4. CASE Vault!List(p)
      BY <3>4 DEF Vault!List, Vault!Go
    <3> QED
      BY <1>3, <3>1, <3>2, <3>3, <3>4 DEF CopyStep
  <2> QED
    BY <2>1, <2>2, <2>3, <2>4 DEF Vault!Process
<1> QED
  BY <1>1, <1>2, <1>3

LEMMA SettingsOfSite ==
    ASSUME Imported, SettingsInv, SiteStep, NEW k \in Key
    PROVE  RowHeld(k)' /\ CacheFresh(k)'
<1>1. RowHeld(k) /\ CacheFresh(k) /\ VaultTyped /\ UNCHANGED process
  BY DEF SettingsInv, SiteStep, Vault!Edit, Vault!GetSetting, Vault!CacheSetting,
     Vault!ChangeSetting, Vault!DropSetting
<1>2. CASE Vault!Edit
  <2>1. site'.settings = site.settings /\ UNCHANGED Vault!settingState
    BY <1>1, <1>2, SitesChange DEF Vault!Edit, VaultTyped, Held
  <2> QED
    BY <1>1, <2>1 DEF RowHeld, CacheFresh, Vault!settingState
<1>3. ASSUME NEW j \in Key, Vault!GetSetting(j)
      PROVE  RowHeld(k)' /\ CacheFresh(k)'
  BY <1>1, <1>3 DEF Vault!GetSetting, RowHeld, CacheFresh
<1>4. CASE Vault!CacheSetting
  BY <1>1, <1>4 DEF Vault!CacheSetting, RowHeld, CacheFresh, VaultTyped
<1>5. ASSUME NEW j \in Key, Vault!ChangeSetting(j)
      PROVE  RowHeld(k)' /\ CacheFresh(k)'
  <2>1. site.settings \in [Key -> Rows]
    BY <1>1, SitesChange DEF VaultTyped
  <2>2. PICK v : /\ v \in {"changed", "none", site.settings[j]}
                 /\ site' = [site EXCEPT !.settings[j] = v]
                 /\ ours' = [ours EXCEPT ![j] = IF Vault!Restoring \/ v # "changed"
                                                   THEN "none" ELSE v]
    BY <1>5 DEF Vault!ChangeSetting
  <2>3. v \in Rows
    BY <2>1, <2>2 DEF Rows
  <2>4. site'.settings = [site.settings EXCEPT ![j] = v]
    BY <1>1, <2>2, <2>3, SitesChange DEF VaultTyped
  <2>5. /\ UNCHANGED <<cached, reading, missed>>
        /\ changing' = j
    BY <1>5 DEF Vault!ChangeSetting
  <2>6. changing = None
    BY <1>5 DEF Vault!ChangeSetting
  <2>7. RowHeld(k)'
    <3>1. CASE k = j
      BY <1>1, <2>1, <2>2, <2>4, <3>1 DEF RowHeld, Vault!Restoring, VaultTyped
    <3>2. CASE k # j
      BY <1>1, <2>1, <2>2, <2>4, <3>2 DEF RowHeld, VaultTyped
    <3> QED
      BY <3>1, <3>2
  <2>8. CacheFresh(k)'
    <3>1. CASE k = j
      BY <2>5, <3>1 DEF CacheFresh
    <3>2. CASE k # j
      <4>1. site'.settings[k] = site.settings[k]
        BY <2>1, <2>4, <3>2
      <4> QED
        BY <1>1, <2>5, <2>6, <4>1 DEF CacheFresh, Imported
    <3> QED
      BY <3>1, <3>2
  <2> QED
    BY <2>7, <2>8
<1>6. CASE Vault!DropSetting
  BY <1>1, <1>6 DEF Vault!DropSetting, Vault!Uncache, RowHeld, CacheFresh
<1> QED
  BY <1>2, <1>3, <1>4, <1>5, <1>6 DEF SiteStep

(* Where the user's request goes on to.                                    *)
LEMMA UserGone ==
    ASSUME VaultTyped, NEW next, process' = [process EXCEPT !["user"] = next]
    PROVE  process'["user"] = next
  BY DEF VaultTyped, Vault!Process

LEMMA SettingsOfRestore ==
    ASSUME SettingsInv, RestoreStep, NEW k \in Key
    PROVE  RowHeld(k)' /\ CacheFresh(k)'
<1> DEFINE me == process["user"]
<1>1. RowHeld(k) /\ CacheFresh(k) /\ VaultTyped
  BY DEF SettingsInv
<1>2. CASE Vault!Keep
  <2>1. PICK kept \in {site.settings, Vault!NoRows} :
              /\ me \in Keeping
              /\ UserGoes([step |-> "load", loads |-> me.loads, was |-> me.was,
                           copy |-> me.copy, own |-> kept])
              /\ kept = site.settings => UNCHANGED ours
              /\ kept # site.settings => ours' = Vault!NoRows
              /\ UNCHANGED <<site, cached, reading, changing, missed, Vault!disk>>
    BY <1>1, <1>2, KeepTyped
  <2>2. process'["user"].step = "load" /\ process'["user"].own = kept
    BY <1>1, <2>1, UserGone DEF UserGoes
  <2>3. me.step = "keep"
    BY <1>2 DEF Vault!Keep
  <2>4. CASE kept = site.settings
    BY <1>1, <2>1, <2>2, <2>3, <2>4 DEF RowHeld, CacheFresh
  <2>5. CASE kept # site.settings
    BY <1>1, <2>1, <2>2, <2>3, <2>5 DEF RowHeld, CacheFresh, Vault!NoRows
  <2> QED
    BY <2>4, <2>5
<1>3. CASE Vault!Load
  <2>1. process'["user"] = [step |-> "own", own |-> me.own, was |-> me.was, copy |-> me.copy]
    BY <1>1, <1>3, LoadTyped, UserGone DEF UserGoes
  <2>2. me.step = "load" /\ UNCHANGED ours
    BY <1>3 DEF Vault!Load, Vault!settingState
  <2> QED
    BY <1>1, <2>1, <2>2 DEF RowHeld, CacheFresh
<1>4. CASE Vault!LoadFails
  <2>1. process'["user"] = Vault!Idle
    BY <1>1, <1>4, UserGone DEF Vault!LoadFails, Vault!Go
  <2>2. /\ me.step = "load" /\ UNCHANGED <<cached, reading, changing>>
        /\ missed' = missed \union {j \in Key : site'.settings[j] # site.settings[j]}
    BY <1>4 DEF Vault!LoadFails
  <2>3. RowHeld(k)'
    BY <1>1, <1>4, <2>1, InterruptedTyped DEF RowHeld, Vault!Idle, Vault!LoadFails
  <2>4. CacheFresh(k)'
    BY <1>1, <2>1, <2>2 DEF CacheFresh, Vault!Idle
  <2> QED
    BY <2>3, <2>4
<1>5. CASE Vault!ClearCache
  <2>1. process'["user"] = Vault!Idle
    BY <1>1, <1>5, UserGone DEF Vault!ClearCache, Vault!Go
  <2>2. /\ UNCHANGED <<site, ours, changing, reading>>
        /\ cached' = [j \in Key |-> IF j \in Key THEN None ELSE cached[j]]
        /\ missed' = (missed \ Key) \union
              {j \in Key : reading # None /\ reading.key = j /\ reading.value # site.settings[j]}
    BY <1>5 DEF Vault!ClearCache, Vault!Uncache
  <2>3. me.step = "own" => me.own[k] = "none"
    BY <1>5 DEF Vault!ClearCache, Vault!Replaced, Vault!NoRows
  <2>4. RowHeld(k)'
    BY <1>1, <2>1, <2>2, <2>3 DEF RowHeld, Vault!Idle
  <2>5. CacheFresh(k)'
    BY <2>2 DEF CacheFresh
  <2> QED
    BY <2>4, <2>5
<1>6. CASE Vault!EmptySite
  <2>1. process'["user"] = [step |-> "clear", was |-> me.was, copy |-> me.copy]
    BY <1>1, <1>6, EmptySiteTyped, UserGone DEF UserGoes
  <2>2. me.step = "empty" /\ UNCHANGED Vault!settingState
    BY <1>6 DEF Vault!EmptySite
  <2>3. site'.settings = site.settings
    <3>1. site' = [site EXCEPT !.content = Empty] /\ site \in Sites /\ Empty \in Held
      BY <1>1, <1>6, EmptySiteTyped DEF VaultTyped, Held
    <3> QED
      BY <3>1, SitesChange
  <2> QED
    BY <1>1, <2>1, <2>2, <2>3 DEF RowHeld, CacheFresh, Vault!settingState
<1>7. ASSUME NEW j \in Key, Vault!OwnSetting(j)
      PROVE  RowHeld(k)' /\ CacheFresh(k)'
  <2>1. /\ me \in Owning /\ me.own[j] # "none"
        /\ \/ site' = [site EXCEPT !.settings[j] = me.own[j]] /\ UNCHANGED ours
           \/ ours' = [ours EXCEPT ![j] = "none"] /\ UNCHANGED site
    BY <1>1, <1>7, OwnSettingTyped
  <2>2. process'["user"] = [step |-> "own", own |-> [me.own EXCEPT ![j] = "none"],
                            was |-> me.was, copy |-> me.copy]
    BY <1>1, <1>7, OwnSettingTyped, UserGone DEF UserGoes
  <2>3. me.step = "own" /\ me.own \in [Key -> Rows]
    BY <2>1 DEF Owning
  <2>4. CASE site' = [site EXCEPT !.settings[j] = me.own[j]] /\ UNCHANGED ours
    <3>1. site'.settings = [site.settings EXCEPT ![j] = me.own[j]]
      BY <1>1, <2>3, <2>4, SitesChange DEF VaultTyped
    <3>2. site.settings \in [Key -> Rows]
      BY <1>1, SitesChange DEF VaultTyped
    <3>3. process'["user"].step = "own" /\ process'["user"].own = [me.own EXCEPT ![j] = "none"]
      BY <2>2
    <3> QED
      BY <1>1, <2>1, <2>3, <2>4, <3>1, <3>2, <3>3 DEF RowHeld, CacheFresh
  <2>5. CASE ours' = [ours EXCEPT ![j] = "none"] /\ UNCHANGED site
    <3>1. process'["user"].step = "own" /\ process'["user"].own = [me.own EXCEPT ![j] = "none"]
      BY <2>2
    <3> QED
      BY <1>1, <2>1, <2>3, <2>5, <3>1 DEF RowHeld, CacheFresh, VaultTyped
  <2> QED
    BY <2>1, <2>4, <2>5
<1> QED
  BY <1>2, <1>3, <1>4, <1>5, <1>6, <1>7 DEF RestoreStep

LEMMA SettingsStay ==
    ASSUME Imported, SettingsInv, [Vault!Next]_Vault!vars
    PROVE  SettingsInv'
<1>1. VaultTyped'
  BY VaultStaysTyped DEF SettingsInv
<1>2. ASSUME NEW k \in Key
      PROVE  RowHeld(k)' /\ CacheFresh(k)'
  <2>1. RowHeld(k) /\ CacheFresh(k) /\ VaultTyped
    BY DEF SettingsInv
  <2>2. CASE FileStep \/ BeginStep \/ \E p \in Vault!Process : CopyStep(p)
    <3>1. /\ UNCHANGED <<site, ours, cached, reading, changing, missed>>
          /\ \/ process'["user"] = process["user"]
             \/ /\ process["user"].step \notin {"load", "own"}
                /\ process'["user"].step \notin {"load", "own"}
      BY <2>1, <2>2, CopiesAside DEF Vault!settingState
    <3> QED
      BY <2>1, <3>1 DEF RowHeld, CacheFresh
  <2>3. CASE Vault!Crash
    <3>1. process'["user"] = Vault!Idle
      BY <2>3 DEF Vault!Crash, Vault!Process
    <3>2. RowHeld(k)'
      BY <2>1, <2>3, <3>1, InterruptedTyped DEF Vault!Crash, RowHeld, Vault!Idle
    <3>3. CacheFresh(k)'
      BY <2>3 DEF Vault!Crash, CacheFresh
    <3> QED
      BY <3>2, <3>3
  <2>4. CASE SiteStep
    BY <2>4, SettingsOfSite
  <2>5. CASE RestoreStep
    BY <2>5, SettingsOfRestore
  <2>6. CASE UNCHANGED Vault!vars
    BY <2>1, <2>6 DEF RowHeld, CacheFresh, Vault!vars, Vault!settingState
  <2> QED
    BY <2>2, <2>3, <2>4, <2>5, <2>6, VaultSteps
<1> QED
  BY <1>1, <1>2 DEF SettingsInv

(* When no restore is going on, the rows people of this server have set    *)
(* and nothing has failed for are as they set them, and what is cached is  *)
(* what is in the database, whatever the number of keys, of backups and of *)
(* restores that failed or were cut short.                                 *)
THEOREM OwnSettingsSurvive ==
    ASSUME Imported
    PROVE  Vault!Spec => []ServerKeepsItsSettings
<1>1. Vault!Init => SettingsInv
  <2> SUFFICES ASSUME Vault!Init PROVE SettingsInv
    OBVIOUS
  <2>1. VaultTyped
    BY VaultBeginsTyped
  <2>2. process["user"] = Vault!Idle
    BY DEF Vault!Init, Vault!Process
  <2>3. ASSUME NEW k \in Key
        PROVE  RowHeld(k) /\ CacheFresh(k)
    BY <2>2 DEF Vault!Init, RowHeld, CacheFresh, Vault!Idle
  <2> QED
    BY <2>1, <2>3 DEF SettingsInv
<1>2. SettingsInv /\ [Vault!Next]_Vault!vars => SettingsInv'
  BY SettingsStay
<1>3. SettingsInv => ServerKeepsItsSettings
  BY DEF SettingsInv, RowHeld, CacheFresh, ServerKeepsItsSettings,
     Vault!ServerKeepsItsSettings, Vault!Idle
<1> QED
  BY <1>1, <1>2, <1>3, PTL DEF Vault!Spec

(***************************************************************************)
(* A way back                                                              *)
(***************************************************************************)

(* Names are of seconds gone by, and backups are dated by now or at no     *)
(* moment of this server's clock.                                          *)
Passed(at, latest) == at <= 2 * latest \/ OffClock(at)

DiskOrdered ==
    /\ IsFiniteSet(DOMAIN files)
    /\ \A x \in named : x.second <= second
    /\ \A x \in DOMAIN files : Passed(files[x].at, written)

(* What a process is to roll off was there; copies before a restore or a   *)
(* reset have no alias; the nightly run only copies.                       *)
TaskFits(p, task) ==
    /\ task.step = "prune" => task.doomed \subseteq named
    /\ task.step \in {"dump", "write"} =>
          task.alias = "" \/ task.then = Vault!Idle
    /\ p = "night" =>
          /\ task.step \in {"idle", "dump", "write", "list", "prune"}
          /\ task.step \in {"dump", "write"} => task.alias = ""
          /\ task.step # "idle" => task.then = Vault!Idle

VaultInOrder ==
    /\ VaultTyped /\ DiskOrdered
    /\ \A p \in Vault!Process : TaskFits(p, process[p])

LEMMA NowPasses ==
    ASSUME VaultTyped
    PROVE  /\ Vault!Now \in Nat /\ Vault!Now = 2 * (written + 1)
           /\ Vault!Now > 2 * written /\ ~OffClock(Vault!Now)
           /\ Passed(Vault!Now, written + 1)
           /\ \A at \in Nat : Passed(at, written) => Passed(at, written + 1) /\ at # Vault!Now
<1>1. written \in Nat /\ Vault!Now = 2 * (written + 1)
  BY DEF VaultTyped, Vault!Now
<1> QED
  BY <1>1 DEF Passed, OffClock

LEMMA PutOrdered ==
    ASSUME VaultTyped, DiskOrdered, NEW name \in FileNames, name.second >= second,
           NEW file \in Backups, Vault!Put(name, file),
           Passed(file.at, written + 1)
    PROVE  DiskOrdered'
<1>1. /\ DOMAIN files' = DOMAIN files \union {name} /\ files'[name] = file
      /\ \A x \in DOMAIN files : x # name => files'[x] = files[x]
      /\ named' = named \union {name} /\ written' = written + 1
  BY PutTyped
<1>2. second' = name.second
  BY DEF Vault!Put
<1>3. IsFiniteSet(DOMAIN files')
  BY <1>1, FS_AddElement DEF DiskOrdered
<1>4. \A x \in named : x.second \in Nat
  BY DEF VaultTyped, FileNames
<1>5. ASSUME NEW x \in named'
      PROVE  x.second <= second'
  <2>1. second \in Nat /\ name.second \in Nat /\ name.second >= second
    BY DEF VaultTyped, FileNames
  <2>2. x \in named => x.second <= second
    BY DEF DiskOrdered
  <2>3. x \in named => x.second \in Nat
    BY <1>4
  <2>4. CASE x \in named
    BY <1>2, <2>1, <2>2, <2>3, <2>4
  <2>5. CASE x = name
    BY <1>2, <2>1, <2>5
  <2> QED
    BY <1>1, <2>4, <2>5
<1>6. ASSUME NEW x \in DOMAIN files'
      PROVE  Passed(files'[x].at, written')
  <2>1. CASE x = name
    BY <1>1, <2>1
  <2>2. CASE x # name
    <3>1. x \in DOMAIN files /\ files'[x] = files[x] /\ files[x].at \in Nat
      BY <1>1, <2>2 DEF VaultTyped, Backups
    <3> QED
      BY <1>1, <3>1, NowPasses DEF DiskOrdered
  <2> QED
    BY <2>1, <2>2
<1> QED
  BY <1>3, <1>5, <1>6 DEF DiskOrdered

LEMMA RemovalOrdered ==
    ASSUME DiskOrdered, NEW gone, files' = [x \in DOMAIN files \ gone |-> files[x]],
           UNCHANGED <<second, written, named>>
    PROVE  DiskOrdered'
<1>1. IsFiniteSet(DOMAIN files')
  BY FS_Subset DEF DiskOrdered
<1> QED
  BY <1>1 DEF DiskOrdered, Passed

(* The disk stays in order.                                                *)
LEMMA DiskStaysOrdered ==
    ASSUME Imported, VaultTyped, DiskOrdered, Vault!Next
    PROVE  DiskOrdered'
<1>1. CASE Vault!Import
  <2>1. PICK file \in usage.foreign \union {files[x] : x \in DOMAIN files},
             name \in Vault!Names("alias") : Vault!Put(name, file)
    BY <1>1 DEF Vault!Import
  <2>2. file \in Backups
    BY <2>1 DEF VaultTyped, Imported
  <2>3. Passed(file.at, written)
    BY <2>1 DEF VaultTyped, Imported, DiskOrdered, Passed
  <2>4. Passed(file.at, written + 1)
    BY <2>2, <2>3, NowPasses DEF Backups
  <2>5. name \in FileNames /\ name.second >= second
    BY <2>1, NamesTyped, NextSecond
  <2> QED
    BY <2>1, <2>2, <2>4, <2>5, PutOrdered
<1>2. ASSUME NEW x \in DOMAIN files, Vault!Pin(x)
      PROVE  DiskOrdered'
  <2>1. files' = [files EXCEPT ![x].pinned = ~@] /\ UNCHANGED <<second, written, named>>
    BY <1>2 DEF Vault!Pin
  <2>2. \A y \in DOMAIN files : files'[y].at = files[y].at
    BY <2>1 DEF VaultTyped, Backups
  <2>3. DOMAIN files' = DOMAIN files
    BY <2>1
  <2> QED
    BY <2>1, <2>2, <2>3 DEF DiskOrdered
<1>3. ASSUME NEW x \in DOMAIN files, Vault!RemoveFile(x)
      PROVE  DiskOrdered'
  BY <1>3, RemovalOrdered DEF Vault!RemoveFile
<1>4. ASSUME NEW p \in Vault!Process, CopyStep(p)
      PROVE  DiskOrdered'
  <2>1. CASE Vault!Write(p)
    <3>1. process[p] \in Writing
      BY <2>1, TaskFields DEF Vault!Write, VaultTyped
    <3> DEFINE made == [at |-> Vault!Now, holds |-> process[p].dump,
                        safety |-> process[p].safety, pinned |-> process[p].alias # ""]
    <3>2. PICK name \in Vault!Names(process[p].alias) : Vault!Put(name, made)
      BY <2>1 DEF Vault!Write
    <3>3. made.at = Vault!Now /\ Vault!Now \in Nat
      BY NowPasses
    <3>4. made \in Backups
      BY <3>1, <3>3 DEF Writing, Backups
    <3>5. Passed(made.at, written + 1)
      BY <3>3, NowPasses
    <3>6. process[p].alias \in {"", "alias"}
      BY <3>1 DEF Writing
    <3>7. name \in FileNames /\ name.second >= second
      BY <3>2, <3>6, NamesTyped, NextSecond
    <3> HIDE DEF made
    <3> QED
      BY <3>2, <3>4, <3>5, <3>7, PutOrdered
  <2>2. CASE Vault!Prune(p)
    BY <2>2, RemovalOrdered DEF Vault!Prune
  <2>3. CASE Vault!Dump(p) \/ Vault!List(p)
    BY <2>3 DEF Vault!Dump, Vault!List, Vault!disk, DiskOrdered, Passed
  <2> QED
    BY <1>4, <2>1, <2>2, <2>3 DEF CopyStep
<1>5. CASE UNCHANGED Vault!disk
  BY <1>5 DEF Vault!disk, DiskOrdered, Passed
<1>6. SiteStep \/ RestoreStep \/ Vault!Crash => UNCHANGED Vault!disk
  BY DEF SiteStep, Vault!Edit, Vault!GetSetting, Vault!CacheSetting, Vault!ChangeSetting,
     Vault!DropSetting, RestoreStep, Vault!Keep, Vault!Load, Vault!LoadFails, Vault!ClearCache,
     Vault!EmptySite, Vault!OwnSetting, Vault!Crash
<1>7. BeginStep => UNCHANGED Vault!disk
  BY Beginning
<1> QED
  BY <1>1, <1>2, <1>3, <1>4, <1>5, <1>6, <1>7, VaultSteps DEF FileStep

LEMMA IdleStep == Vault!Idle.step = "idle"
  BY DEF Vault!Idle

LEMMA NamesLast ==
    ASSUME VaultTyped, Vault!Next
    PROVE  named \subseteq named'
<1>1. ASSUME NEW name, NEW file, Vault!Put(name, file)
      PROVE  named \subseteq named'
  BY <1>1 DEF Vault!Put
<1>2. Vault!Import => named \subseteq named'
  BY <1>1 DEF Vault!Import
<1>3. \A p \in Vault!Process : Vault!Write(p) => named \subseteq named'
  BY <1>1 DEF Vault!Write
<1>4. CASE SiteStep \/ RestoreStep \/ Vault!Crash
  BY <1>4 DEF SiteStep, Vault!Edit, Vault!GetSetting, Vault!CacheSetting, Vault!ChangeSetting,
     Vault!DropSetting, RestoreStep, Vault!Keep, Vault!Load, Vault!LoadFails, Vault!ClearCache,
     Vault!EmptySite, Vault!OwnSetting, Vault!Crash, Vault!disk
<1>5. CASE BeginStep
  BY <1>5, Beginning DEF Vault!disk
<1>6. CASE FileStep
  BY <1>2, <1>6 DEF FileStep, Vault!Pin, Vault!RemoveFile
<1>7. ASSUME NEW p \in Vault!Process, CopyStep(p)
      PROVE  named \subseteq named'
  BY <1>3, <1>7 DEF CopyStep, Vault!Dump, Vault!List, Vault!Prune, Vault!disk
<1> QED
  BY <1>4, <1>5, <1>6, <1>7, VaultSteps

(* Each process goes on to a task that fits, or keeps its own.             *)
LEMMA CopyFits ==
    ASSUME VaultInOrder, NEW p \in Vault!Process, CopyStep(p)
    PROVE  \E next : process' = [process EXCEPT ![p] = next] /\ TaskFits(p, next)
<1> DEFINE me == process[p]
<1>1. me \in Tasks /\ TaskFits(p, me) /\ VaultTyped
  BY DEF VaultInOrder, VaultTyped
<1>2. CASE Vault!Dump(p)
  <2> DEFINE next == [step |-> "write", safety |-> me.safety, alias |-> me.alias,
                      then |-> me.then, dump |-> site]
  <2>1. me.step = "dump" /\ process' = [process EXCEPT ![p] = next]
    BY <1>2 DEF Vault!Dump, Vault!Go
  <2>2. next.step = "write" /\ next.alias = me.alias /\ next.then = me.then
    OBVIOUS
  <2> HIDE DEF next
  <2>3. TaskFits(p, next)
    BY <1>1, <2>1, <2>2 DEF TaskFits
  <2> QED
    BY <2>1, <2>3
<1>3. CASE Vault!Write(p)
  <2>1. PICK name, file :
           /\ me.step = "write"
           /\ process' = [process EXCEPT ![p] =
                 [step |-> "list", then |-> me.then, made |-> me.dump.content,
                  copy |-> [name |-> name, at |-> file]]]
    BY <1>3 DEF Vault!Write, Vault!Go
  <2> DEFINE next == [step |-> "list", then |-> me.then, made |-> me.dump.content,
                      copy |-> [name |-> name, at |-> file]]
  <2>2. next.step = "list" /\ next.then = me.then
    OBVIOUS
  <2>3. process' = [process EXCEPT ![p] = next]
    BY <2>1
  <2> HIDE DEF next
  <2>4. TaskFits(p, next)
    BY <1>1, <2>1, <2>2 DEF TaskFits
  <2> QED
    BY <2>3, <2>4
<1>4. CASE Vault!List(p)
  <2>1. PICK kept \in SUBSET Vault!Disposable :
           /\ me.step = "list"
           /\ process' = [process EXCEPT ![p] =
                 [step |-> "prune", then |-> me.then, made |-> me.made, copy |-> me.copy,
                  doomed |-> Vault!Disposable \ kept]]
    BY <1>4 DEF Vault!List, Vault!Go
  <2> DEFINE next == [step |-> "prune", then |-> me.then, made |-> me.made, copy |-> me.copy,
                      doomed |-> Vault!Disposable \ kept]
  <2>2. next.step = "prune" /\ next.then = me.then /\ next.doomed = Vault!Disposable \ kept
    OBVIOUS
  <2>3. process' = [process EXCEPT ![p] = next]
    BY <2>1
  <2>4. Vault!Disposable \ kept \subseteq named'
    BY <1>1, <1>4 DEF Vault!Disposable, VaultTyped, Vault!List, Vault!disk
  <2>5. named' = named
    BY <1>4 DEF Vault!List, Vault!disk
  <2> HIDE DEF next
  <2>6. TaskFits(p, next)
    BY <1>1, <2>1, <2>2, <2>4, <2>5 DEF TaskFits
  <2> QED
    BY <2>3, <2>6
<1>5. CASE Vault!Prune(p)
  <2>1. me.step = "prune"
    BY <1>5 DEF Vault!Prune
  <2>2. me \in Pruning
    BY <1>1, <2>1, TaskFields
  <2>3. PICK next \in Tasks :
           /\ process' = [process EXCEPT ![p] = next]
           /\ \/ next = Vault!Idle
              \/ me.then # Vault!Idle /\ next.step = me.then.step
    BY <1>1, <1>5, <2>2, PruneGoesOn
  <2>4. me.then.step \in {"idle", "keep", "empty"}
    BY <2>2, ThenFields DEF Pruning
  <2>5. next.step \in {"idle", "keep", "empty"}
    BY <2>3, <2>4, IdleStep
  <2>6. p = "night" => next.step = "idle"
    BY <1>1, <2>1, <2>3, IdleStep DEF TaskFits
  <2>7. TaskFits(p, next)
    BY <2>5, <2>6 DEF TaskFits
  <2> QED
    BY <2>3, <2>7
<1> QED
  BY <1>2, <1>3, <1>4, <1>5 DEF CopyStep

LEMMA RestoreFits ==
    ASSUME VaultTyped, RestoreStep
    PROVE  \E next : /\ process' = [process EXCEPT !["user"] = next]
                     /\ next.step \in {"load", "own", "clear", "idle"}
<1>1. CASE Vault!Keep
  BY <1>1, KeepTyped DEF UserGoes
<1>2. CASE Vault!Load
  BY <1>2, LoadTyped DEF UserGoes
<1>3. CASE Vault!LoadFails \/ Vault!ClearCache
  BY <1>3, IdleStep DEF Vault!LoadFails, Vault!ClearCache, Vault!Go
<1>4. CASE Vault!EmptySite
  BY <1>4, EmptySiteTyped DEF UserGoes
<1>5. ASSUME NEW k \in Key, Vault!OwnSetting(k)
      PROVE  \E next : /\ process' = [process EXCEPT !["user"] = next]
                       /\ next.step \in {"load", "own", "clear", "idle"}
  <2> DEFINE next == [step |-> "own", own |-> [process["user"].own EXCEPT ![k] = "none"],
                      was |-> process["user"].was, copy |-> process["user"].copy]
  <2>1. process' = [process EXCEPT !["user"] = next]
    BY <1>5, OwnSettingTyped DEF UserGoes
  <2>2. next.step = "own"
    OBVIOUS
  <2> HIDE DEF next
  <2> QED
    BY <2>1, <2>2
<1> QED
  BY <1>1, <1>2, <1>3, <1>4, <1>5 DEF RestoreStep

LEMMA VaultStaysInOrder ==
    ASSUME Imported, VaultInOrder, [Vault!Next]_Vault!vars
    PROVE  VaultInOrder'
<1>1. VaultTyped /\ VaultTyped'
  BY VaultStaysTyped DEF VaultInOrder
<1>2. ASSUME Vault!Next
      PROVE  DiskOrdered' /\ \A p \in Vault!Process : TaskFits(p, process[p])'
  <2>1. DiskOrdered' /\ named \subseteq named'
    BY <1>2, DiskStaysOrdered, NamesLast DEF VaultInOrder
  <2>2. \A p \in Vault!Process : TaskFits(p, process[p])
    BY DEF VaultInOrder
  <2>3. ASSUME NEW p \in Vault!Process, NEW next, process' = [process EXCEPT ![p] = next],
               TaskFits(p, next)
        PROVE  \A q \in Vault!Process : TaskFits(q, process[q])'
    <3>1. process'[p] = next /\ \A q \in Vault!Process : q # p => process'[q] = process[q]
      BY <1>1, <2>3 DEF VaultTyped
    <3> QED
      BY <2>1, <2>2, <2>3, <3>1 DEF TaskFits
  <2>4. CASE UNCHANGED process
    BY <2>1, <2>2, <2>4 DEF TaskFits
  <2>5. CASE BeginStep
    <3>1. PICK p \in Vault!Process, next \in Tasks :
             /\ process' = [process EXCEPT ![p] = next]
             /\ next.step \in {"dump", "keep"}
             /\ next.step = "dump" => next.then = Vault!Idle \/ next.alias = ""
             /\ p = "night" => next.step = "dump" /\ next.then = Vault!Idle /\ next.alias = ""
      BY <1>1, <2>5, Beginning
    <3>2. TaskFits(p, next)
      BY <3>1 DEF TaskFits
    <3> QED
      BY <2>1, <2>3, <3>1, <3>2
  <2>6. CASE RestoreStep
    <3>1. PICK next : /\ process' = [process EXCEPT !["user"] = next]
                      /\ next.step \in {"load", "own", "clear", "idle"}
      BY <1>1, <2>6, RestoreFits
    <3>2. TaskFits("user", next)
      BY <3>1 DEF TaskFits
    <3> QED
      BY <2>1, <2>3, <3>1, <3>2 DEF Vault!Process
  <2>7. ASSUME NEW p \in Vault!Process, CopyStep(p)
        PROVE  \A q \in Vault!Process : TaskFits(q, process[q])'
    BY <2>3, <2>7, CopyFits
  <2>8. CASE Vault!Crash
    <3>1. \A p \in Vault!Process : process'[p] = Vault!Idle
      BY <2>8 DEF Vault!Crash
    <3> QED
      BY <2>1, <3>1, IdleStep DEF TaskFits
  <2>9. SiteStep \/ FileStep => UNCHANGED process
    BY DEF SiteStep, Vault!Edit, Vault!GetSetting, Vault!CacheSetting, Vault!ChangeSetting,
       Vault!DropSetting, FileStep, Vault!Import, Vault!Pin, Vault!RemoveFile
  <2> QED
    BY <1>2, <2>1, <2>4, <2>5, <2>6, <2>7, <2>8, <2>9, VaultSteps
<1>3. CASE UNCHANGED Vault!vars
  BY <1>1, <1>3 DEF VaultInOrder, DiskOrdered, TaskFits, Vault!vars, Vault!disk
<1> QED
  BY <1>1, <1>2, <1>3 DEF VaultInOrder

(* A request about to replace the site after making a copy, or replacing   *)
(* it; and what that copy holds.                                           *)
ReplaceSteps == {"keep", "load", "own", "empty", "clear"}

Guarding(me) ==
    \/ me.step \in {"list", "prune"} /\ me.then # Vault!Idle
    \/ me.step \in ReplaceSteps /\ me.was # None

Saved(me) == IF me.step \in ReplaceSteps THEN me.was ELSE me.made

(* As long as the copy is there it is as it was made; no other backup is   *)
(* of its moment, and those of later seconds are of later moments.         *)
CopyLasts(copy, saved) ==
    /\ copy \in Copies /\ copy.name \in named /\ copy.name.alias = "" /\ copy.at <= 2 * written
    /\ copy.name \in DOMAIN files =>
          /\ files[copy.name].at = copy.at /\ files[copy.name].holds.content = saved
          /\ ~files[copy.name].pinned
    /\ \A x \in DOMAIN files :
          /\ x # copy.name => files[x].at # copy.at
          /\ x.second > copy.name.second => files[x].at > copy.at

(* What is rolled off while the copy stays is older than it.               *)
DoomedOlder(doomed, copy) ==
    copy.name \in DOMAIN files \ doomed =>
        \A x \in doomed :
            /\ x.second <= copy.name.second
            /\ x \in DOMAIN files => files[x].at < copy.at

(* As many as are kept, and are not about to be rolled off, outrank it.    *)
Outranked(copy, doomed) == Cardinality(Vault!Ahead(copy) \ doomed) >= Retention

(* What the nightly run is about to roll off.                              *)
Doomed == IF process["night"].step = "prune" THEN process["night"].doomed ELSE {}

Lasting(me, doomed) ==
    /\ CopyLasts(me.copy, Saved(me))
    /\ me.step = "prune" => DoomedOlder(me.doomed, me.copy)
    /\ \/ me.copy.name \in doomed
       \/ me.step \in ReplaceSteps /\ me.copy.name \notin DOMAIN files
       => Outranked(me.copy, doomed)

Guarded ==
    Guarding(process["user"]) /\ process["user"].copy.name \notin shared =>
        Lasting(process["user"], Doomed)

CopyInv == VaultInOrder /\ Guarded

(* Backup counts as this module does.                                      *)
LEMMA SameCount == \A S : Vault!Cardinality(S) = Cardinality(S)
  BY Zenon DEF Vault!Cardinality, Cardinality

LEMMA MoreOutrank ==
    ASSUME Retention \in Nat, NEW S, NEW T, IsFiniteSet(T), S \subseteq T,
           Cardinality(S) >= Retention
    PROVE  Cardinality(T) >= Retention
  BY FS_Subset, FS_CardinalityType

(* The backups outranking a copy are finitely many.                        *)
LEMMA AheadFinite ==
    ASSUME DiskOrdered, NEW copy, NEW doomed
    PROVE  IsFiniteSet(Vault!Ahead(copy)) /\ IsFiniteSet(Vault!Ahead(copy) \ doomed)
  BY FS_Subset DEF DiskOrdered, Vault!Ahead

(* Another backup is written under another name.                           *)
LEMMA CopyLastsWhileWritten ==
    ASSUME VaultTyped, DiskOrdered, NEW copy, NEW saved, CopyLasts(copy, saved),
           NEW name \in FileNames, name # copy.name, name.second >= second,
           NEW file \in Backups, Vault!Put(name, file),
           file.at = Vault!Now, ~file.pinned
    PROVE  /\ CopyLasts(copy, saved)'
           /\ Vault!Ahead(copy) \subseteq Vault!Ahead(copy)'
           /\ copy.name \in DOMAIN files' <=> copy.name \in DOMAIN files
<1>1. /\ DOMAIN files' = DOMAIN files \union {name} /\ files'[name] = file
      /\ \A x \in DOMAIN files : x # name => files'[x] = files[x]
      /\ named' = named \union {name} /\ written' = written + 1
  BY PutTyped
<1>2. written \in Nat /\ Vault!Now \in Nat /\ Vault!Now > 2 * written
  BY NowPasses DEF VaultTyped
<1>3. copy.at \in Nat /\ copy.at <= 2 * written
  BY DEF CopyLasts, Copies
<1>4. Vault!Now > copy.at /\ copy.at <= 2 * (written + 1)
  BY <1>2, <1>3
<1>5. copy.name \in DOMAIN files' <=> copy.name \in DOMAIN files
  BY <1>1
<1>6. copy.name \in DOMAIN files' => files'[copy.name] = files[copy.name]
  BY <1>1
<1>7. ASSUME NEW x \in DOMAIN files'
      PROVE  /\ x # copy.name => files'[x].at # copy.at
             /\ x.second > copy.name.second => files'[x].at > copy.at
  <2>1. CASE x = name
    BY <1>1, <1>2, <1>3, <1>4, <2>1
  <2>2. CASE x # name
    BY <1>1, <2>2 DEF CopyLasts
  <2> QED
    BY <2>1, <2>2
<1>8. CopyLasts(copy, saved)'
  BY <1>1, <1>5, <1>6, <1>7, <1>4 DEF CopyLasts
<1>9. ASSUME NEW x \in Vault!Ahead(copy)
      PROVE  x \in Vault!Ahead(copy)'
  <2>1. CASE x = name
    BY <1>1, <1>2, <1>3, <1>4, <2>1 DEF Vault!Ahead
  <2>2. CASE x # name
    BY <1>1, <2>2 DEF Vault!Ahead
  <2> QED
    BY <2>1, <2>2
<1> QED
  BY <1>5, <1>8, <1>9

(* Others are rolled off, or the copy is.                                  *)
LEMMA CopyLastsWhilePruned ==
    ASSUME NEW copy, NEW saved, CopyLasts(copy, saved), NEW gone,
           files' = [x \in DOMAIN files \ gone |-> files[x]],
           UNCHANGED <<second, written, named>>
    PROVE  /\ CopyLasts(copy, saved)'
           /\ Vault!Ahead(copy)' = Vault!Ahead(copy) \ gone
           /\ DOMAIN files' = DOMAIN files \ gone
<1>1. /\ DOMAIN files' = DOMAIN files \ gone
      /\ \A x \in DOMAIN files' : files'[x] = files[x]
  OBVIOUS
<1>2. CopyLasts(copy, saved)'
  BY <1>1 DEF CopyLasts
<1>3. Vault!Ahead(copy)' = Vault!Ahead(copy) \ gone
  BY <1>1 DEF Vault!Ahead
<1> QED
  BY <1>1, <1>2, <1>3

(* Two names of no alias, neither of a later second, are one.              *)
LEMMA SameName ==
    ASSUME NEW x \in FileNames, NEW y \in FileNames, x.alias = y.alias, NEW s \in Nat,
           x.second <= y.second, y.second <= s, s <= x.second
    PROVE  x = y
<1>1. x.second \in Nat /\ y.second \in Nat
  BY DEF FileNames
<1>2. x.second = y.second
  BY <1>1
<1>3. x = [second |-> x.second, alias |-> x.alias]
  BY DEF FileNames
<1>4. y = [second |-> y.second, alias |-> y.alias]
  BY DEF FileNames
<1> QED
  BY <1>2, <1>3, <1>4

(* The nightly run writes a backup, under the copy's name or another.      *)
LEMMA NightWrites ==
    ASSUME Retention \in Nat, VaultInOrder, VaultInOrder', Vault!Write("night"), NEW me,
           Guarding(me), Lasting(me, Doomed), me.copy.name \notin shared',
           me.step = "prune" => me.doomed \subseteq named /\ me.doomed \subseteq FileNames
    PROVE  Lasting(me, {})'
<1> DEFINE night == process["night"]
           made == [at |-> Vault!Now, holds |-> night.dump, safety |-> night.safety,
                    pinned |-> night.alias # ""]
<1>1. VaultTyped /\ DiskOrdered /\ night.step = "write" /\ night \in Writing /\ night.alias = ""
  BY TaskFields DEF VaultInOrder, VaultTyped, Vault!Write, TaskFits, Vault!Process
<1>2. PICK name \in Vault!Names("") : Vault!Put(name, made)
  BY <1>1 DEF Vault!Write
<1>3. made \in Backups /\ made.at = Vault!Now /\ ~made.pinned
  <2>1. Vault!Now \in Nat
    BY <1>1, NowPasses
  <2> QED
    BY <1>1, <2>1 DEF Writing, Backups
<1> HIDE DEF made
<1>4. name \in FileNames /\ name.alias = "" /\ name.second >= second
  BY <1>1, <1>2, NamesTyped, NextSecond
<1>5. me.copy.name \in named /\ me.copy.name.alias = "" /\ me.copy.name \in FileNames
  BY DEF Lasting, CopyLasts, Copies
<1>6. name # me.copy.name
  BY <1>2, <1>5 DEF Vault!Put
<1>7. /\ CopyLasts(me.copy, Saved(me))'
      /\ Vault!Ahead(me.copy) \subseteq Vault!Ahead(me.copy)'
      /\ me.copy.name \in DOMAIN files' <=> me.copy.name \in DOMAIN files
  BY <1>1, <1>2, <1>3, <1>4, <1>6, CopyLastsWhileWritten DEF Lasting, Saved
<1>8. second \in Nat
  BY <1>1 DEF VaultTyped
<1>9. /\ DOMAIN files' = DOMAIN files \union {name}
       /\ \A x \in DOMAIN files : x # name => files'[x] = files[x]
  BY <1>1, <1>2, <1>3, <1>4, PutTyped
<1>10. ASSUME me.step = "prune"
      PROVE  DoomedOlder(me.doomed, me.copy)'
  <2>1. SUFFICES ASSUME me.copy.name \in DOMAIN files' \ me.doomed, NEW x \in me.doomed
                 PROVE  /\ x.second <= me.copy.name.second
                        /\ x \in DOMAIN files' => files'[x].at < me.copy.at
    BY DEF DoomedOlder
  <2>2. /\ x.second <= me.copy.name.second
        /\ x \in DOMAIN files => files[x].at < me.copy.at
    BY <1>7, <1>10, <2>1 DEF Lasting, DoomedOlder
  <2>3. x # name
    <3>1. SUFFICES ASSUME x = name PROVE FALSE
      OBVIOUS
    <3>2. me.copy.name.second <= second
      BY <1>1, <1>5 DEF DiskOrdered
    <3>3. name.second <= me.copy.name.second
      BY <2>2, <3>1
    <3>4. name = me.copy.name
      BY <1>4, <1>5, <1>8, <3>2, <3>3, SameName
    <3> QED
      BY <1>6, <3>4
  <2>4. x \in DOMAIN files' => x \in DOMAIN files /\ files'[x] = files[x]
    BY <1>9, <2>3
  <2> QED
    BY <2>2, <2>4
<1>11. ASSUME me.step \in ReplaceSteps, me.copy.name \notin DOMAIN files'
      PROVE  Outranked(me.copy, {})'
  <2>1. Outranked(me.copy, {})
    BY <1>1, <1>7, <1>11 DEF Lasting, Doomed
  <2>2. Cardinality(Vault!Ahead(me.copy)) >= Retention
    <3>1. Vault!Ahead(me.copy) \ {} = Vault!Ahead(me.copy)
      OBVIOUS
    <3> QED
      BY <2>1, <3>1 DEF Outranked
  <2>3. IsFiniteSet(Vault!Ahead(me.copy)')
    <3>1. IsFiniteSet(DOMAIN files')
      BY DEF VaultInOrder, DiskOrdered
    <3>2. Vault!Ahead(me.copy)' \subseteq DOMAIN files'
      BY DEF Vault!Ahead
    <3> QED
      BY <3>1, <3>2, FS_Subset
  <2>4. Cardinality(Vault!Ahead(me.copy)') >= Retention
    BY <1>7, <2>2, <2>3, MoreOutrank
  <2>5. Vault!Ahead(me.copy)' \ {} = Vault!Ahead(me.copy)'
    OBVIOUS
  <2> QED
    BY <2>4, <2>5 DEF Outranked
<1> QED
  BY <1>7, <1>10, <1>11 DEF Lasting, Saved

(* The nightly run lists what it rolls off.                                *)
LEMMA NightLists ==
    ASSUME Retention \in Nat, VaultInOrder, NEW me, Guarding(me), Lasting(me, {}),
           NEW kept \in SUBSET Vault!Disposable, Vault!Newest(kept)
    PROVE  Lasting(me, Vault!Disposable \ kept)
<1> DEFINE gone == Vault!Disposable \ kept
           ahead == Vault!Ahead(me.copy)
           copied == me.copy.name
<1>1. /\ CopyLasts(me.copy, Saved(me))
      /\ me.copy.at \in Nat
      /\ \A x \in DOMAIN files : files[x].at \in Nat
      /\ IsFiniteSet(DOMAIN files)
  BY DEF Lasting, CopyLasts, Copies, VaultInOrder, VaultTyped, Backups, DiskOrdered
<1>2. /\ Cardinality(kept) = Retention \/ kept = Vault!Disposable
      /\ \A x \in kept, y \in gone : files[x].at >= files[y].at
  <2>1. Cardinality(kept) = Retention \/ kept = Vault!Disposable
    <3>1. Vault!Enough(kept)
      BY DEF Vault!Newest
    <3> QED
      BY <3>1, SameCount DEF Vault!Enough
  <2>2. \A x \in kept, y \in Vault!Disposable \ kept : files[x].at >= files[y].at
    BY DEF Vault!Newest
  <2> QED
    BY <2>1, <2>2
<1>3. kept \subseteq DOMAIN files /\ \A x \in kept : ~files[x].pinned
  BY DEF Vault!Disposable
<1>4. IsFiniteSet(kept) /\ IsFiniteSet(ahead) /\ IsFiniteSet(ahead \ gone)
  BY <1>1, <1>3, FS_Subset, AheadFinite DEF VaultInOrder
<1>5. ASSUME kept \subseteq ahead, gone # {}
      PROVE  Outranked(me.copy, gone)
  <2>1. Cardinality(kept) = Retention
    BY <1>2, <1>5
  <2>2. kept \subseteq ahead \ gone
    BY <1>5
  <2> QED
    BY <1>4, <2>1, <2>2, MoreOutrank DEF Outranked
<1>6. CASE copied \in gone
  <2>1. files[copied].at = me.copy.at /\ copied \notin kept
    BY <1>1, <1>6 DEF CopyLasts, Vault!Disposable
  <2>2. \A x \in kept : files[x].at >= me.copy.at
    BY <1>2, <1>6, <2>1
  <2>3. kept \subseteq ahead
    BY <1>3, <2>1, <2>2 DEF Vault!Ahead
  <2> QED
    BY <1>5, <1>6, <2>3 DEF Lasting
<1>7. CASE copied \notin gone /\ me.step \in ReplaceSteps /\ copied \notin DOMAIN files
  <2>1. Cardinality(ahead) >= Retention
    <3>1. ahead \ {} = ahead
      OBVIOUS
    <3> QED
      BY <1>7, <3>1 DEF Lasting, Outranked
  <2>2. ahead \subseteq Vault!Disposable
    BY DEF Vault!Ahead, Vault!Disposable
  <2>3. CASE gone = {}
    <3>1. ahead \ gone = ahead
      BY <2>3
    <3> QED
      BY <2>1, <3>1 DEF Outranked, Lasting
  <2>4. CASE gone # {} /\ kept \subseteq ahead
    BY <1>5, <2>4 DEF Lasting
  <2>5. CASE gone # {} /\ ~(kept \subseteq ahead)
    <3>1. PICK y \in kept : y \notin ahead
      BY <2>5
    <3>2. files[y].at < me.copy.at
      BY <1>1, <1>3, <1>7, <3>1 DEF Vault!Ahead
    <3>3. \A z \in ahead : z \notin gone
      BY <1>1, <1>2, <1>3, <3>1, <3>2 DEF Vault!Ahead
    <3>4. ahead \subseteq kept
      BY <2>2, <3>3
    <3>5. Cardinality(kept) = Retention
      BY <1>2, <2>5
    <3>6. Cardinality(ahead) = Cardinality(kept)
      BY <1>4, <2>1, <3>4, <3>5, FS_Subset, FS_CardinalityType
    <3>7. ahead = kept
      BY <1>4, <3>4, <3>6, FS_Subset
    <3> QED
      BY <3>1, <3>7
  <2> QED
    BY <2>3, <2>4, <2>5
<1>8. CASE copied \notin gone /\ ~(me.step \in ReplaceSteps /\ copied \notin DOMAIN files)
  BY <1>8 DEF Lasting
<1> QED
  BY <1>6, <1>7, <1>8

(* The nightly run rolls them off.                                         *)
LEMMA NightPrunes ==
    ASSUME Retention \in Nat, VaultInOrder, VaultInOrder', NEW me, Guarding(me),
           NEW gone, Lasting(me, gone), files' = [x \in DOMAIN files \ gone |-> files[x]],
           UNCHANGED <<second, written, named>>
    PROVE  Lasting(me, {})'
<1>1. /\ CopyLasts(me.copy, Saved(me))'
      /\ Vault!Ahead(me.copy)' = Vault!Ahead(me.copy) \ gone
      /\ DOMAIN files' = DOMAIN files \ gone
  BY CopyLastsWhilePruned DEF Lasting, Saved
<1>2. ASSUME me.step = "prune"
      PROVE  DoomedOlder(me.doomed, me.copy)'
  BY <1>1, <1>2 DEF Lasting, DoomedOlder
<1>3. ASSUME me.step \in ReplaceSteps, me.copy.name \notin DOMAIN files'
      PROVE  Outranked(me.copy, {})'
  <2>1. Outranked(me.copy, gone)
    BY <1>1, <1>3 DEF Lasting
  <2>2. Vault!Ahead(me.copy)' \ {} = Vault!Ahead(me.copy) \ gone
    BY <1>1
  <2> QED
    BY <2>1, <2>2 DEF Outranked
<1> QED
  BY <1>1, <1>2, <1>3 DEF Lasting, Saved

(* The user's request writes its copy.                                     *)
LEMMA UserWrites ==
    ASSUME VaultInOrder, VaultInOrder', Vault!Write("user"), UNCHANGED process["night"],
           NEW next, next = process'["user"], Guarding(next), next.copy.name \notin shared'
    PROVE  Lasting(next, Doomed)'
<1> DEFINE me == process["user"]
           made == [at |-> Vault!Now, holds |-> me.dump, safety |-> me.safety,
                    pinned |-> me.alias # ""]
           goes(name) == [step |-> "list", then |-> me.then, made |-> me.dump.content,
                          copy |-> [name |-> name, at |-> Vault!Now]]
<1>1. /\ VaultTyped /\ DiskOrdered /\ me.step = "write" /\ me \in Writing
      /\ me.alias = "" \/ me.then = Vault!Idle
  BY TaskFields DEF VaultInOrder, VaultTyped, Vault!Write, TaskFits, Vault!Process
<1>2. PICK name \in Vault!Names(me.alias) :
         Vault!Put(name, made) /\ process' = [process EXCEPT !["user"] = goes(name)]
  BY DEF Vault!Write, Vault!Go
<1>3. next = goes(name)
  BY <1>1, <1>2, UserGone
<1>4. /\ next.step = "list" /\ next.then = me.then /\ next.made = me.dump.content
      /\ next.copy = [name |-> name, at |-> Vault!Now]
      /\ next.copy.name = name /\ next.copy.at = Vault!Now
  BY <1>3
<1> HIDE DEF goes
<1>5. me.alias = ""
  BY <1>1, <1>4 DEF Guarding, ReplaceSteps
<1>6. name \in FileNames /\ name.alias = "" /\ name.second >= second
  BY <1>1, <1>2, <1>5, NamesTyped, NextSecond
<1>7. name \notin named /\ second' = name.second
  <2>1. /\ shared' = IF name \in named THEN shared \union {name} ELSE shared
        /\ second' = name.second
    BY <1>2 DEF Vault!Put
  <2>2. name \notin shared'
    BY <1>4
  <2>3. name \notin named
    BY <2>1, <2>2
  <2> QED
    BY <2>1, <2>3
<1>8. Vault!Now \in Nat /\ Vault!Now = 2 * (written + 1) /\ ~OffClock(Vault!Now)
      /\ Vault!Now > 2 * written /\ written \in Nat
  BY <1>1, NowPasses DEF VaultTyped
<1>9. /\ made \in Backups /\ made.at = Vault!Now /\ ~made.pinned
      /\ made.holds = me.dump
  BY <1>1, <1>5, <1>8 DEF Writing, Backups
<1> HIDE DEF made
<1>10. /\ DOMAIN files' = DOMAIN files \union {name} /\ files'[name] = made
       /\ \A x \in DOMAIN files : x # name => files'[x] = files[x]
       /\ named' = named \union {name} /\ written' = written + 1
  BY <1>1, <1>2, <1>6, <1>9, PutTyped
<1>11. ASSUME NEW x \in DOMAIN files', x # name
       PROVE  files'[x].at # Vault!Now /\ ~(x.second > name.second)
  <2>1. x \in DOMAIN files /\ x \in named /\ files'[x] = files[x] /\ files[x].at \in Nat
    BY <1>1, <1>10, <1>11 DEF VaultTyped, Backups
  <2>2. files[x].at # Vault!Now
    BY <1>1, <2>1, NowPasses DEF DiskOrdered
  <2>3. x.second <= second'
    BY <1>10, <2>1 DEF VaultInOrder, DiskOrdered
  <2>4. x.second \in Nat /\ name.second \in Nat
    BY <1>1, <1>6, <2>1 DEF VaultTyped, FileNames
  <2> QED
    BY <1>7, <2>1, <2>2, <2>3, <2>4
<1>12. [name |-> name, at |-> Vault!Now] \in Copies
  BY <1>6, <1>8 DEF Copies
<1>13. Vault!Now <= 2 * written'
  BY <1>8, <1>10
<1>14. ASSUME NEW copy, copy = [name |-> name, at |-> Vault!Now], NEW saved,
              saved = me.dump.content
       PROVE  CopyLasts(copy, saved)'
  <2>1. copy.name = name /\ copy.at = Vault!Now /\ copy \in Copies
    BY <1>12, <1>14
  <2>2. ~(name.second > name.second)
    <3>1. name.second \in Nat
      BY <1>6 DEF FileNames
    <3> QED
      BY <3>1
  <2> QED
    BY <1>6, <1>9, <1>10, <1>11, <1>13, <1>14, <2>1, <2>2 DEF CopyLasts
<1>15. name \notin Doomed'
  BY <1>7 DEF VaultInOrder, TaskFits, Doomed, Vault!Process
<1> QED
  BY <1>4, <1>14, <1>15 DEF Lasting, Saved, ReplaceSteps

(* ... and lists what it rolls off.                                        *)
LEMMA UserLists ==
    ASSUME VaultInOrder, NEW me, NEW doomed, Lasting(me, doomed), me.step = "list",
           NEW kept \in SUBSET Vault!Disposable, Vault!Newest(kept),
           NEW next, next = [step |-> "prune", then |-> me.then, made |-> me.made,
                             copy |-> me.copy, doomed |-> Vault!Disposable \ kept]
    PROVE  Lasting(next, doomed)
<1>1. /\ next.step = "prune" /\ next.then = me.then /\ next.made = me.made
      /\ next.copy = me.copy /\ next.doomed = Vault!Disposable \ kept
  OBVIOUS
<1>2. CopyLasts(me.copy, Saved(me))
  BY DEF Lasting
<1>3. DoomedOlder(next.doomed, me.copy)
  <2>1. SUFFICES ASSUME me.copy.name \in DOMAIN files \ next.doomed, NEW x \in next.doomed
                 PROVE  /\ x.second <= me.copy.name.second
                        /\ x \in DOMAIN files => files[x].at < me.copy.at
    BY DEF DoomedOlder
  <2>2. me.copy.name \in kept /\ x \in DOMAIN files /\ x # me.copy.name
    BY <1>1, <1>2, <2>1 DEF CopyLasts, Vault!Disposable
  <2>3. files[me.copy.name].at >= files[x].at
    BY <1>1, <2>1, <2>2 DEF Vault!Newest
  <2>4. /\ files[x].at # me.copy.at /\ files[me.copy.name].at = me.copy.at
        /\ x.second > me.copy.name.second => files[x].at > me.copy.at
    BY <1>2, <2>1, <2>2 DEF CopyLasts
  <2>5. /\ files[x].at \in Nat /\ me.copy.at \in Nat
        /\ x.second \in Nat /\ me.copy.name.second \in Nat
    BY <1>2, <2>2 DEF VaultInOrder, VaultTyped, Backups, CopyLasts, Copies, FileNames
  <2> QED
    BY <2>3, <2>4, <2>5
<1> QED
  BY <1>1, <1>2, <1>3 DEF Lasting, Saved, ReplaceSteps

(* ... and rolls them off, and goes on with its own copy still there.      *)
LEMMA UserPrunes ==
    ASSUME VaultInOrder, NEW me, NEW doomed, Lasting(me, doomed), me.step = "prune",
           me.copy.name \in DOMAIN files \ me.doomed,
           files' = [x \in DOMAIN files \ me.doomed |-> files[x]],
           UNCHANGED <<second, written, named>>,
           NEW next, next.step \in ReplaceSteps, next.was = me.made, next.copy = me.copy
    PROVE  Lasting(next, doomed)'
<1>1. CopyLasts(me.copy, me.made) /\ DoomedOlder(me.doomed, me.copy)
  BY DEF Lasting, Saved, ReplaceSteps
<1>2. /\ CopyLasts(me.copy, me.made)'
      /\ Vault!Ahead(me.copy)' = Vault!Ahead(me.copy) \ me.doomed
      /\ DOMAIN files' = DOMAIN files \ me.doomed
  BY <1>1, CopyLastsWhilePruned
<1>3. /\ me.copy.at \in Nat
      /\ \A x \in DOMAIN files : files[x].at \in Nat
  BY <1>1 DEF CopyLasts, Copies, VaultInOrder, VaultTyped, Backups
<1>4. \A x \in Vault!Ahead(me.copy) : x \notin me.doomed
  BY <1>1, <1>3 DEF DoomedOlder, Vault!Ahead
<1>5. Vault!Ahead(me.copy)' = Vault!Ahead(me.copy)
  BY <1>2, <1>4
<1>6. ASSUME me.copy.name \in doomed
      PROVE  Outranked(next.copy, doomed)'
  <2>1. Outranked(me.copy, doomed)
    BY <1>6 DEF Lasting
  <2> QED
    BY <1>5, <2>1 DEF Outranked
<1> QED
  BY <1>2, <1>6 DEF Lasting, Saved, ReplaceSteps

(* Nothing to guard before the copy is written, or after the request.      *)
LEMMA NotGuarding ==
    ASSUME NEW me, \/ me.step \in {"idle", "dump", "write"}
                   \/ me.step \in ReplaceSteps /\ me.was = None
    PROVE  ~Guarding(me)
  BY DEF Guarding, ReplaceSteps

(* The request's task names what is guarded.                               *)
LEMMA GuardedBy ==
    ASSUME NEW next, next = process'["user"],
           Guarding(next) /\ next.copy.name \notin shared' => Lasting(next, Doomed)'
    PROVE  Guarded'
  BY DEF Guarded, Guarding, Lasting, Saved, CopyLasts, DoomedOlder, Outranked, Vault!Ahead

LEMMA LastingStays ==
    ASSUME NEW me, NEW next, NEW doomed, Lasting(me, doomed),
           Saved(next) = Saved(me), next.copy = me.copy,
           next.step = "prune" => me.step = "prune" /\ next.doomed = me.doomed,
           next.step \in ReplaceSteps => me.step \in ReplaceSteps,
           UNCHANGED <<files, written, named>>
    PROVE  Lasting(next, doomed)'
  BY DEF Lasting, CopyLasts, DoomedOlder, Outranked, Vault!Ahead, Saved

LEMMA GuardedByNight ==
    ASSUME Retention \in Nat, CopyInv, VaultInOrder', UNCHANGED process["user"],
           \/ CopyStep("night")
           \/ UNCHANGED <<Vault!disk, process["night"]>>
           \/ /\ process["night"] = Vault!Idle /\ process'["night"].step = "dump"
              /\ UNCHANGED Vault!disk
    PROVE  Guarded'
<1>1. PICK me : me = process["user"]
  OBVIOUS
<1>2. SUFFICES ASSUME Guarding(me), me.copy.name \notin shared'
               PROVE  Lasting(me, Doomed)'
  BY <1>1, GuardedBy
<1>3. ASSUME me.copy.name \notin shared
      PROVE  Lasting(me, Doomed)
  BY <1>1, <1>2, <1>3 DEF CopyInv, Guarded
<1>4. VaultInOrder /\ VaultTyped
  BY DEF CopyInv, VaultInOrder
<1>5. ASSUME NEW next, process' = [process EXCEPT !["night"] = next]
      PROVE  process'["night"] = next
  BY <1>4, <1>5 DEF VaultTyped, Vault!Process
<1>6. CASE UNCHANGED <<Vault!disk, process["night"]>>
  <2>1. UNCHANGED <<files, written, named, shared>> /\ Doomed' = Doomed
    BY <1>6 DEF Vault!disk, Doomed
  <2>2. PICK doomed : doomed = Doomed
    OBVIOUS
  <2>3. Lasting(me, doomed)'
    BY <1>2, <1>3, <2>1, <2>2, LastingStays
  <2> QED
    BY <2>1, <2>2, <2>3 DEF Lasting, Outranked
<1>7. CASE /\ process["night"].step # "prune" /\ process'["night"].step # "prune"
           /\ UNCHANGED Vault!disk
  <2>1. UNCHANGED <<files, written, named, shared>> /\ Doomed = {} /\ Doomed' = {}
    BY <1>7 DEF Vault!disk, Doomed
  <2>2. Lasting(me, {})
    BY <1>2, <1>3, <2>1
  <2>3. Lasting(me, {})'
    BY <2>1, <2>2, LastingStays
  <2> QED
    BY <2>1, <2>3 DEF Lasting
<1>8. CASE Vault!Dump("night")
  <2> DEFINE goes == [step |-> "write", safety |-> process["night"].safety,
                      alias |-> process["night"].alias, then |-> process["night"].then,
                      dump |-> site]
  <2>1. /\ process["night"].step = "dump" /\ UNCHANGED Vault!disk
        /\ process' = [process EXCEPT !["night"] = goes]
    BY <1>8 DEF Vault!Dump, Vault!Go
  <2>2. goes.step = "write"
    OBVIOUS
  <2> HIDE DEF goes
  <2> QED
    BY <1>5, <1>7, <2>1, <2>2
<1>9. CASE Vault!Write("night")
  <2>1. me.copy.name \notin shared
    BY <1>2, <1>9 DEF Vault!Write, Vault!Put
  <2>2. me.step = "prune" => me.doomed \subseteq named /\ me.doomed \subseteq FileNames
    BY <1>1, <1>4 DEF VaultInOrder, VaultTyped, TaskFits, Vault!Process
  <2>3. Lasting(me, {})'
    BY <1>2, <1>3, <1>4, <1>9, <2>1, <2>2, NightWrites
  <2>4. process'["night"].step = "list"
    <3> DEFINE goes(copy) == [step |-> "list", then |-> process["night"].then,
                              made |-> process["night"].dump.content, copy |-> copy]
    <3>1. PICK copy : process' = [process EXCEPT !["night"] = goes(copy)]
      BY <1>9 DEF Vault!Write, Vault!Go
    <3>2. goes(copy).step = "list"
      OBVIOUS
    <3> HIDE DEF goes
    <3> QED
      BY <1>5, <3>1, <3>2
  <2>5. Doomed' = {}
    BY <2>4 DEF Doomed
  <2> QED
    BY <2>3, <2>5 DEF Lasting
<1>10. CASE Vault!List("night")
  <2>1. PICK kept \in SUBSET Vault!Disposable :
           /\ Vault!Newest(kept)
           /\ process' = [process EXCEPT !["night"] =
                 [step |-> "prune", then |-> process["night"].then,
                  made |-> process["night"].made, copy |-> process["night"].copy,
                  doomed |-> Vault!Disposable \ kept]]
    BY <1>10 DEF Vault!List, Vault!Go
  <2>2. /\ process["night"].step = "list"
        /\ UNCHANGED <<files, written, named, shared>>
    BY <1>10 DEF Vault!List, Vault!disk
  <2>3. /\ process'["night"].step = "prune"
        /\ process'["night"].doomed = Vault!Disposable \ kept
    <3> DEFINE goes == [step |-> "prune", then |-> process["night"].then,
                        made |-> process["night"].made, copy |-> process["night"].copy,
                        doomed |-> Vault!Disposable \ kept]
    <3>1. goes.step = "prune" /\ goes.doomed = Vault!Disposable \ kept
      OBVIOUS
    <3>2. process' = [process EXCEPT !["night"] = goes]
      BY <2>1
    <3> HIDE DEF goes
    <3> QED
      BY <1>5, <3>1, <3>2
  <2>4. PICK gone : gone = Vault!Disposable \ kept
    OBVIOUS
  <2>5. Doomed = {} /\ Doomed' = gone
    BY <2>2, <2>3, <2>4 DEF Doomed
  <2>6. Lasting(me, gone)
    BY <1>2, <1>3, <1>4, <2>1, <2>2, <2>4, <2>5, NightLists
  <2>7. Lasting(me, gone)'
    BY <2>2, <2>6, LastingStays
  <2> QED
    BY <2>5, <2>7 DEF Lasting, Outranked
<1>11. CASE Vault!Prune("night")
  <2>1. /\ process["night"].step = "prune"
        /\ files' = [x \in DOMAIN files \ process["night"].doomed |-> files[x]]
        /\ UNCHANGED <<second, written, named, shared>>
    BY <1>11 DEF Vault!Prune
  <2>2. PICK gone : gone = process["night"].doomed
    OBVIOUS
  <2>3. Lasting(me, gone)
    BY <1>2, <1>3, <2>1, <2>2 DEF Doomed
  <2>4. Lasting(me, {})'
    BY <1>2, <1>4, <2>1, <2>2, <2>3, NightPrunes
  <2>5. process'["night"].step # "prune"
    <3>1. process["night"] \in Pruning
      BY <1>4, <2>1, TaskFields DEF VaultTyped, Vault!Process
    <3>2. PICK next \in Tasks :
             /\ process' = [process EXCEPT !["night"] = next]
             /\ next = Vault!Idle \/ next.step = process["night"].then.step
      BY <1>4, <1>11, <3>1, PruneGoesOn DEF Vault!Process
    <3>3. process["night"].then.step \in {"idle", "keep", "empty"}
      BY <3>1, ThenFields DEF Pruning
    <3> QED
      BY <1>5, <3>2, <3>3, IdleStep
  <2> QED
    BY <2>4, <2>5 DEF Doomed, Lasting
<1> QED
  BY <1>6, <1>7, <1>8, <1>9, <1>10, <1>11, IdleStep DEF CopyStep

LEMMA GuardedByUser ==
    ASSUME CopyInv, VaultInOrder', CopyStep("user")
    PROVE  Guarded'
<1>1. PICK me : me = process["user"]
  OBVIOUS
<1>2. VaultInOrder /\ VaultTyped /\ me \in Tasks
  BY <1>1 DEF CopyInv, VaultInOrder, VaultTyped, Vault!Process
<1>3. ASSUME NEW next, process' = [process EXCEPT !["user"] = next]
      PROVE  process'["user"] = next /\ UNCHANGED process["night"]
  BY <1>2, <1>3 DEF VaultTyped, Vault!Process
<1>4. CASE Vault!Dump("user")
  <2> DEFINE goes == [step |-> "write", safety |-> me.safety, alias |-> me.alias,
                      then |-> me.then, dump |-> site]
  <2>1. process' = [process EXCEPT !["user"] = goes]
    BY <1>1, <1>4 DEF Vault!Dump, Vault!Go
  <2>2. goes.step = "write"
    OBVIOUS
  <2> HIDE DEF goes
  <2> QED
    BY <1>3, <2>1, <2>2, NotGuarding, GuardedBy
<1>5. CASE Vault!Write("user")
  <2>1. PICK next : process' = [process EXCEPT !["user"] = next]
    BY <1>5 DEF Vault!Write, Vault!Go
  <2>2. next = process'["user"] /\ UNCHANGED process["night"]
    BY <1>3, <2>1
  <2>3. Guarding(next) /\ next.copy.name \notin shared' => Lasting(next, Doomed)'
    BY <1>2, <1>5, <2>2, UserWrites
  <2> QED
    BY <2>2, <2>3, GuardedBy
<1>6. CASE Vault!List("user")
  <2>1. PICK kept \in SUBSET Vault!Disposable :
           /\ Vault!Newest(kept)
           /\ process' = [process EXCEPT !["user"] =
                 [step |-> "prune", then |-> me.then, made |-> me.made, copy |-> me.copy,
                  doomed |-> Vault!Disposable \ kept]]
    BY <1>1, <1>6 DEF Vault!List, Vault!Go
  <2>2. PICK next : next = [step |-> "prune", then |-> me.then, made |-> me.made,
                            copy |-> me.copy, doomed |-> Vault!Disposable \ kept]
    OBVIOUS
  <2>3. next = process'["user"] /\ UNCHANGED process["night"]
    BY <1>3, <2>1, <2>2
  <2>4. /\ me.step = "list"
        /\ UNCHANGED <<files, written, named, shared>>
    BY <1>1, <1>6 DEF Vault!List, Vault!disk
  <2>5. PICK doomed : doomed = Doomed /\ doomed = Doomed'
    BY <2>3 DEF Doomed
  <2>6. next.step = "prune" /\ next.then = me.then /\ next.copy = me.copy
    BY <2>2
  <2>7. ASSUME Guarding(next), next.copy.name \notin shared'
        PROVE  Lasting(next, Doomed)'
    <3>1. Guarding(me)
      BY <2>4, <2>6, <2>7 DEF Guarding, ReplaceSteps
    <3>2. Lasting(me, doomed)
      BY <1>1, <2>4, <2>5, <2>6, <2>7, <3>1 DEF CopyInv, Guarded
    <3>3. Lasting(next, doomed)
      BY <1>2, <2>1, <2>2, <2>4, <3>2, UserLists
    <3>4. Lasting(next, doomed)'
      BY <2>4, <3>3, LastingStays
    <3> QED
      BY <2>5, <3>4 DEF Lasting, Outranked
  <2> QED
    BY <2>3, <2>7, GuardedBy
<1>7. CASE Vault!Prune("user")
  <2>1. /\ me.step = "prune"
        /\ files' = [x \in DOMAIN files \ me.doomed |-> files[x]]
        /\ UNCHANGED <<second, written, named, shared>>
    BY <1>1, <1>7 DEF Vault!Prune
  <2>2. me \in Pruning
    BY <1>2, <2>1, TaskFields
  <2>3. PICK next \in Tasks :
           /\ process' = [process EXCEPT !["user"] = next]
           /\ \/ next = Vault!Idle
              \/ /\ me.then # Vault!Idle /\ me.copy.name \in DOMAIN files \ me.doomed
                 /\ next \in Replacing /\ next.step = me.then.step
                 /\ next.was = me.made /\ next.copy = me.copy
    BY <1>1, <1>2, <1>7, <2>2, PruneGoesOn DEF Vault!Process
  <2>4. next = process'["user"] /\ UNCHANGED process["night"]
    BY <1>3, <2>3
  <2>5. CASE next = Vault!Idle
    BY <2>4, <2>5, IdleStep, NotGuarding, GuardedBy
  <2>6. CASE next # Vault!Idle
    <3>1. PICK doomed : doomed = Doomed /\ doomed = Doomed'
      BY <2>4 DEF Doomed
    <3>2. ASSUME next.copy.name \notin shared'
          PROVE  Lasting(next, Doomed)'
      <4>1. Guarding(me)
        BY <2>1, <2>3, <2>6 DEF Guarding
      <4>2. Lasting(me, doomed)
        BY <1>1, <2>1, <2>3, <2>6, <3>1, <3>2, <4>1 DEF CopyInv, Guarded
      <4>3. next.step \in ReplaceSteps
        BY <2>3, <2>6 DEF Replacing, Keeping, Loading, Owning, Ending, ReplaceSteps
      <4>4. Lasting(next, doomed)'
        BY <1>2, <2>1, <2>3, <2>6, <4>2, <4>3, UserPrunes
      <4> QED
        BY <3>1, <4>4 DEF Lasting, Outranked
    <3> QED
      BY <2>4, <3>2, GuardedBy
  <2> QED
    BY <2>5, <2>6
<1> QED
  BY <1>4, <1>5, <1>6, <1>7 DEF CopyStep

(* A restore or a reset goes on, and remembers its copy.                   *)
LEMMA GuardedByRestore ==
    ASSUME CopyInv, VaultInOrder', RestoreStep
    PROVE  Guarded'
<1>1. PICK me : me = process["user"]
  OBVIOUS
<1>2. VaultTyped /\ me \in Tasks
  BY <1>1 DEF CopyInv, VaultInOrder, VaultTyped, Vault!Process
<1>3. UNCHANGED <<files, written, named, shared>>
  BY DEF RestoreStep, Vault!Keep, Vault!Load, Vault!LoadFails, Vault!ClearCache,
     Vault!EmptySite, Vault!OwnSetting, Vault!disk
<1>4. ASSUME NEW next, process' = [process EXCEPT !["user"] = next],
             me.step \in ReplaceSteps, next.step \in ReplaceSteps,
             next.was = me.was, next.copy = me.copy
      PROVE  Guarded'
  <2>1. next = process'["user"] /\ UNCHANGED process["night"]
    BY <1>2, <1>4 DEF VaultTyped, Vault!Process
  <2>2. PICK doomed : doomed = Doomed /\ doomed = Doomed'
    BY <2>1 DEF Doomed
  <2>3. ASSUME Guarding(next), next.copy.name \notin shared'
        PROVE  Lasting(next, Doomed)'
    <3>1. Guarding(me)
      BY <1>4, <2>3 DEF Guarding, ReplaceSteps
    <3>2. Lasting(me, doomed)
      BY <1>1, <1>3, <1>4, <2>2, <2>3, <3>1 DEF CopyInv, Guarded
    <3>3. Lasting(next, doomed)'
      BY <1>3, <1>4, <3>2, LastingStays DEF Saved, ReplaceSteps
    <3> QED
      BY <2>2, <3>3 DEF Lasting, Outranked
  <2> QED
    BY <2>1, <2>3, GuardedBy
<1>5. CASE Vault!Keep
  <2> DEFINE goes(kept) == [step |-> "load", loads |-> me.loads, was |-> me.was,
                            copy |-> me.copy, own |-> kept]
  <2>1. PICK kept : process' = [process EXCEPT !["user"] = goes(kept)]
    BY <1>1, <1>2, <1>5, KeepTyped DEF UserGoes
  <2>2. goes(kept).step = "load" /\ goes(kept).was = me.was /\ goes(kept).copy = me.copy
    OBVIOUS
  <2>3. me.step = "keep"
    BY <1>1, <1>5 DEF Vault!Keep
  <2> HIDE DEF goes
  <2> QED
    BY <1>4, <2>1, <2>2, <2>3 DEF ReplaceSteps
<1>6. CASE Vault!Load
  <2> DEFINE goes == [step |-> "own", own |-> me.own, was |-> me.was, copy |-> me.copy]
  <2>1. process' = [process EXCEPT !["user"] = goes]
    BY <1>1, <1>2, <1>6, LoadTyped DEF UserGoes
  <2>2. goes.step = "own" /\ goes.was = me.was /\ goes.copy = me.copy
    OBVIOUS
  <2>3. me.step = "load"
    BY <1>1, <1>6 DEF Vault!Load
  <2> HIDE DEF goes
  <2> QED
    BY <1>4, <2>1, <2>2, <2>3 DEF ReplaceSteps
<1>7. CASE Vault!EmptySite
  <2> DEFINE goes == [step |-> "clear", was |-> me.was, copy |-> me.copy]
  <2>1. process' = [process EXCEPT !["user"] = goes]
    BY <1>1, <1>2, <1>7, EmptySiteTyped DEF UserGoes
  <2>2. goes.step = "clear" /\ goes.was = me.was /\ goes.copy = me.copy
    OBVIOUS
  <2>3. me.step = "empty"
    BY <1>1, <1>7 DEF Vault!EmptySite
  <2> HIDE DEF goes
  <2> QED
    BY <1>4, <2>1, <2>2, <2>3 DEF ReplaceSteps
<1>8. ASSUME NEW k \in Key, Vault!OwnSetting(k)
      PROVE  Guarded'
  <2> DEFINE goes == [step |-> "own", own |-> [me.own EXCEPT ![k] = "none"],
                      was |-> me.was, copy |-> me.copy]
  <2>1. process' = [process EXCEPT !["user"] = goes]
    BY <1>1, <1>2, <1>8, OwnSettingTyped DEF UserGoes
  <2>2. goes.step = "own" /\ goes.was = me.was /\ goes.copy = me.copy
    OBVIOUS
  <2>3. me.step = "own"
    BY <1>1, <1>8 DEF Vault!OwnSetting
  <2> HIDE DEF goes
  <2> QED
    BY <1>4, <2>1, <2>2, <2>3 DEF ReplaceSteps
<1>9. CASE Vault!LoadFails \/ Vault!ClearCache
  <2>1. process'["user"] = Vault!Idle
    BY <1>2, <1>9, UserGone DEF Vault!LoadFails, Vault!ClearCache, Vault!Go
  <2> QED
    BY <2>1, IdleStep, NotGuarding, GuardedBy
<1> QED
  BY <1>5, <1>6, <1>7, <1>8, <1>9 DEF RestoreStep

LEMMA GuardedStays ==
    ASSUME Imported, Retention \in Nat, CopyInv, [Vault!Next]_Vault!vars
    PROVE  CopyInv'
<1>1. VaultInOrder /\ VaultTyped /\ VaultInOrder'
  BY VaultStaysInOrder DEF CopyInv, VaultInOrder
<1>2. CASE SiteStep \/ UNCHANGED Vault!vars
  <2>1. UNCHANGED <<Vault!disk, process>>
    BY <1>2 DEF SiteStep, Vault!Edit, Vault!GetSetting, Vault!CacheSetting,
       Vault!ChangeSetting, Vault!DropSetting, Vault!vars
  <2>2. UNCHANGED process["user"] /\ UNCHANGED <<Vault!disk, process["night"]>>
    BY <2>1
  <2> QED
    BY <1>1, <2>2, GuardedByNight DEF CopyInv
<1>3. CASE FileStep
  <2>1. process["user"] = Vault!Idle /\ UNCHANGED process
    BY <1>3 DEF FileStep, Vault!Import, Vault!Pin, Vault!RemoveFile
  <2>2. process'["user"] = Vault!Idle
    BY <2>1
  <2> QED
    BY <1>1, <2>2, IdleStep, NotGuarding, GuardedBy DEF CopyInv
<1>4. CASE BeginStep
  <2>1. PICK p \in Vault!Process, next \in Tasks :
           /\ process[p] = Vault!Idle
           /\ process' = [process EXCEPT ![p] = next]
           /\ next.step \in {"dump", "keep"}
           /\ next.step = "keep" => next.was = None
           /\ p = "night" => next.step = "dump"
    BY <1>1, <1>4, Beginning
  <2>2. process'[p] = next /\ \A q \in Vault!Process : q # p => process'[q] = process[q]
    BY <1>1, <2>1, TaskTaken
  <2>3. CASE p = "user"
    <3>1. process'["user"] = next /\ ~Guarding(next)
      BY <2>1, <2>2, <2>3, NotGuarding DEF ReplaceSteps
    <3> QED
      BY <1>1, <3>1, GuardedBy DEF CopyInv
  <2>4. CASE p = "night"
    <3>1. /\ UNCHANGED process["user"] /\ process["night"] = Vault!Idle
          /\ process'["night"].step = "dump"
      BY <2>1, <2>2, <2>4 DEF Vault!Process
    <3> QED
      BY <1>1, <1>4, <3>1, Beginning, GuardedByNight DEF CopyInv
  <2> QED
    BY <2>3, <2>4 DEF Vault!Process
<1>5. CASE CopyStep("user")
  BY <1>1, <1>5, GuardedByUser DEF CopyInv
<1>6. CASE CopyStep("night")
  <2>1. PICK next : process' = [process EXCEPT !["night"] = next]
    BY <1>1, <1>6, CopyFits DEF Vault!Process
  <2>2. UNCHANGED process["user"]
    BY <1>1, <2>1 DEF VaultTyped, Vault!Process
  <2> QED
    BY <1>1, <1>6, <2>2, GuardedByNight DEF CopyInv
<1>7. CASE RestoreStep
  BY <1>1, <1>7, GuardedByRestore DEF CopyInv
<1>8. CASE Vault!Crash
  <2>1. process'["user"] = Vault!Idle
    BY <1>8 DEF Vault!Crash, Vault!Process
  <2> QED
    BY <1>1, <2>1, IdleStep, NotGuarding, GuardedBy DEF CopyInv
<1> QED
  BY <1>2, <1>3, <1>4, <1>5, <1>6, <1>7, <1>8, VaultSteps DEF Vault!Process

(* While a restore or a reset replaces the site, what it held when it was  *)
(* copied is in a backup, however many backups are kept and however many   *)
(* nightly runs write and roll off meanwhile: unless another backup was    *)
(* given the copy's name, or as many as are kept are dated no earlier.     *)
THEOREM TheWayBackIsKept ==
    ASSUME Imported, Retention \in Nat
    PROVE  Vault!Spec => []WayBack
<1>1. Vault!Init => CopyInv
  <2> SUFFICES ASSUME Vault!Init PROVE CopyInv
    OBVIOUS
  <2>1. VaultTyped
    BY VaultBeginsTyped
  <2>2. DiskOrdered
    <3>1. DOMAIN files = {} /\ named = {}
      BY DEF Vault!Init
    <3> QED
      BY <3>1, FS_EmptySet DEF DiskOrdered
  <2>3. \A p \in Vault!Process : process[p] = Vault!Idle
    BY DEF Vault!Init
  <2>4. \A p \in Vault!Process : TaskFits(p, process[p])
    BY <2>3, IdleStep DEF TaskFits
  <2>5. ~Guarding(process["user"])
    BY <2>3, IdleStep, NotGuarding DEF Vault!Process
  <2> QED
    BY <2>1, <2>2, <2>4, <2>5 DEF CopyInv, VaultInOrder, Guarded
<1>2. CopyInv /\ [Vault!Next]_Vault!vars => CopyInv'
  BY GuardedStays
<1>3. CopyInv => WayBack
  <2> DEFINE me == process["user"]
  <2> SUFFICES ASSUME CopyInv, me.step \in ReplaceSteps, me.was # None,
                      me.copy.name \notin shared
               PROVE  \/ \E x \in DOMAIN files : files[x].holds.content = me.was
                      \/ Vault!Cardinality(Vault!Ahead(me.copy)) >= Retention
    BY DEF WayBack, Vault!WayBack, ReplaceSteps
  <2>1. Lasting(me, Doomed)
    BY DEF CopyInv, Guarded, Guarding
  <2>2. CASE me.copy.name \in DOMAIN files
    BY <2>1, <2>2 DEF Lasting, CopyLasts, Saved
  <2>3. CASE me.copy.name \notin DOMAIN files
    <3>1. Cardinality(Vault!Ahead(me.copy) \ Doomed) >= Retention
      BY <2>1, <2>3 DEF Lasting, Outranked
    <3>2. IsFiniteSet(Vault!Ahead(me.copy))
      BY AheadFinite DEF CopyInv, VaultInOrder
    <3>3. Cardinality(Vault!Ahead(me.copy)) >= Retention
      BY <3>1, <3>2, MoreOutrank
    <3> QED
      BY <3>3, SameCount
  <2> QED
    BY <2>2, <2>3
<1> QED
  BY <1>1, <1>2, <1>3, PTL DEF Vault!Spec

(***************************************************************************)
(* Signing in                                                              *)
(***************************************************************************)

DoorTyped ==
    /\ minute \in Nat /\ guesses \in Nat /\ rights \in Nat
    /\ DOMAIN code = {"state", "at", "life", "attempts", "to"}
    /\ code.state \in {"none", "live", "used", "right"}
    /\ code.at \in Nat /\ code.at <= minute /\ code.attempts \in Nat

(* A code issued.                                                          *)
Reissued == \E step, to : code' = Door!Issued(step, to)

(* What a step may do to the code and to what has been entered.            *)
LEMMA DoorSteps ==
    ASSUME Door!Next
    PROVE  \/ UNCHANGED <<code, guesses, rights>> /\ minute' \in {minute, minute + 1}
           \/ Reissued /\ UNCHANGED <<minute, guesses, rights>>
           \/ Door!Right /\ UNCHANGED <<minute, guesses>>
           \/ Door!WrongCode
<1>1. Door!Tick => UNCHANGED <<code, guesses, rights>> /\ minute' = minute + 1
  BY DEF Door!Tick
<1>2. Door!WrongPassword \/ Door!AdminCreate \/ Door!SubmitRecoveryCode
      \/ Door!ChangeForcedPassword \/ Door!SignOutEverywhere \/ Door!GoogleSignIn
      \/ Door!GoogleLink \/ Door!UpdateProfile
        => UNCHANGED <<code, guesses, rights, minute>>
  BY DEF Door!WrongPassword, Door!AdminCreate, Door!SubmitRecoveryCode, Door!Recovery,
     Door!ChangeForcedPassword, Door!SignOutEverywhere, Door!GoogleSignIn, Door!GoogleLink,
     Door!UpdateProfile, Door!NoCode, Door!Rest
<1>3. Door!SignUp => UNCHANGED <<minute, guesses, rights>> /\ (Reissued \/ UNCHANGED code)
  BY DEF Door!SignUp, Door!Rest, Reissued
<1>4. ASSUME NEW step, Door!Challenge(step)
      PROVE  Reissued /\ UNCHANGED rights
  BY <1>4 DEF Door!Challenge, Reissued
<1>5. ASSUME NEW inTrusted, Door!PasswordSignIn(inTrusted)
      PROVE  UNCHANGED <<minute, guesses, rights>> /\ (Reissued \/ UNCHANGED code)
  BY <1>4, <1>5 DEF Door!PasswordSignIn, Door!NoCode, Door!Rest
<1>6. \A step : Door!ResendCode(step) => Reissued /\ UNCHANGED <<minute, guesses, rights>>
  BY <1>4 DEF Door!ResendCode, Door!Rest
<1>7. Door!RequestReset => Reissued /\ UNCHANGED <<minute, guesses, rights>>
  BY <1>4 DEF Door!RequestReset, Door!Rest
<1>8. Door!SendCode => Reissued /\ UNCHANGED <<minute, guesses, rights>>
  BY DEF Door!SendCode, Door!Rest, Reissued
<1>9. \A step, remember : Door!SubmitCode(step, remember)
                            => Door!Right /\ UNCHANGED <<minute, guesses>>
  BY DEF Door!SubmitCode, Door!Rest
<1>10. Door!ResetPassword => \/ Door!Right /\ UNCHANGED <<minute, guesses>>
                             \/ UNCHANGED <<code, guesses, rights, minute>>
  BY DEF Door!ResetPassword, Door!Recovery, Door!NoCode, Door!Rest
<1>11. Door!Proof => \/ Door!Right /\ UNCHANGED <<minute, guesses>>
                     \/ UNCHANGED <<code, guesses, rights, minute>>
  BY DEF Door!Proof, Door!NoCode
<1> QED
  BY <1>1, <1>2, <1>3, <1>5, <1>6, <1>7, <1>8, <1>9, <1>10, <1>11
     DEF Door!Next, Door!ChangePassword, Door!ChangeEmail, Door!NewRecoveryCodes

LEMMA DoorStaysTyped ==
    ASSUME DoorTyped, [Door!Next]_Door!vars
    PROVE  DoorTyped'
<1>1. CASE UNCHANGED <<code, guesses, rights>> /\ minute' \in {minute, minute + 1}
  BY <1>1 DEF DoorTyped
<1>2. CASE Reissued /\ UNCHANGED <<minute, guesses, rights>>
  BY <1>2 DEF DoorTyped, Reissued, Door!Issued
<1>3. CASE Door!Right /\ UNCHANGED <<minute, guesses>>
  BY <1>3 DEF DoorTyped, Door!Right, Door!Spent
<1>4. CASE Door!WrongCode
  <2>1. UNCHANGED <<minute, rights>> /\ guesses' \in {guesses, guesses + 1}
    BY <1>4 DEF Door!WrongCode
  <2>2. \/ code' = [code EXCEPT !.state = "used"]
        \/ \E next \in {"used", code.state} :
              code' = [code EXCEPT !.attempts = @ + 1, !.state = next]
    BY <1>4 DEF Door!WrongCode
  <2>3. /\ DOMAIN code' = DOMAIN code /\ code'.at = code.at
        /\ code'.state \in {"used", code.state} /\ code'.attempts \in Nat
    <3>1. CASE code' = [code EXCEPT !.state = "used"]
      BY <3>1 DEF DoorTyped
    <3>2. ASSUME NEW next \in {"used", code.state},
                 code' = [code EXCEPT !.attempts = @ + 1, !.state = next]
          PROVE  /\ DOMAIN code' = DOMAIN code /\ code'.at = code.at
                 /\ code'.state \in {"used", code.state} /\ code'.attempts \in Nat
      BY <3>2 DEF DoorTyped
    <3> QED
      BY <2>2, <3>1, <3>2
  <2> QED
    BY <2>1, <2>3 DEF DoorTyped
<1> QED
  BY <1>1, <1>2, <1>3, <1>4, DoorSteps DEF Door!vars

LEMMA Divided ==
    ASSUME NEW a \in Nat, NEW b \in Nat, a <= b, Throttle \in Nat \ {0}
    PROVE  /\ a \div Throttle \in Nat /\ b \div Throttle \in Nat
           /\ a \div Throttle <= b \div Throttle
           /\ a + Throttle <= b => (a \div Throttle) + 1 <= b \div Throttle
<1>1. a \div Throttle \in Nat /\ b \div Throttle \in Nat
  OBVIOUS
<1>2. a \div Throttle <= b \div Throttle
  OBVIOUS
<1>3. ASSUME a + Throttle <= b
      PROVE  (a \div Throttle) + 1 <= b \div Throttle
  BY <1>3
<1> QED
  BY <1>1, <1>2, <1>3

(* Each period of the throttle, and each code that was right, is worth the *)
(* tries of one code.                                                      *)
Worth(k) == Tries * k

LEMMA Worths ==
    ASSUME Tries \in Nat, NEW a \in Nat, NEW b \in Nat, a <= b
    PROVE  Worth(a) \in Nat /\ Worth(b) \in Nat /\ Worth(a) <= Worth(b) /\ Worth(a + 1) = Worth(a) + Tries
<1>1. \A k \in Nat : Worth(k) \in Nat
  BY DEF Worth
<1>2. Worth(a) <= Worth(b)
  BY DEF Worth
<1>3. Worth(a + 1) = Worth(a) + Tries
  BY DEF Worth
<1> QED
  BY <1>1, <1>2, <1>3

Sent == code.at \div Throttle

GuessInv ==
    /\ code.state = "none" => guesses = 0
    /\ code.state \in {"live", "used"} =>
          code.attempts <= Tries /\ guesses <= Worth(Sent + rights) + code.attempts
    /\ code.state = "right" => guesses <= Worth(Sent + rights)

LEMMA GuessesStayFew ==
    ASSUME DoorTyped, DoorTyped', GuessInv, [Door!Next]_Door!vars,
           Tries \in Nat, Throttle \in Nat \ {0}
    PROVE  GuessInv'
<1>1. CASE UNCHANGED <<code, guesses, rights>>
  BY <1>1 DEF GuessInv, Sent
<1>2. CASE Reissued /\ UNCHANGED <<minute, guesses, rights>>
  <2>1. CASE UNCHANGED code
    BY <1>1, <1>2, <2>1
  <2>2. CASE code' # code
    <3>1. /\ ~Door!Throttled
          /\ code'.state = "live" /\ code'.at = minute /\ code'.attempts = 0
      BY <1>2, <2>2 DEF Reissued, Door!Issued
    <3>2. PICK q, p, g, r : /\ q = code.at \div Throttle /\ p = minute \div Throttle
                            /\ g = guesses /\ r = rights
      OBVIOUS
    <3>3. /\ q \in Nat /\ p \in Nat /\ g \in Nat /\ r \in Nat /\ q <= p
          /\ code.at + Throttle <= minute => q + 1 <= p
      BY <3>2, Divided DEF DoorTyped
    <3>4. g <= Worth(p + r)
      <4>1. CASE code.state = "none"
        BY <3>2, <3>3, <4>1, Worths DEF GuessInv
      <4>2. CASE code.state = "right"
        <5>1. g <= Worth(q + r) /\ q + r \in Nat /\ p + r \in Nat /\ q + r <= p + r
          BY <3>2, <3>3, <4>2 DEF GuessInv, Sent
        <5> QED
          BY <3>3, <5>1, Worths
      <4>3. CASE code.state \in {"live", "used"}
        <5>1. code.at + Throttle <= minute
          BY <3>1, <4>3 DEF Door!Throttled, DoorTyped
        <5>2. g <= Worth(q + r) + Tries
          <6>1. q + r \in Nat
            BY <3>3
          <6>2. Worth(q + r) \in Nat
            BY <6>1, Worths
          <6>3. /\ g <= Worth(q + r) + code.attempts
                /\ code.attempts <= Tries /\ code.attempts \in Nat
            BY <3>2, <4>3 DEF GuessInv, Sent, DoorTyped
          <6> QED
            BY <3>3, <6>2, <6>3
        <5>3. /\ q + r \in Nat /\ p + r \in Nat /\ (q + r) + 1 \in Nat /\ (q + r) + 1 <= p + r
          BY <3>3, <5>1
        <5>4. /\ Worth((q + r) + 1) = Worth(q + r) + Tries
              /\ Worth((q + r) + 1) <= Worth(p + r)
              /\ Worth((q + r) + 1) \in Nat /\ Worth(p + r) \in Nat
          BY <5>3, Worths
        <5> QED
          BY <3>3, <5>2, <5>4
      <4> QED
        BY <4>1, <4>2, <4>3 DEF DoorTyped
    <3>5. Sent' = p /\ guesses' = g /\ rights' = r
      BY <1>2, <3>1, <3>2 DEF Sent
    <3>6. Worth(p + r) \in Nat
      BY <3>3, Worths
    <3> QED
      BY <3>1, <3>3, <3>4, <3>5, <3>6 DEF GuessInv, Worth
  <2> QED
    BY <2>1, <2>2
<1>3. CASE Door!Right /\ UNCHANGED <<minute, guesses>>
  <2>1. /\ code.state = "live" /\ code'.state = "right" /\ code'.at = code.at
        /\ rights' = rights + 1
    BY <1>3 DEF Door!Right, Door!Spent, DoorTyped
  <2>2. PICK q, r, w : q = Sent /\ r = rights /\ w = Worth(q + r)
    OBVIOUS
  <2>3. q \in Nat /\ r \in Nat /\ q + r \in Nat
    BY <2>2, Divided DEF DoorTyped, Sent
  <2>4. w \in Nat /\ Worth((q + r) + 1) = w + Tries
    BY <2>2, <2>3, Worths
  <2>5. guesses <= w + code.attempts /\ code.attempts <= Tries
    BY <2>1, <2>2 DEF GuessInv
  <2>6. guesses <= w + Tries
    BY <2>4, <2>5 DEF DoorTyped
  <2>7. Sent' = q /\ rights' = r + 1 /\ guesses' = guesses
    BY <1>3, <2>1, <2>2 DEF Sent
  <2>8. (q + r) + 1 = q + (r + 1)
    BY <2>3
  <2> QED
    BY <2>1, <2>4, <2>6, <2>7, <2>8 DEF GuessInv, Worth
<1>4. CASE Door!WrongCode
  <2>1. UNCHANGED <<minute, rights>> /\ code.state = "live" /\ code'.at = code.at
    BY <1>4 DEF Door!WrongCode, DoorTyped
  <2>2. code.attempts <= Tries /\ guesses <= Worth(Sent + rights) + code.attempts
    BY <2>1 DEF GuessInv
  <2>3. Sent' = Sent /\ Worth(Sent + rights) \in Nat
    <3>1. Sent \in Nat /\ rights \in Nat
      BY Divided DEF Sent, DoorTyped
    <3> QED
      BY <2>1, <3>1, Worths DEF Sent
  <2>4. CASE Door!Stale
    <3>1. code'.attempts = code.attempts /\ code'.state = "used" /\ guesses' = guesses
      BY <1>4, <2>4 DEF Door!WrongCode, DoorTyped
    <3> QED
      BY <2>1, <2>2, <2>3, <3>1 DEF GuessInv, Worth
  <2>5. CASE ~Door!Stale
    <3>1. /\ code'.attempts = code.attempts + 1 /\ code'.state \in {"used", "live"}
          /\ guesses' = guesses + 1 /\ ~(code.attempts >= Tries)
      BY <1>4, <2>1, <2>5 DEF Door!WrongCode, Door!Stale, DoorTyped
    <3>2. code.attempts + 1 <= Tries
      BY <3>1 DEF DoorTyped
    <3>3. guesses + 1 <= Worth(Sent + rights) + (code.attempts + 1)
      BY <2>2, <2>3 DEF DoorTyped
    <3> QED
      BY <2>1, <2>3, <3>1, <3>2, <3>3 DEF GuessInv, Worth
  <2> QED
    BY <2>4, <2>5
<1> QED
  BY <1>1, <1>2, <1>3, <1>4, DoorSteps DEF Door!vars

(* However codes are asked for, failed, burnt and asked for again, and     *)
(* whatever else happens to the account meanwhile, no more wrong codes are *)
(* compared with a live one than the tries of one code for each period of  *)
(* the throttle and for each code that was read from the inbox             *)
(* (TwoFactorService.issueCode, checkCode).                                *)
THEOREM GuessesAreFew ==
    ASSUME Tries \in Nat, Throttle \in Nat \ {0}
    PROVE  Door!Spec => []GuessingIsSlow
<1>1. Door!Init => DoorTyped /\ GuessInv
  BY DEF Door!Init, DoorTyped, GuessInv
<1>2. DoorTyped /\ GuessInv => GuessingIsSlow
  <2> SUFFICES ASSUME DoorTyped, GuessInv
               PROVE  guesses <= Tries * (1 + (minute \div Throttle) + rights)
    BY DEF GuessingIsSlow, Door!GuessingIsSlow
  <2>1. PICK q, p, r : q = Sent /\ p = minute \div Throttle /\ r = rights
    OBVIOUS
  <2>2. q \in Nat /\ p \in Nat /\ r \in Nat /\ q <= p
    BY <2>1, Divided DEF Sent, DoorTyped
  <2>3. /\ q + r \in Nat /\ p + r \in Nat /\ q + r <= p + r /\ (p + r) + 1 = 1 + p + r
    BY <2>2
  <2>4. /\ Worth(q + r) \in Nat /\ Worth(p + r) \in Nat /\ Worth(q + r) <= Worth(p + r)
        /\ Worth((p + r) + 1) = Worth(p + r) + Tries
    BY <2>3, Worths
  <2>5. guesses <= Worth(q + r) + Tries
    <3>1. CASE code.state = "none"
      BY <2>4, <3>1 DEF GuessInv
    <3>2. CASE code.state = "right"
      BY <2>1, <2>4, <3>2 DEF GuessInv, DoorTyped
    <3>3. CASE code.state \in {"live", "used"}
      BY <2>1, <2>4, <3>3 DEF GuessInv, DoorTyped
    <3> QED
      BY <3>1, <3>2, <3>3 DEF DoorTyped
  <2>6. guesses <= Worth((p + r) + 1)
    BY <2>4, <2>5 DEF DoorTyped
  <2> QED
    BY <2>1, <2>3, <2>6 DEF Worth
<1> QED
  BY <1>1, <1>2, DoorStaysTyped, GuessesStayFew, PTL DEF Door!Spec

(* Where neither Google nor an admin vouches: a code on its way goes to    *)
(* the account's address, unless nobody receives it, and an account nobody *)
(* has made was sent none.                                                 *)
AddressInv ==
    /\ DOMAIN account = {"made", "email", "verified", "password", "forced", "google", "recovery"}
    /\ account.google = FALSE
    /\ account.made = FALSE => code.state = "none" /\ account.verified = FALSE
    /\ code.state = "live" /\ door.mail /\ code.to # Void => code.to = account.email
    /\ account.verified => account.email \in proved

LEMMA AddressStays ==
    ASSUME DoorTyped, AddressInv, [Door!Next]_Door!vars, ~door.google, ~door.admin
    PROVE  AddressInv' /\ UNCHANGED door
<1>1. ASSUME UNCHANGED <<door, account>>, proved \subseteq proved',
             \/ UNCHANGED code
             \/ code'.state # "live" /\ code.state # "none"
             \/ account.made = TRUE /\ code'.to = account.email
      PROVE  AddressInv' /\ UNCHANGED door
  BY <1>1 DEF AddressInv
<1>2. \A step, to : Door!Issued(step, to) = code \/ Door!Issued(step, to).to = to
  BY DEF Door!Issued
<1>3. ASSUME NEW step, Door!Challenge(step), account.made, UNCHANGED <<door, account>>
      PROVE  AddressInv' /\ UNCHANGED door
  BY <1>1, <1>2, <1>3 DEF Door!Challenge
<1>4. ASSUME UNCHANGED <<door, code>>, account.made, proved \subseteq proved',
             DOMAIN account' = DOMAIN account, account'.made = account.made,
             account'.google = FALSE, account'.email = account.email,
             account'.verified => account.verified \/ account.email \in proved'
      PROVE  AddressInv' /\ UNCHANGED door
  BY <1>4 DEF AddressInv
<1>5. ASSUME Door!Right
      PROVE  /\ code'.state = "right" /\ code.state # "none" /\ account.made
             /\ code.to = account.email
  BY <1>5 DEF Door!Right, Door!Spent, AddressInv, DoorTyped
<1>6. CASE Door!Tick \/ Door!WrongPassword \/ Door!SignOutEverywhere \/ UNCHANGED Door!vars
  BY <1>1, <1>6 DEF Door!Tick, Door!WrongPassword, Door!SignOutEverywhere, Door!Rest, Door!vars
<1>7. CASE Door!WrongCode
  <2>1. UNCHANGED <<door, account, proved>> /\ code.state = "live" /\ code'.to = code.to
    BY <1>7 DEF Door!WrongCode, DoorTyped
  <2>2. account.made
    BY <2>1 DEF AddressInv
  <2> QED
    BY <2>1, <2>2 DEF AddressInv
<1>8. CASE Door!SignUp
  <2>1. PICK a : /\ Door!New(FALSE, TRUE, FALSE, FALSE, a)
                 /\ code' = code \/ code' = Door!Issued("verify", a)
    BY <1>8 DEF Door!SignUp
  <2>2. UNCHANGED <<door, proved>> /\ code.state = "none"
    BY <1>8 DEF Door!SignUp, Door!Rest, AddressInv
  <2>3. /\ DOMAIN account' = DOMAIN account /\ account'.made = TRUE /\ account'.google = FALSE
        /\ account'.verified = FALSE /\ account'.email = a
    BY <2>1 DEF Door!New, AddressInv
  <2>4. code'.state = "live" => code'.to = a
    BY <2>1, <2>2 DEF Door!Issued, Door!Throttled
  <2> QED
    BY <2>2, <2>3, <2>4 DEF AddressInv
<1>9. CASE Door!AdminCreate
  <2>1. PICK a : Door!New(FALSE, TRUE, TRUE, FALSE, a)
    BY <1>9 DEF Door!AdminCreate
  <2>2. UNCHANGED <<door, code, proved>> /\ code.state = "none"
    BY <1>9 DEF Door!AdminCreate, Door!Rest, AddressInv
  <2>3. /\ DOMAIN account' = DOMAIN account /\ account'.made = TRUE /\ account'.google = FALSE
        /\ account'.verified = FALSE
    BY <2>1 DEF Door!New, AddressInv
  <2> QED
    BY <2>2, <2>3 DEF AddressInv
<1>10. ASSUME NEW inTrusted, Door!PasswordSignIn(inTrusted)
       PROVE  AddressInv' /\ UNCHANGED door
  <2>1. UNCHANGED <<door, account>> /\ account.made
    BY <1>10 DEF Door!PasswordSignIn, Door!Rest
  <2>2. \/ \E step : Door!Challenge(step)
        \/ UNCHANGED <<code, proved>>
    BY <1>10 DEF Door!PasswordSignIn, Door!NoCode
  <2> QED
    BY <1>1, <1>3, <2>1, <2>2
<1>11. ASSUME NEW step, NEW remember, Door!SubmitCode(step, remember)
       PROVE  AddressInv' /\ UNCHANGED door
  <2>1. /\ Door!Right /\ proved' = proved \union {code.to} /\ UNCHANGED door
        /\ \/ account' = [account EXCEPT !.verified = TRUE, !.recovery = 1]
           \/ UNCHANGED account
    BY <1>11 DEF Door!SubmitCode, Door!Rest
  <2>2. /\ DOMAIN account' = DOMAIN account /\ account'.made = account.made
        /\ account'.google = FALSE /\ account'.email = account.email
    BY <2>1 DEF AddressInv
  <2> QED
    BY <1>5, <2>1, <2>2 DEF AddressInv
<1>12. CASE Door!SubmitRecoveryCode
  <2>1. /\ account.made /\ proved' = proved \union {account.email} /\ UNCHANGED <<door, code>>
        /\ account' = [account EXCEPT !.recovery = @ - 1, !.verified = TRUE]
    BY <1>12 DEF Door!SubmitRecoveryCode, Door!Recovery, Door!NoCode, Door!Rest
  <2>2. /\ DOMAIN account' = DOMAIN account /\ account'.made = account.made
        /\ account'.google = FALSE /\ account'.email = account.email
    BY <2>1 DEF AddressInv
  <2> QED
    BY <1>4, <2>1, <2>2
<1>13. ASSUME NEW step, Door!ResendCode(step)
       PROVE  AddressInv' /\ UNCHANGED door
  BY <1>3, <1>13 DEF Door!ResendCode, Door!Rest
<1>14. CASE Door!RequestReset
  BY <1>3, <1>14 DEF Door!RequestReset, Door!Rest
<1>15. CASE Door!ResetPassword
  <2>1. /\ account.made /\ UNCHANGED <<door, proved>>
        /\ (Door!Right \/ UNCHANGED code)
        /\ DOMAIN account' = DOMAIN account /\ account'.made = account.made
        /\ account'.google = FALSE /\ account'.email = account.email
        /\ account'.verified = account.verified
    BY <1>15 DEF Door!ResetPassword, Door!Recovery, Door!NoCode, Door!Rest, AddressInv
  <2> QED
    BY <1>5, <2>1 DEF AddressInv
<1>16. CASE Door!ChangeForcedPassword
  <2>1. account.made /\ UNCHANGED <<door, code, proved>>
    BY <1>16 DEF Door!ChangeForcedPassword, Door!NoCode, Door!Rest
  <2>2. CASE account.email = Void
    <3>1. PICK a : account' = [account EXCEPT !.forced = FALSE, !.password = TRUE,
                                              !.email = a, !.verified = FALSE]
      BY <1>16, <2>2 DEF Door!ChangeForcedPassword
    <3>2. /\ DOMAIN account' = DOMAIN account /\ account'.made = account.made
          /\ account'.google = FALSE /\ account'.verified = FALSE
      BY <3>1 DEF AddressInv
    <3> QED
      BY <2>1, <2>2, <3>2 DEF AddressInv
  <2>3. CASE account.email # Void
    <3>1. account' = [account EXCEPT !.forced = FALSE, !.password = TRUE]
      BY <1>16, <2>3 DEF Door!ChangeForcedPassword
    <3>2. /\ DOMAIN account' = DOMAIN account /\ account'.made = account.made
          /\ account'.google = FALSE /\ account'.email = account.email
          /\ account'.verified = account.verified
      BY <3>1 DEF AddressInv
    <3> QED
      BY <1>4, <2>1, <3>2
  <2> QED
    BY <2>2, <2>3
<1>17. CASE Door!SendCode
  BY <1>1, <1>2, <1>17 DEF Door!SendCode, Door!SignedIn, Door!Rest
<1>18. Door!Proof => /\ account.made /\ UNCHANGED <<door, proved>>
                     /\ (Door!Right \/ (UNCHANGED code /\ ~door.mail))
  BY DEF Door!Proof, Door!SignedIn, Door!NoCode, AddressInv
<1>19. CASE Door!ChangePassword \/ Door!NewRecoveryCodes
  <2>1. /\ Door!Proof
        /\ DOMAIN account' = DOMAIN account /\ account'.made = account.made
        /\ account'.google = FALSE /\ account'.email = account.email
        /\ account'.verified = account.verified
    BY <1>19 DEF Door!ChangePassword, Door!NewRecoveryCodes, AddressInv
  <2> QED
    BY <1>5, <1>18, <2>1 DEF AddressInv
<1>20. CASE Door!ChangeEmail
  <2>1. PICK a : Door!Proof /\ account' = [account EXCEPT !.email = a, !.verified = FALSE]
    BY <1>20 DEF Door!ChangeEmail
  <2>2. /\ DOMAIN account' = DOMAIN account /\ account'.made = account.made
        /\ account'.google = FALSE /\ account'.verified = FALSE
    BY <2>1 DEF AddressInv
  <2> QED
    BY <1>5, <1>18, <2>1, <2>2 DEF AddressInv
<1>21. ~Door!GoogleSignIn /\ ~Door!GoogleLink /\ ~Door!UpdateProfile
  BY DEF Door!GoogleSignIn, Door!GoogleLink, Door!UpdateProfile
<1> QED
  BY <1>6, <1>7, <1>8, <1>9, <1>10, <1>11, <1>12, <1>13, <1>14, <1>15, <1>16, <1>17, <1>19,
     <1>20, <1>21 DEF Door!Next

LEMMA SameDoor == [Door!Next]_Door!vars => UNCHANGED door
<1>1. UNCHANGED Door!vars => UNCHANGED door
  BY DEF Door!vars
<1>2. Door!Tick \/ Door!WrongCode \/ Door!WrongPassword \/ Door!SignUp \/ Door!AdminCreate
        => UNCHANGED door
  BY DEF Door!Tick, Door!WrongCode, Door!WrongPassword, Door!SignUp, Door!AdminCreate, Door!Rest
<1>3. /\ \A b : Door!PasswordSignIn(b) => UNCHANGED door
      /\ \A step : Door!ResendCode(step) => UNCHANGED door
      /\ \A step, b : Door!SubmitCode(step, b) => UNCHANGED door
  BY DEF Door!PasswordSignIn, Door!ResendCode, Door!SubmitCode, Door!Rest
<1>4. Door!SubmitRecoveryCode \/ Door!RequestReset \/ Door!ResetPassword
      \/ Door!ChangeForcedPassword \/ Door!SendCode \/ Door!SignOutEverywhere
      \/ Door!GoogleSignIn \/ Door!GoogleLink \/ Door!UpdateProfile => UNCHANGED door
  BY DEF Door!SubmitRecoveryCode, Door!RequestReset, Door!ResetPassword,
     Door!ChangeForcedPassword, Door!SendCode, Door!SignOutEverywhere, Door!GoogleSignIn,
     Door!GoogleLink, Door!UpdateProfile, Door!Rest
<1>5. Door!Proof => UNCHANGED door
  BY DEF Door!Proof
<1> QED
  BY <1>1, <1>2, <1>3, <1>4, <1>5
     DEF Door!Next, Door!ChangePassword, Door!ChangeEmail, Door!NewRecoveryCodes

(* Where only passwords and codes confirm a change, no code that was sent  *)
(* to an address before, however late it is entered, verifies the address  *)
(* an account has now (TwoFactorService.issueCode and checkCode,           *)
(* AuthService.submitCode, AccountService.changeEmail).                    *)
THEOREM VerifiedMeansProved == Door!Spec => []VerifiedAddressIsProved
<1> DEFINE Vouched == door.google \/ door.admin
<1>1. Door!Init => DoorTyped /\ (Vouched \/ AddressInv)
  BY DEF Door!Init, DoorTyped, AddressInv
<1>2. DoorTyped /\ (Vouched \/ AddressInv) /\ [Door!Next]_Door!vars
        => DoorTyped' /\ (Vouched \/ AddressInv)'
  <2> SUFFICES ASSUME DoorTyped, Vouched \/ AddressInv, [Door!Next]_Door!vars
               PROVE  DoorTyped' /\ (Vouched \/ AddressInv)'
    OBVIOUS
  <2>1. DoorTyped'
    BY DoorStaysTyped
  <2>2. CASE ~Vouched
    BY <2>1, <2>2, AddressStays
  <2>3. CASE Vouched
    <3>1. UNCHANGED door
      BY SameDoor
    <3> QED
      BY <2>1, <2>3, <3>1
  <2> QED
    BY <2>2, <2>3
<1>3. Vouched \/ AddressInv => VerifiedAddressIsProved
  BY DEF VerifiedAddressIsProved, Door!VerifiedAddressIsProved, AddressInv
<1> QED
  BY <1>1, <1>2, <1>3, PTL DEF Door!Spec

=============================================================================
