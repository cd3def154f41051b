--------------------------- MODULE BracketShape ---------------------------
(***************************************************************************)
(* The shape of an elimination bracket: how large it is, which seed sits   *)
(* in which first-round slot, and which match feeds which.                 *)
(*                                                                         *)
(* A match is named <<round, index>> as the code names it: winners rounds  *)
(* are 1..k, losers rounds 101..100+2k-2, the grand final is round 200 and *)
(* its reset round 201; the index is Match.matchIndex, counted from 0.     *)
(***************************************************************************)
EXTENDS Integers, Sequences

Nowhere == <<0, 0>>

(* formats.service.ts nextPowerOfTwo: the least power of two >= n, given   *)
(* as its exponent k.                                                      *)
Exponent(n) == CHOOSE k \in 0..n : 2^k >= n /\ \A j \in 0..k-1 : 2^j < n

(* Mutant of Doubled: the order of the ranks, undisturbed.                 *)
DoubledByRank(order) == [i \in 1..2*Len(order) |-> i]

(* bracket-seeding.helper.ts: one pass of standardSeedOrder's loop.  Every *)
(* seed is followed by its complement in the order of twice the length.    *)
Doubled(order) ==
    [i \in 1..2*Len(order) |->
        IF i % 2 = 1 THEN order[(i + 1) \div 2]
                     ELSE 2*Len(order) + 1 - order[i \div 2]]

(* standardSeedOrder(2^k), as a function of k.                             *)
SeedOrder[k \in Nat] == IF k = 0 THEN <<1>> ELSE Doubled(SeedOrder[k-1])

(* Mutants of Slots: the last entrant is left out; nobody is.              *)
SlotsShort(order, n) == [i \in 1..Len(order) |-> IF order[i] < n THEN order[i] ELSE 0]
SlotsUnpruned(order, n) == order

(* seedBracketSlots: the seed in each slot, 0 where the field has run out. *)
Slots(order, n) == [i \in 1..Len(order) |-> IF order[i] <= n THEN order[i] ELSE 0]

---------------------------------------------------------------------------
(* Round one of generateBracket: adjacent slots meet.                      *)
FirstRound(k) == {<<1, j>> : j \in 0..2^(k-1)-1}

EntrantsOf(n) ==
    LET k     == Exponent(n)
        seats == Slots(SeedOrder[k], n)
    IN  [m \in FirstRound(k) |-> <<seats[2*m[2] + 1], seats[2*m[2] + 2]>>]

WinnersMatches(k) == UNION {{<<i, j>> : j \in 0..2^(k-i)-1} : i \in 1..k}

(* initDoubleElimination: 2^(k-1-ceil(r/2)) matches in losers round r.     *)
LosersSize(k, r)  == 2^(k - 1 - ((r + 1) \div 2))
LosersRound(k, r) == {<<100 + r, j>> : j \in 0..LosersSize(k, r)-1}
LosersMatches(k)  == UNION {LosersRound(k, r) : r \in 1..2*k-2}

GrandFinalMatch == <<200, 0>>
ResetMatch == <<201, 0>>

SingleMatches(k) == WinnersMatches(k)
DoubleMatches(k) == WinnersMatches(k) \cup LosersMatches(k)
                        \cup {GrandFinalMatch, ResetMatch}

(* linkMatches(ids, next, oneToOne): match j feeds match j of a round of   *)
(* the same size, otherwise match floor(j/2).                              *)
LinkedTo(m, round, oneToOne) == <<round, IF oneToOne THEN m[2] ELSE m[2] \div 2>>

SingleNext(k) ==
    [m \in SingleMatches(k) |->
        IF m[1] < k THEN LinkedTo(m, m[1] + 1, FALSE) ELSE Nowhere]

(* nextMatchId in double elimination.  Losers rounds of equal size are     *)
(* linked one to one: in the second the winners bracket's losers drop in.  *)
DoubleNext(k) ==
    [m \in DoubleMatches(k) |->
        CASE m[1] < k                          -> LinkedTo(m, m[1] + 1, FALSE)
          [] m[1] = k                          -> GrandFinalMatch
          [] m[1] > 100 /\ m[1] < 100 + 2*k-2  ->
                LinkedTo(m, m[1] + 1,
                         LosersSize(k, m[1] - 100) = LosersSize(k, m[1] - 99))
          [] m[1] = 100 + 2*k-2                -> GrandFinalMatch
          [] OTHER                             -> Nowhere]

(* loserNextMatchId.  With two players there is no losers bracket and the  *)
(* loser of the only winners match goes straight into the grand final.     *)
DoubleLoserNext(k) ==
    [m \in DoubleMatches(k) |->
        CASE m[1] = k /\ k = 1          -> GrandFinalMatch
          [] m[1] = k /\ k > 1          -> <<100 + 2*k-2, 0>>
          [] m[1] = 1 /\ k > 1          -> LinkedTo(m, 101, FALSE)
          [] m[1] \in 2..k-1            -> LinkedTo(m, 100 + 2*m[1]-2, TRUE)
          [] OTHER                      -> Nowhere]
===========================================================================
