---------------------------- MODULE BracketDraw ----------------------------
(***************************************************************************)
(* The loops that draw an elimination bracket for a field of n players:    *)
(* nextPowerOfTwo sizes it, standardSeedOrder orders the seeds by repeated *)
(* doubling, seedBracketSlots seats the field and generateBracket folds    *)
(* the slots into rounds.  One action per loop iteration.                  *)
(***************************************************************************)
EXTENDS BracketShape

CONSTANTS MaxField      \* bound on the number of entrants

VARIABLES
    n,          \* entrants, best seed first: seed s is player s
    power,      \* nextPowerOfTwo's accumulator, then the bracket size
    order,      \* standardSeedOrder's accumulator
    current,    \* generateBracket's current line of slots; 0 is a null slot
    rounds,     \* the rounds folded so far, each a sequence of pairs
    pc          \* which loop is running

vars == <<n, power, order, current, rounds, pc>>

Alive == -1     \* generateBracket's 'ALIVE': somebody will come out of here

TypeOK ==
    /\ n \in 2..MaxField
    /\ power \in Nat \ {0}
    /\ order \in Seq(Nat)
    /\ current \in Seq(Alive..n)
    /\ rounds \in Seq(Seq((Alive..n) \X (Alive..n)))
    /\ pc \in {"size", "order", "seat", "fold", "done"}

Init ==
    /\ n \in 2..MaxField
    /\ power = 1
    /\ order = <<1>>
    /\ current = <<>>
    /\ rounds = <<>>
    /\ pc = "size"

(* Mutant of GrowPower: a field that fills its bracket gets the next size. *)
GrowPowerTooFar ==
    /\ pc = "size"
    /\ IF power <= n THEN power' = 2 * power /\ pc' = pc
                     ELSE power' = power     /\ pc' = "order"
    /\ UNCHANGED <<n, order, current, rounds>>

GrowPower ==
    /\ pc = "size"
    /\ IF power < n THEN power' = 2 * power /\ pc' = pc
                    ELSE power' = power     /\ pc' = "order"
    /\ UNCHANGED <<n, order, current, rounds>>

DoubleOrder ==
    /\ pc = "order"
    /\ IF Len(order) < power THEN order' = Doubled(order) /\ pc' = pc
                             ELSE order' = order          /\ pc' = "seat"
    /\ UNCHANGED <<n, power, current, rounds>>

Seat ==
    /\ pc = "seat"
    /\ current' = Slots(order, n)
    /\ pc' = "fold"
    /\ UNCHANGED <<n, power, order, rounds>>

Pairs(line) ==
    [i \in 1..((Len(line) + 1) \div 2) |->
        <<line[2*i - 1], IF 2*i <= Len(line) THEN line[2*i] ELSE 0>>]

FoldRound ==
    /\ pc = "fold"
    /\ IF Len(current) > 1
       THEN /\ rounds' = Append(rounds, Pairs(current))
            /\ current' = [i \in 1..Len(Pairs(current)) |->
                              IF Pairs(current)[i] # <<0, 0>> THEN Alive ELSE 0]
            /\ pc' = pc
       ELSE UNCHANGED <<rounds, current>> /\ pc' = "done"
    /\ UNCHANGED <<n, power, order>>

Next == GrowPower \/ DoubleOrder \/ Seat \/ FoldRound

Spec == Init /\ [][Next]_vars

---------------------------------------------------------------------------
(* No phantom match: no two adjacent slots are both empty, in any round.   *)
(* (bracket-seeding.helper.ts 32-35: "structurally impossible".)           *)
NoPhantomMatch ==
    \A r \in 1..Len(rounds) : \A i \in 1..Len(rounds[r]) :
        rounds[r][i] # <<0, 0>>

(* Every entrant is seated exactly once in round one, which is what        *)
(* startTournament's isFirstRoundComplete relies on, and only the top      *)
(* power - n seeds are given a bye.                                        *)
FirstRoundSeatsTheField ==
    rounds # <<>> =>
        /\ \A s \in 1..n :
              \E i \in 1..Len(rounds[1]), c \in {1, 2} :
                 /\ rounds[1][i][c] = s
                 /\ \A j \in 1..Len(rounds[1]), d \in {1, 2} :
                       rounds[1][j][d] = s => <<j, d>> = <<i, c>>
                 /\ (rounds[1][i][3 - c] = 0) <=> (s <= power - n)

(* Seeds stay apart: the 2^j best seeds lie in 2^j different blocks of the *)
(* finished order, so two of them cannot meet before only 2^j are left.    *)
SeedsStayApart ==
    pc = "done" =>
        \A j \in 0..Exponent(n) :
            LET block(i) == (i - 1) \div (power \div 2^j)
            IN  \A a, b \in 1..power :
                    (a # b /\ order[a] <= 2^j /\ order[b] <= 2^j)
                        => block(a) # block(b)

(* What the loops build is what BracketShape defines, which the bracket    *)
(* models take their wiring from.                                          *)
DrawMatchesShape ==
    pc = "done" =>
        /\ power = 2^Exponent(n)
        /\ order = SeedOrder[Exponent(n)]
        /\ Len(rounds) = Exponent(n)
        /\ \A m \in FirstRound(Exponent(n)) :
              rounds[1][m[2] + 1] = EntrantsOf(n)[m]
        /\ \A m \in WinnersMatches(Exponent(n)) : m[2] + 1 \in 1..Len(rounds[m[1]])
===========================================================================
