-------------------------- MODULE EliminationProofs --------------------------
(***************************************************************************)
(* For every bracket that is wired as WiringAssumption says, any number of *)
(* requests interleaving, and any bounds: the type invariant, and that     *)
(* nobody ever sits in a match the draw does not lead to.  Where nothing   *)
(* reopens a match, a forfeit is followed through: no match is left        *)
(* waiting for a player who quit.  And for one request at a time: results  *)
(* that were recorded stand, the slots of a match hold what its feeders    *)
(* delivered, no match is left without anybody who can win it, and the     *)
(* champion has earned the title.                                          *)
(*                                                                         *)
(* SlotsWithinDraw is not inductive: a player is carried from one match to *)
(* the next by pending calls, and read from winnerId.  The strengthening   *)
(* says the same of both.  What the others need is stated with them.       *)
(***************************************************************************)
EXTENDS Elimination, FiniteSetTheorems, SequenceTheorems, WellFoundedInduction, TLAPS

(* The calls that keep their player inside the draw of their match.        *)
SafeCalls ==
    {c \in Calls :
        /\ c.op \notin {"List", "Forfeit"} =>
              /\ c.m \in Match
              /\ c.p \in Draw[c.m] \cup {NoPlayer}
        /\ c.op = "CreateDecider" =>
              c.m = Decider /\ c.q \in Draw[c.m] \cup {NoPlayer}
        /\ \A x \in c.todo : x[2] \in Draw[x[1]]}

WinnersWithinDraw == \A m \in Match : winner[m] \in Draw[m] \cup {NoPlayer}

SlotsSafe == \A m \in Match, i \in 1..2 : slots[m][i] \in Draw[m] \cup {NoPlayer}

IInv ==
    /\ TypeOK
    /\ SlotsSafe
    /\ WinnersWithinDraw
    /\ calls \in [Request -> Seq(SafeCalls)]

---------------------------------------------------------------------------
(* Pushing safe calls in place of the running one leaves safe stacks.      *)
LEMMA ReturnSafe ==
    ASSUME IInv, NEW r \in Request, NEW made \in Seq(SafeCalls),
           ~Idle(r), Return(r, made)
    PROVE  calls' \in [Request -> Seq(SafeCalls)]
<1>1. calls[r] \in Seq(SafeCalls) /\ calls[r] # <<>>
  BY DEF IInv, Idle
<1>2. Tail(calls[r]) \in Seq(SafeCalls)
  BY <1>1
<1>3. made \o Tail(calls[r]) \in Seq(SafeCalls)
  BY <1>2
<1>4. calls' = [calls EXCEPT ![r] = made \o Tail(calls[r])]
  BY DEF Return
<1> QED
  BY <1>3, <1>4 DEF IInv

(* The running call is safe.                                               *)
LEMMA TopSafe ==
    ASSUME IInv, NEW r \in Request, ~Idle(r)
    PROVE  Top(r) \in SafeCalls
<1>1. calls[r] \in Seq(SafeCalls) /\ calls[r] # <<>>
  BY DEF IInv, Idle
<1> QED
  BY <1>1 DEF Top

(* What Unless pushes is safe when the call it may push is.                *)
LEMMA UnlessSafe ==
    ASSUME NEW none, NEW c, ~none => c \in SafeCalls
    PROVE  Unless(none, c) \in Seq(SafeCalls)
<1>1. CASE none
  BY <1>1 DEF Unless
<1>2. CASE ~none
  <2>1. c \in SafeCalls
    BY <1>2
  <2>2. <<c>> \in Seq(SafeCalls)
    BY <2>1
  <2> QED
    BY <1>2, <2>2 DEF Unless
<1> QED
  BY <1>1, <1>2

(* A call on a match, about a player of its draw, is safe.                 *)
LEMMA CallSafe ==
    ASSUME NEW op \in Op \ {"List", "Forfeit", "CreateDecider"}, NEW m \in Match,
           NEW p \in Draw[m] \cup {NoPlayer}
    PROVE  Call(op, m, p) \in SafeCalls
<1>1. Draw[m] \subseteq Player
  BY WiringAssumption
<1>2. Call(op, m, p) \in Calls
  BY <1>1 DEF Call, Calls, Seat
<1> QED
  BY <1>2 DEF SafeCalls, Call

(* One seat of a match, seen from the other.                               *)
LEMMA OpponentSafe ==
    ASSUME IInv, NEW m \in Match, NEW p
    PROVE  Opponent(m, p) \in Draw[m] \cup {NoPlayer}
  BY DEF IInv, SlotsSafe, Opponent

(* A feeder delivers a player of the draw it leads to.                     *)
LEMMA DeliversSafe ==
    ASSUME IInv, NEW d \in Match, NEW f \in Feeders(d)
    PROVE  Delivers(f, d) \in Draw[d] \cup {NoPlayer}
<1>1. f \in Match /\ (Next[f] = d \/ LoserNext[f] = d)
  BY DEF Feeders
<1>2. Draw[f] \subseteq Draw[d]
  BY <1>1, WiringAssumption
<1>3. winner[f] \in Draw[f] \cup {NoPlayer}
  BY <1>1 DEF IInv, WinnersWithinDraw
<1>4. Opponent(f, winner[f]) \in Draw[f] \cup {NoPlayer}
  BY <1>1, OpponentSafe
<1> QED
  BY <1>2, <1>3, <1>4 DEF Delivers

---------------------------------------------------------------------------
(* A function on 1..n is a sequence of length n.                           *)
LEMMA SequenceOf ==
    ASSUME NEW S, NEW n \in Nat, NEW f \in [1..n -> S]
    PROVE  f \in Seq(S) /\ Len(f) = n
  BY SeqDef

(* The bracket as startTournament leaves it.                               *)
LEMMA InitSafe == Init => IInv
<1> SUFFICES ASSUME Init PROVE IInv
  OBVIOUS
<1> USE WiringAssumption
<1>1. slots \in [Match -> [1..2 -> Seat]] /\ SlotsSafe
  BY DEF Init, SlotsSafe, Seat, FirstRound
<1>2. TypeOK /\ calls \in [Request -> Seq(SafeCalls)]
  <2>1. PICK r \in Request, ms \in Orders({m \in FirstRound : HasBye(m)}) :
                calls = [s \in Request |-> IF s = r THEN ByeCalls(ms) ELSE <<>>]
    BY DEF Init
  <2> DEFINE Byes == {m \in FirstRound : HasBye(m)}
             N == Cardinality(Byes)
  <2>2. N \in Nat
    <3>1. Byes \subseteq Match
      OBVIOUS
    <3> QED
      BY <3>1, FS_Subset, FS_CardinalityType
  <2>3. ms \in [1..N -> Byes]
    BY DEF Orders
  <2>4. ms \in Seq(Byes) /\ Len(ms) = N
    <3> HIDE DEF N, Byes
    <3> QED
      BY <2>2, <2>3, SequenceOf
  <2>5. \A i \in 1..N : ByeCalls(ms)[i] \in SafeCalls
    <3> SUFFICES ASSUME NEW i \in 1..N PROVE ByeCalls(ms)[i] \in SafeCalls
      OBVIOUS
    <3>1. ms[i] \in FirstRound /\ ms[i] \in Match
      BY <2>3
    <3> DEFINE p == IF Entrants[ms[i]][1] # NoPlayer THEN Entrants[ms[i]][1]
                                                     ELSE Entrants[ms[i]][2]
    <3>2. p \in Draw[ms[i]] \cup {NoPlayer}
      BY <3>1
    <3>3. Call("Complete", ms[i], p) \in SafeCalls
      BY <3>1, <3>2, CallSafe DEF Op
    <3> QED
      BY <3>3, <2>4 DEF ByeCalls
  <2>6. calls \in [Request -> Seq(SafeCalls)]
    <3>1. ByeCalls(ms) \in Seq(SafeCalls)
      <4> HIDE DEF N, Byes
      <4>1. DOMAIN ByeCalls(ms) = 1..N
        BY <2>4 DEF ByeCalls
      <4>2. ByeCalls(ms) = [i \in 1..N |-> ByeCalls(ms)[i]]
        BY <2>4, <4>1 DEF ByeCalls
      <4>3. ByeCalls(ms) \in [1..N -> SafeCalls]
        BY <4>2, <2>5
      <4> QED
        BY <2>2, <4>3, SequenceOf
    <3>2. <<>> \in Seq(SafeCalls)
      OBVIOUS
    <3> QED
      BY <2>1, <3>1, <3>2
  <2>7. calls \in [Request -> Seq(Calls)]
    <3>1. SafeCalls \subseteq Calls
      BY DEF SafeCalls
    <3>2. Seq(SafeCalls) \subseteq Seq(Calls)
      BY <3>1
    <3> QED
      BY <2>6, <3>2
  <2>8. bye \in [Match -> BOOLEAN]
    BY DEF Init, HasBye
  <2>9. /\ status \in [Match -> {"ABSENT", "PENDING", "ONGOING", "COMPLETED"}]
        /\ winner \in [Match -> Seat]
        /\ started \in [Match -> BOOLEAN]
        /\ out \subseteq Player
        /\ over \in BOOLEAN
        /\ champion \in Seat
        /\ resets \in Nat
    BY DEF Init, Seat
  <2> QED
    BY <1>1, <2>6, <2>7, <2>8, <2>9 DEF TypeOK
<1>3. WinnersWithinDraw
  BY DEF Init, WinnersWithinDraw
<1> QED
  BY <1>1, <1>2, <1>3 DEF IInv
---------------------------------------------------------------------------
(* What a step must preserve besides the stacks.                           *)
RowsOK ==
    /\ status \in [Match -> {"ABSENT", "PENDING", "ONGOING", "COMPLETED"}]
    /\ slots \in [Match -> [1..2 -> Seat]]
    /\ winner \in [Match -> Seat]
    /\ bye \in [Match -> BOOLEAN]
    /\ started \in [Match -> BOOLEAN]
    /\ out \subseteq Player
    /\ over \in BOOLEAN
    /\ champion \in Seat
    /\ resets \in Nat
    /\ SlotsSafe
    /\ WinnersWithinDraw

(* What the invariant says of the rows.                                    *)
LEMMA RowsOfIInv == IInv => RowsOK
  BY DEF IInv, TypeOK, RowsOK

(* Safe rows and safe calls make the invariant.                            *)
LEMMA Reassemble ==
    ASSUME RowsOK', calls' \in [Request -> Seq(SafeCalls)]
    PROVE  IInv'
<1>1. SafeCalls \subseteq Calls
  BY DEF SafeCalls
<1>2. Seq(SafeCalls) \subseteq Seq(Calls)
  BY <1>1, SeqMonotonic
<1>3. calls' \in [Request -> Seq(Calls)]
  BY <1>2
<1> QED
  BY <1>3 DEF RowsOK, IInv, TypeOK

(* A step that only reads rows preserves what is said of them.             *)
LEMMA RowsUnchanged ==
    ASSUME IInv, UNCHANGED <<bracket, out, over, champion, resets>>
    PROVE  RowsOK'
  BY RowsOfIInv DEF RowsOK, bracket, SlotsSafe, WinnersWithinDraw

(* The fields of the running call of an operation other than a forfeit's.  *)
LEMMA TopFields ==
    ASSUME IInv, NEW r \in Request, ~Idle(r),
           Top(r).op \notin {"List", "Forfeit"}
    PROVE  /\ Top(r).m \in Match
           /\ Top(r).p \in Draw[Top(r).m] \cup {NoPlayer}
           /\ Draw[Top(r).m] \subseteq Player
  BY TopSafe, WiringAssumption DEF SafeCalls

(* Where a match leads, its players may go.                                *)
LEMMA AlongLinks ==
    ASSUME NEW m \in Match
    PROVE  /\ Next[m] # NoMatch => Next[m] \in Match /\ Draw[m] \subseteq Draw[Next[m]]
           /\ LoserNext[m] # NoMatch =>
                 LoserNext[m] \in Match /\ Draw[m] \subseteq Draw[LoserNext[m]]
  BY WiringAssumption

(* Settling what a match feeds is always a safe call.                      *)
LEMMA SettleSafe ==
    ASSUME NEW m \in Match
    PROVE  /\ Unless(Next[m] = NoMatch, Call("Settle", Next[m], NoPlayer))
                 \in Seq(SafeCalls)
           /\ Unless(LoserNext[m] = NoMatch, Call("Settle", LoserNext[m], NoPlayer))
                 \in Seq(SafeCalls)
<1>1. Next[m] # NoMatch => Call("Settle", Next[m], NoPlayer) \in SafeCalls
  BY AlongLinks, CallSafe DEF Op
<1>2. LoserNext[m] # NoMatch => Call("Settle", LoserNext[m], NoPlayer) \in SafeCalls
  BY AlongLinks, CallSafe DEF Op
<1> QED
  BY <1>1, <1>2, UnlessSafe

(* A completion records a player drawn into its match, or nobody.          *)
LEMMA CompleteSafe ==
    ASSUME IInv, NEW r \in Request, Complete(r)
    PROVE  IInv'
<1> DEFINE m == Top(r).m
           p == Top(r).p
<1>1. ~Idle(r) /\ Top(r).op \in {"Complete", "CompleteBye"}
  BY DEF Complete, Running
<1>2. m \in Match /\ p \in Draw[m] \cup {NoPlayer} /\ Draw[m] \subseteq Player
  BY <1>1, TopFields
<1>3. RowsOK'
  BY <1>2, RowsOfIInv DEF Complete, RowsOK, SlotsSafe, WinnersWithinDraw, Seat
<1> DEFINE made == IF p # NoPlayer THEN <<Call("Handle", m, NoPlayer)>>
                   ELSE Unless(Next[m] = NoMatch, Call("Settle", Next[m], NoPlayer))
                     \o Unless(LoserNext[m] = NoMatch,
                               Call("Settle", LoserNext[m], NoPlayer))
<1>4. made \in Seq(SafeCalls)
  <2>1. Call("Handle", m, NoPlayer) \in SafeCalls
    BY <1>2, CallSafe DEF Op
  <2>2. <<Call("Handle", m, NoPlayer)>> \in Seq(SafeCalls)
    BY <2>1
  <2> QED
    BY <1>2, <2>2, SettleSafe
<1>5. Return(r, made)
  BY DEF Complete
<1>6. calls' \in [Request -> Seq(SafeCalls)]
  BY <1>1, <1>4, <1>5, ReturnSafe
<1> QED
  BY <1>3, <1>6, Reassemble

(* What the handler of a completion calls stays within the draw.           *)
LEMMA HandleSafe ==
    ASSUME IInv, NEW r \in Request, Handle(r)
    PROVE  IInv'
<1> DEFINE m == Top(r).m
           w == winner[m]
           l == Opponent(m, w)
           win   == Unless(Next[m] = NoMatch \/ w = NoPlayer, Call("Advance", Next[m], w))
           lose  == Unless(LoserNext[m] = NoMatch \/ l = NoPlayer,
                           Call("Advance", LoserNext[m], l))
           below == Unless(Next[m] = NoMatch, Call("Settle", Next[m], NoPlayer))
           side  == Unless(LoserNext[m] = NoMatch, Call("Settle", LoserNext[m], NoPlayer))
           check == <<Call("Check", m, NoPlayer)>>
           made  == win \o (IF ~Double THEN <<>> ELSE lose \o below \o side) \o check
<1>1. ~Idle(r) /\ Top(r).op = "Handle"
  BY DEF Handle, Running
<1>2. m \in Match
  BY <1>1, TopFields
<1>3. w \in Draw[m] \cup {NoPlayer} /\ l \in Draw[m] \cup {NoPlayer}
  BY <1>2, OpponentSafe DEF IInv, WinnersWithinDraw
<1>4. win \in Seq(SafeCalls)
  <2>1. ~(Next[m] = NoMatch \/ w = NoPlayer) => Call("Advance", Next[m], w) \in SafeCalls
    BY <1>2, <1>3, AlongLinks, CallSafe DEF Op
  <2> QED
    BY <2>1, UnlessSafe
<1>5. lose \in Seq(SafeCalls)
  <2>1. ~(LoserNext[m] = NoMatch \/ l = NoPlayer)
           => Call("Advance", LoserNext[m], l) \in SafeCalls
    BY <1>2, <1>3, AlongLinks, CallSafe DEF Op
  <2> QED
    BY <2>1, UnlessSafe
<1>6. below \in Seq(SafeCalls) /\ side \in Seq(SafeCalls)
  BY <1>2, SettleSafe
<1>7. check \in Seq(SafeCalls)
  <2>1. Call("Check", m, NoPlayer) \in SafeCalls
    BY <1>2, CallSafe DEF Op
  <2> QED
    BY <2>1
<1>8. made \in Seq(SafeCalls)
  <2> HIDE DEF win, lose, below, side, check
  <2> QED
    BY <1>4, <1>5, <1>6, <1>7
<1>9. Return(r, made)
  BY DEF Handle
<1>10. calls' \in [Request -> Seq(SafeCalls)]
  BY <1>1, <1>8, <1>9, ReturnSafe
<1> QED
  BY <1>10, Reassemble, RowsUnchanged DEF Handle

(* A single safe call, pushed unless there is none to make.                *)
LEMMA NothingSafe == <<>> \in Seq(SafeCalls)
  OBVIOUS

(* So is one safe call.                                                    *)
LEMMA OneSafe ==
    ASSUME NEW c \in SafeCalls
    PROVE  <<c>> \in Seq(SafeCalls)
  OBVIOUS

(* A throw abandons the stack.                                             *)
LEMMA ThrowSafe ==
    ASSUME IInv, NEW r \in Request, Throw(r)
    PROVE  calls' \in [Request -> Seq(SafeCalls)]
  BY NothingSafe DEF IInv, Throw

(* advancePlayer picks a slot for a player who may go there.               *)
LEMMA AdvanceSafe ==
    ASSUME IInv, NEW r \in Request, Advance(r)
    PROVE  IInv'
<1> DEFINE d == Top(r).m
           p == Top(r).p
           op == IF slots[d][1] = NoPlayer THEN "Fill1" ELSE "Fill2"
<1>1. ~Idle(r) /\ Top(r).op = "Advance"
  BY DEF Advance, Running
<1>2. d \in Match /\ p \in Draw[d] \cup {NoPlayer}
  BY <1>1, TopFields
<1>3. <<Call(op, d, p)>> \in Seq(SafeCalls)
  <2>1. op \in Op \ {"List", "Forfeit", "CreateDecider"}
    BY DEF Op
  <2>2. Call(op, d, p) \in SafeCalls
    BY <1>2, <2>1, CallSafe
  <2> QED
    BY <2>2, OneSafe
<1>4. Return(r, <<>>) \/ Throw(r) \/ Return(r, <<Call(op, d, p)>>)
  BY DEF Advance
<1>5. calls' \in [Request -> Seq(SafeCalls)]
  BY <1>1, <1>3, <1>4, NothingSafe, ReturnSafe, ThrowSafe
<1> QED
  BY <1>5, Reassemble, RowsUnchanged DEF Advance

(* The slot is filled with a player of the draw.                           *)
LEMMA FillSafe ==
    ASSUME IInv, NEW r \in Request, Fill(r)
    PROVE  IInv'
<1> DEFINE d == Top(r).m
           p == Top(r).p
           now == [slots[d] EXCEPT ![IF Top(r).op = "Fill1" THEN 1 ELSE 2] = p]
           made == IF now[1] # NoPlayer /\ now[2] # NoPlayer
                   THEN <<Call("Resolve", d, NoPlayer)>>
                   ELSE Unless(~bye[d], Call("Complete", d, p))
<1>1. ~Idle(r) /\ Top(r).op \in {"Fill1", "Fill2"}
  BY DEF Fill, Running
<1>2. d \in Match /\ p \in Draw[d] \cup {NoPlayer} /\ Draw[d] \subseteq Player
  BY <1>1, TopFields
<1>3. RowsOK'
  <2>1. slots \in [Match -> [1..2 -> Seat]] /\ SlotsSafe
    BY DEF IInv, TypeOK
  <2>2. slots' = [slots EXCEPT ![d] = now]
    BY DEF Fill
  <2>3. now \in [1..2 -> Seat]
    BY <2>1, <1>2 DEF Seat
  <2>4. \A i \in 1..2 : now[i] \in Draw[d] \cup {NoPlayer}
    BY <2>1, <1>2 DEF SlotsSafe
  <2>5. (slots \in [Match -> [1..2 -> Seat]])'
    BY <2>1, <2>2, <2>3
  <2>6. SlotsSafe'
    <3> HIDE DEF now
    <3> QED
      BY <1>2, <2>1, <2>2, <2>4 DEF SlotsSafe
  <2> HIDE DEF now, d
  <2> QED
    BY <2>5, <2>6, RowsOfIInv DEF RowsOK, Fill, WinnersWithinDraw
<1>4. made \in Seq(SafeCalls)
  <2>1. Call("Resolve", d, NoPlayer) \in SafeCalls /\ Call("Complete", d, p) \in SafeCalls
    BY <1>2, CallSafe DEF Op
  <2>2. Unless(~bye[d], Call("Complete", d, p)) \in Seq(SafeCalls)
    BY <2>1, UnlessSafe
  <2> QED
    BY <2>1, <2>2, OneSafe
<1>5. Return(r, made)
  BY DEF Fill
<1>6. calls' \in [Request -> Seq(SafeCalls)]
  BY <1>1, <1>4, <1>5, ReturnSafe
<1> QED
  BY <1>3, <1>6, Reassemble

(* A walkover goes to the one of two present players who is not out.       *)
LEMMA ResolveSafe ==
    ASSUME IInv, NEW r \in Request, Resolve(r)
    PROVE  IInv'
<1> DEFINE m == Top(r).m
           lost(i) == slots[m][i] \in out
           none == Done(m) \/ ~Full(m) \/ (lost(1) <=> lost(2))
           c == Call("Walkover", m, slots[m][IF lost(1) THEN 2 ELSE 1])
<1>1. ~Idle(r) /\ Top(r).op = "Resolve"
  BY DEF Resolve, Running
<1>2. m \in Match
  BY <1>1, TopFields
<1>3. c \in SafeCalls
  <2>1. slots[m][IF lost(1) THEN 2 ELSE 1] \in Draw[m] \cup {NoPlayer}
    BY <1>2 DEF IInv, SlotsSafe
  <2> QED
    BY <1>2, <2>1, CallSafe DEF Op
<1>4. Unless(none, c) \in Seq(SafeCalls)
  BY <1>3, UnlessSafe
<1>5. Return(r, Unless(none, c))
  BY DEF Resolve
<1>6. calls' \in [Request -> Seq(SafeCalls)]
  BY <1>1, <1>4, <1>5, ReturnSafe
<1> QED
  BY <1>6, Reassemble, RowsUnchanged DEF Resolve

(* A walkover completes its match with the player it was given to.         *)
LEMMA WalkoverSafe ==
    ASSUME IInv, NEW r \in Request, Walkover(r)
    PROVE  IInv'
<1> DEFINE c == Call("Complete", Top(r).m, Top(r).p)
<1>1. ~Idle(r) /\ Top(r).op = "Walkover"
  BY DEF Walkover, Running
<1>2. c \in SafeCalls
  BY <1>1, TopFields, CallSafe DEF Op
<1>3. Unless(Done(Top(r).m), c) \in Seq(SafeCalls)
  BY <1>2, UnlessSafe
<1>4. Return(r, Unless(Done(Top(r).m), c))
  BY DEF Walkover
<1>5. calls' \in [Request -> Seq(SafeCalls)]
  BY <1>1, <1>3, <1>4, ReturnSafe
<1> QED
  BY <1>5, Reassemble, RowsUnchanged DEF Walkover

(* A match that cannot fill up is completed by the player it has.          *)
LEMMA SettleStepSafe ==
    ASSUME IInv, NEW r \in Request, Settle(r)
    PROVE  IInv'
<1> DEFINE m == Top(r).m
           none == Done(m) \/ Full(m) \/ Feeders(m) = {}
                      \/ \E f \in Feeders(m) : ~Done(f)
           c == Call("CompleteBye", m,
                     IF slots[m][1] # NoPlayer THEN slots[m][1] ELSE slots[m][2])
<1>1. ~Idle(r) /\ Top(r).op = "Settle"
  BY DEF Settle, Running
<1>2. m \in Match
  BY <1>1, TopFields
<1>3. c \in SafeCalls
  <2>1. (IF slots[m][1] # NoPlayer THEN slots[m][1] ELSE slots[m][2])
           \in Draw[m] \cup {NoPlayer}
    BY <1>2 DEF IInv, SlotsSafe
  <2> QED
    BY <1>2, <2>1, CallSafe DEF Op
<1>4. Unless(none, c) \in Seq(SafeCalls)
  BY <1>3, UnlessSafe
<1>5. Return(r, Unless(none, c))
  BY DEF Settle
<1>6. calls' \in [Request -> Seq(SafeCalls)]
  BY <1>1, <1>4, <1>5, ReturnSafe
<1> QED
  BY <1>6, Reassemble, RowsUnchanged DEF Settle

(* Whatever the verdict on a result, the call it leads to is safe.         *)
LEMMA VerdictSafe ==
    ASSUME IInv, NEW m \in Match
    PROVE  Verdict(m) \in Seq(SafeCalls)
<1> DEFINE crown(d) == Unless(~Done(d) \/ winner[d] = NoPlayer,
                              Call("Crown", d, winner[d]))
           decide == [Call("CreateDecider", Decider, slots[GrandFinal][1])
                          EXCEPT !.q = slots[GrandFinal][2]]
<1>1. \A d \in Match : crown(d) \in Seq(SafeCalls)
  <2> SUFFICES ASSUME NEW d \in Match PROVE crown(d) \in Seq(SafeCalls)
    OBVIOUS
  <2>1. Call("Crown", d, winner[d]) \in SafeCalls
    BY CallSafe DEF IInv, WinnersWithinDraw, Op
  <2> QED
    BY <2>1, UnlessSafe
<1>2. Double => <<decide>> \in Seq(SafeCalls)
  <2> SUFFICES ASSUME Double PROVE decide \in SafeCalls
    BY OneSafe
  <2>1. GrandFinal \in Match /\ Decider \in Match
            /\ Draw[GrandFinal] \subseteq Draw[Decider] /\ Draw[Decider] \subseteq Player
    BY WiringAssumption
  <2>2. \A i \in 1..2 : slots[GrandFinal][i] \in Draw[Decider] \cup {NoPlayer}
    BY <2>1 DEF IInv, SlotsSafe
  <2>3. decide = [op |-> "CreateDecider", m |-> Decider, p |-> slots[GrandFinal][1],
                  q |-> slots[GrandFinal][2], todo |-> {}]
    BY DEF Call
  <2>4. decide \in Calls
    BY <2>1, <2>2, <2>3 DEF Calls, Op, Seat
  <2> QED
    BY <2>1, <2>2, <2>3, <2>4 DEF SafeCalls
<1> HIDE DEF crown, decide
<1>3. Double => GrandFinal \in Match /\ Decider \in Match
  BY WiringAssumption
<1>4. CASE ~Double
  <2>1. Verdict(m) = crown(m) \/ Verdict(m) = <<>>
    BY <1>4 DEF Verdict, crown
  <2> QED
    BY <2>1, <1>1, NothingSafe
<1>5. CASE Double
  <2>1. \/ Verdict(m) = <<>> \/ Verdict(m) = crown(Decider)
        \/ Verdict(m) = <<decide>> \/ Verdict(m) = crown(GrandFinal)
    BY <1>5 DEF Verdict, crown, decide
  <2> QED
    BY <2>1, <1>1, <1>2, <1>3, <1>5, NothingSafe
<1> QED
  BY <1>4, <1>5

(* The check for the end of the bracket calls only what is safe.           *)
LEMMA CheckSafe ==
    ASSUME IInv, NEW r \in Request, Check(r)
    PROVE  IInv'
<1>1. ~Idle(r) /\ Top(r).op = "Check"
  BY DEF Check, Running
<1>2. Verdict(Top(r).m) \in Seq(SafeCalls)
  BY <1>1, TopFields, VerdictSafe
<1>3. Return(r, Verdict(Top(r).m))
  BY DEF Check
<1>4. calls' \in [Request -> Seq(SafeCalls)]
  BY <1>1, <1>2, <1>3, ReturnSafe
<1> QED
  BY <1>4, Reassemble, RowsUnchanged DEF Check

(* The deciding match is played by the two of the grand final.             *)
LEMMA CreateDeciderSafe ==
    ASSUME IInv, NEW r \in Request, CreateDecider(r)
    PROVE  IInv'
<1>1. ~Idle(r) /\ Top(r).op = "CreateDecider"
  BY DEF CreateDecider, Running
<1>2. Top(r) \in SafeCalls
  BY <1>1, TopSafe
<1>3. calls' \in [Request -> Seq(SafeCalls)]
  BY <1>1, NothingSafe, ReturnSafe, ThrowSafe DEF CreateDecider
<1>4. CASE status[Decider] # "ABSENT"
  BY <1>3, <1>4, Reassemble, RowsUnchanged DEF CreateDecider, bracket
<1>5. CASE status[Decider] = "ABSENT"
  <2> DEFINE p == Top(r).p
             q == Top(r).q
  <2>1. /\ status' = [status EXCEPT ![Decider] = "PENDING"]
        /\ slots' = [slots EXCEPT ![Decider] = <<p, q>>]
        /\ UNCHANGED <<winner, bye, started, out, over, champion, resets>>
    BY <1>5 DEF CreateDecider
  <2>2. p \in Seat /\ q \in Seat
    BY <1>2 DEF SafeCalls, Calls
  <2>3. p \in Draw[Top(r).m] \cup {NoPlayer} /\ q \in Draw[Top(r).m] \cup {NoPlayer}
    BY <1>1, <1>2 DEF SafeCalls
  <2>4. Top(r).m = Decider /\ Decider \in Match
    BY <1>1, <1>2 DEF SafeCalls
  <2>5. slots \in [Match -> [1..2 -> Seat]] /\ SlotsSafe /\ Decider \in Match
    BY <2>4 DEF IInv, TypeOK
  <2> HIDE DEF p, q
  <2>6. <<p, q>> \in [1..2 -> Seat]
    BY <2>2
  <2>7. (slots \in [Match -> [1..2 -> Seat]])'
    BY <2>1, <2>5, <2>6
  <2>8. SlotsSafe'
    BY <2>1, <2>3, <2>4, <2>5 DEF SlotsSafe
  <2>9. RowsOK'
    BY <2>1, <2>7, <2>8, RowsOfIInv DEF RowsOK, WinnersWithinDraw
  <2> QED
    BY <1>3, <2>9, Reassemble
<1> QED
  BY <1>4, <1>5

(* The champion is a player, or nobody.                                    *)
LEMMA CrownSafe ==
    ASSUME IInv, NEW r \in Request, Crown(r)
    PROVE  IInv'
<1>1. ~Idle(r) /\ Top(r).op = "Crown"
  BY DEF Crown, Running
<1>2. Top(r).p \in Seat
  BY <1>1, TopSafe DEF SafeCalls, Calls
<1>3. RowsOK'
  BY <1>2, RowsOfIInv DEF Crown, bracket, RowsOK, SlotsSafe, WinnersWithinDraw
<1>4. calls' \in [Request -> Seq(SafeCalls)]
  BY <1>1, NothingSafe, ReturnSafe DEF Crown
<1> QED
  BY <1>3, <1>4, Reassemble

(* Starting a match moves nobody.                                          *)
LEMMA StartSafe ==
    ASSUME IInv, NEW r \in Request, Start(r)
    PROVE  IInv'
<1>1. ~Idle(r) /\ Top(r).op = "Start"
  BY DEF Start, Running
<1>2. RowsOK'
  BY RowsOfIInv DEF Start, RowsOK, SlotsSafe, WinnersWithinDraw
<1>3. calls' \in [Request -> Seq(SafeCalls)]
  BY <1>1, NothingSafe, ReturnSafe DEF Start
<1> QED
  BY <1>2, <1>3, Reassemble

(* The walkovers a forfeit will award stay within the draw.                *)
LEMMA ListSafe ==
    ASSUME IInv, NEW r \in Request, List(r)
    PROVE  IInv'
<1> DEFINE p == Top(r).p
           open == {m \in Match : status[m] \in {"PENDING", "ONGOING"}
                                    /\ p \in Present(m)}
           todo == {<<m, Opponent(m, p)>> :
                       m \in {o \in open : Opponent(o, p) # NoPlayer}}
           c == [Call("Forfeit", NoMatch, p) EXCEPT !.todo = todo]
<1>1. ~Idle(r) /\ Top(r).op = "List"
  BY DEF List, Running
<1>2. p \in Seat
  BY <1>1, TopSafe DEF SafeCalls, Calls
<1>3. \A x \in todo : x \in Match \X Player /\ x[2] \in Draw[x[1]]
  <2> SUFFICES ASSUME NEW m \in Match, Opponent(m, p) # NoPlayer
               PROVE  Opponent(m, p) \in Player /\ Opponent(m, p) \in Draw[m]
    OBVIOUS
  <2>1. Opponent(m, p) \in Draw[m] \cup {NoPlayer}
    BY OpponentSafe
  <2> QED
    BY <2>1, WiringAssumption
<1>4. c \in SafeCalls
  <2> HIDE DEF todo, p
  <2>1. c = [op |-> "Forfeit", m |-> NoMatch, p |-> p, q |-> NoPlayer, todo |-> todo]
    BY DEF Call
  <2>2. todo \in SUBSET (Match \X Player)
    BY <1>3
  <2>3. c \in Calls
    BY <1>2, <2>1, <2>2 DEF Calls, Op, Seat
  <2> QED
    BY <1>3, <2>1, <2>3 DEF SafeCalls
<1>5. Return(r, <<c>>)
  BY DEF List
<1>6. calls' \in [Request -> Seq(SafeCalls)]
  BY <1>1, <1>4, <1>5, OneSafe, ReturnSafe
<1> QED
  BY <1>6, Reassemble, RowsUnchanged DEF List

(* A forfeited match is given to that opponent.                            *)
LEMMA AwardSafe ==
    ASSUME IInv, NEW r \in Request, Award(r)
    PROVE  IInv'
<1>1. ~Idle(r) /\ Top(r).op = "Forfeit"
  BY DEF Award, Running
<1>2. Top(r) \in SafeCalls
  BY <1>1, TopSafe
<1>3. CASE Top(r).todo = {}
  <2>1. calls' \in [Request -> Seq(SafeCalls)]
    BY <1>1, <1>3, NothingSafe, ReturnSafe DEF Award
  <2> QED
    BY <2>1, Reassemble, RowsUnchanged DEF Award
<1>4. CASE Top(r).todo # {}
  <2>1. PICK x \in Top(r).todo :
          Return(r, <<Call("Walkover", x[1], x[2]), [Top(r) EXCEPT !.todo = @ \ {x}]>>)
    BY <1>4 DEF Award
  <2>2. Call("Walkover", x[1], x[2]) \in SafeCalls
    <3>1. x[1] \in Match /\ x[2] \in Draw[x[1]]
      BY <1>2 DEF SafeCalls, Calls
    <3> QED
      BY <3>1, CallSafe DEF Op
  <2>3. [Top(r) EXCEPT !.todo = @ \ {x}] \in SafeCalls
    BY <1>1, <1>2 DEF SafeCalls, Calls
  <2>4. <<Call("Walkover", x[1], x[2]), [Top(r) EXCEPT !.todo = @ \ {x}]>>
           \in Seq(SafeCalls)
    BY <2>2, <2>3
  <2>5. calls' \in [Request -> Seq(SafeCalls)]
    BY <1>1, <2>1, <2>4, ReturnSafe
  <2> QED
    BY <2>5, Reassemble, RowsUnchanged DEF Award
<1> QED
  BY <1>3, <1>4

---------------------------------------------------------------------------
(* A request begins with one call on its stack.                            *)
LEMMA BeginSafe ==
    ASSUME IInv, NEW r \in Request, NEW c \in SafeCalls, Begin(r, c)
    PROVE  calls' \in [Request -> Seq(SafeCalls)]
  BY OneSafe DEF Begin, IInv

(* A result names a player of its match.                                   *)
LEMMA SubmitResultSafe ==
    ASSUME IInv, NEW r \in Request, NEW m \in Match, NEW w \in Player,
           SubmitResult(r, m, w)
    PROVE  IInv'
<1>1. w \in Draw[m]
  <2>1. w = slots[m][1] \/ w = slots[m][2]
    BY DEF SubmitResult, Present
  <2> QED
    BY <2>1, WiringAssumption DEF IInv, SlotsSafe
<1>2. Call("Complete", m, w) \in SafeCalls
  BY <1>1, CallSafe DEF Op
<1>3. calls' \in [Request -> Seq(SafeCalls)]
  BY <1>2, BeginSafe DEF SubmitResult
<1> QED
  BY <1>3, Reassemble, RowsUnchanged DEF SubmitResult

(* The start of a match is a safe call.                                    *)
LEMMA StartMatchSafe ==
    ASSUME IInv, NEW r \in Request, NEW m \in Match, StartMatch(r, m)
    PROVE  IInv'
<1>1. Call("Start", m, NoPlayer) \in SafeCalls
  BY CallSafe DEF Op
<1>2. calls' \in [Request -> Seq(SafeCalls)]
  BY <1>1, BeginSafe DEF StartMatch
<1> QED
  BY <1>2, Reassemble, RowsUnchanged DEF StartMatch

(* So is the listing of a forfeit.                                         *)
LEMMA ForfeitParticipantSafe ==
    ASSUME IInv, NEW r \in Request, NEW p \in Player, ForfeitParticipant(r, p)
    PROVE  IInv'
<1>1. Call("List", NoMatch, p) \in SafeCalls
  BY DEF Call, SafeCalls, Calls, Op, Seat
<1>2. calls' \in [Request -> Seq(SafeCalls)]
  BY <1>1, BeginSafe DEF ForfeitParticipant
<1>3. RowsOK'
  BY RowsOfIInv DEF ForfeitParticipant, bracket, RowsOK, SlotsSafe, WinnersWithinDraw
<1> QED
  BY <1>2, <1>3, Reassemble

(* What a reset leaves in a destination came from the feeders still done.  *)
LEMMA ReseatedSafe ==
    ASSUME IInv, NEW d \in Match, NEW m, NEW s \in Reseated(d, m)
    PROVE  s \in [1..2 -> Seat] /\ \A i \in 1..2 : s[i] \in Draw[d] \cup {NoPlayer}
<1> DEFINE given == {Delivers(f, d) : f \in Feeders(d) \ {m}} \ {NoPlayer}
<1>1. given \subseteq Draw[d]
  BY DeliversSafe
<1>2. s \in [1..2 -> given \cup {NoPlayer}]
  BY DEF Reseated
<1> QED
  BY <1>1, <1>2, WiringAssumption DEF Seat

(* A reset leaves only players of the draw in the slots it clears.         *)
LEMMA ResetSafe ==
    ASSUME IInv, NEW r \in Request, NEW m \in Match, Reset(r, m)
    PROVE  IInv'
<1>1. PICK new : /\ \A d \in Destinations(m) : new[d] \in Reseated(d, m)
                 /\ slots' = [d \in Match |-> IF d \in Destinations(m) THEN new[d]
                                                                      ELSE slots[d]]
  BY DEF Reset
<1>2. \A d \in Match : /\ slots'[d] \in [1..2 -> Seat]
                       /\ \A i \in 1..2 : slots'[d][i] \in Draw[d] \cup {NoPlayer}
  <2> SUFFICES ASSUME NEW d \in Match
               PROVE  /\ slots'[d] \in [1..2 -> Seat]
                      /\ \A i \in 1..2 : slots'[d][i] \in Draw[d] \cup {NoPlayer}
    OBVIOUS
  <2>1. CASE d \in Destinations(m)
    BY <1>1, <2>1, ReseatedSafe
  <2>2. CASE d \notin Destinations(m)
    BY <1>1, <2>2 DEF IInv, TypeOK, SlotsSafe
  <2> QED
    BY <2>1, <2>2
<1>3. (slots \in [Match -> [1..2 -> Seat]])' /\ SlotsSafe'
  BY <1>1, <1>2 DEF SlotsSafe
<1>4. /\ status' = [status EXCEPT ![m] = "ONGOING"]
      /\ winner' = [winner EXCEPT ![m] = NoPlayer]
      /\ over' = FALSE
      /\ champion' = IF over THEN NoPlayer ELSE champion
      /\ resets' = resets + 1
      /\ UNCHANGED <<bye, started, out, calls>>
  BY DEF Reset
<1>5. RowsOK'
  <2>1. RowsOK
    BY RowsOfIInv
  <2>2. /\ (status \in [Match -> {"ABSENT", "PENDING", "ONGOING", "COMPLETED"}])'
        /\ (winner \in [Match -> Seat])'
        /\ (champion \in Seat)'
        /\ (resets \in Nat)'
    BY <1>4, <2>1 DEF RowsOK, Seat
  <2>3. WinnersWithinDraw'
    BY <1>4, <2>1 DEF RowsOK, WinnersWithinDraw
  <2> QED
    BY <1>3, <1>4, <2>1, <2>2, <2>3 DEF RowsOK
<1>6. calls' \in [Request -> Seq(SafeCalls)]
  BY <1>4 DEF IInv
<1> QED
  BY <1>5, <1>6, Reassemble

---------------------------------------------------------------------------
(* One call of a running request.                                          *)
LEMMA StepSafe ==
    ASSUME IInv, NEW r \in Request, Step(r)
    PROVE  IInv'
  BY CompleteSafe, HandleSafe, AdvanceSafe, FillSafe, ResolveSafe, WalkoverSafe,
     SettleStepSafe, CheckSafe, CreateDeciderSafe, CrownSafe, StartSafe, ListSafe,
     AwardSafe DEF Step

(* Every step of the system does.                                          *)
LEMMA NextSafe == IInv /\ [NextStep]_vars => IInv'
<1> SUFFICES ASSUME IInv, [NextStep]_vars PROVE IInv'
  OBVIOUS
<1>1. CASE \E r \in Request : Step(r)
  BY <1>1, StepSafe
<1>2. CASE \E r \in Request, m \in Match, w \in Player : SubmitResult(r, m, w)
  BY <1>2, SubmitResultSafe
<1>3. CASE \E r \in Request, m \in Match : StartMatch(r, m)
  BY <1>3, StartMatchSafe
<1>4. CASE \E r \in Request, p \in Player : ForfeitParticipant(r, p)
  BY <1>4, ForfeitParticipantSafe
<1>5. CASE \E r \in Request, m \in Match : Reset(r, m)
  BY <1>5, ResetSafe
<1>6. CASE UNCHANGED vars
  BY <1>6, Reassemble, RowsUnchanged DEF vars, bracket, IInv
<1> QED
  BY <1>1, <1>2, <1>3, <1>4, <1>5, <1>6 DEF NextStep

(* Every bracket keeps its types, however its requests interleave.         *)
THEOREM TypeCorrect == Spec => []TypeOK
<1>1. IInv => TypeOK
  BY DEF IInv
<1> QED
  BY <1>1, InitSafe, NextSafe, PTL DEF Spec

(* Nobody ever sits in a match that the draw does not lead to: no slot is  *)
(* filled from outside the sub-bracket below it.                           *)
THEOREM NobodyStrays == Spec => []SlotsWithinDraw
<1>1. IInv => SlotsWithinDraw
  <2> SUFFICES ASSUME IInv, NEW m \in Match PROVE Present(m) \subseteq Draw[m]
    BY DEF SlotsWithinDraw
  <2>1. \A i \in 1..2 : slots[m][i] \in Draw[m] \cup {NoPlayer}
    BY DEF IInv, SlotsSafe
  <2> QED
    BY <2>1 DEF Present
<1> QED
  BY <1>1, InitSafe, NextSafe, PTL DEF Spec

---------------------------------------------------------------------------
(* Forfeits in single elimination.                                         *)
(*                                                                         *)
(* A forfeit writes the participant's status and then lists the matches;   *)
(* a slot is written and then the statuses are read.  Whichever is later   *)
(* sees the other, so an unfair match is always being pursued by somebody. *)
(* The pursuit must not be lost when a stack is thrown away: this is why a *)
(* player may have one open match only.  He has, because whoever is in a   *)
(* match, or on the way to it, has finished every match below it.          *)

(* One-way traffic: nothing completed is ever reopened.                    *)
OneWay == ~Double /\ MaxResets = 0 /\ MaxStarts = 0

(* Who may be in match m: the drawn who have finished all that lies below. *)
Line(m) ==
    {p \in Draw[m] : \A f \in Match : Below(f, m) /\ p \in Draw[f] => Done(f)}
        \cup {NoPlayer}

GoodCalls ==
    {c \in SafeCalls :
        /\ c.op \notin {"Start", "CreateDecider"}
        /\ c.op = "Handle" => Done(c.m)
        /\ c.op \notin {"List", "Forfeit"} => c.p \in Line(c.m)
        /\ \A x \in c.todo : x[2] \in Line(x[1])
        /\ \A x, y \in c.todo : x = y}

InLine ==
    /\ \A m \in Match, i \in 1..2 : slots[m][i] \in Line(m)
    /\ \A m \in Match : winner[m] \in Line(m)

(* An open match of which one player has forfeited and the other has not.  *)
Unfair(m) ==
    /\ status[m] \in {"PENDING", "ONGOING"} /\ Full(m)
    /\ ~(slots[m][1] \in out <=> slots[m][2] \in out)

(* Somebody is about to look at it.                                        *)
Pursues(r, m) ==
    /\ ~Idle(r)
    /\ \/ /\ Top(r).op \in {"Resolve", "Walkover", "Complete", "CompleteBye"}
          /\ Top(r).m = m
       \/ Top(r).op = "List" /\ Top(r).p \in Present(m)
       \/ Top(r).op = "Forfeit" /\ \E x \in Top(r).todo : x[1] = m

Pursued == \A m \in Match : Unfair(m) => \E r \in Request : Pursues(r, m)

FInv ==
    /\ IInv
    /\ InLine
    /\ calls \in [Request -> Seq(GoodCalls)]
    /\ Pursued

(* What is done stays done in this step.                                   *)
DoneStays == \A m \in Match : Done(m) => Done(m)'

(* More and more people may be in a match.                                 *)
LEMMA LinesGrow ==
    ASSUME DoneStays
    PROVE  /\ \A m : Line(m) \subseteq Line(m)'
           /\ GoodCalls \subseteq GoodCalls'
<1>1. \A m : Line(m) \subseteq Line(m)'
  BY DEF Line, DoneStays
<1>2. ASSUME NEW c \in GoodCalls PROVE c \in GoodCalls'
  <2>1. c \in SafeCalls /\ (c.op = "Handle" => c.m \in Match)
    BY DEF GoodCalls, SafeCalls
  <2>2. c.op = "Handle" => Done(c.m)'
    BY <2>1 DEF GoodCalls, DoneStays
  <2> QED
    BY <1>1, <2>1, <2>2 DEF GoodCalls
<1> QED
  BY <1>1, <1>2

(* Nobody is in two open matches.                                          *)
LEMMA OneOpenMatch ==
    ASSUME OneWay, InLine, NEW m \in Match, NEW d \in Match, ~Done(m), ~Done(d),
           NEW p \in Present(m), p \in Present(d)
    PROVE  m = d
<1>1. p \in Line(m) /\ p \in Line(d) /\ p # NoPlayer
  BY DEF InLine, Present
<1>2. p \in Draw[m] /\ p \in Draw[d]
  BY <1>1 DEF Line
<1>3. m = d \/ Below(m, d) \/ Below(d, m)
  BY <1>2, WiringAssumption DEF OneWay, Apart
<1> QED
  BY <1>1, <1>2, <1>3 DEF Line

(* Whoever has finished a match may be in the next.                        *)
LEMMA NextInLine ==
    ASSUME OneWay, NEW m \in Match, Next[m] # NoMatch, Done(m), NEW p \in Line(m)
    PROVE  p \in Line(Next[m])
<1>1. CASE p = NoPlayer
  BY <1>1 DEF Line
<1>2. CASE p # NoPlayer
  <2>1. p \in Draw[m] /\ p \in Draw[Next[m]]
    BY <1>2, WiringAssumption DEF Line
  <2>2. \A f \in Match : Below(f, Next[m]) /\ p \in Draw[f] => Done(f)
    <3> SUFFICES ASSUME NEW f \in Match, Below(f, Next[m]), p \in Draw[f]
                 PROVE  Done(f)
      OBVIOUS
    <3>1. f = m \/ Below(f, m)
      BY <2>1, WiringAssumption DEF OneWay, Apart
    <3> QED
      BY <1>2, <3>1 DEF Line
  <2> QED
    BY <2>1, <2>2 DEF Line
<1> QED
  BY <1>1, <1>2

(* Calls that are good.                                                    *)
LEMMA CallGood ==
    ASSUME NEW m \in Match, NEW p \in Line(m),
           NEW op \in Op \ {"List", "Forfeit", "CreateDecider", "Start", "Handle"}
    PROVE  Call(op, m, p) \in GoodCalls
<1>1. p \in Draw[m] \cup {NoPlayer}
  BY DEF Line
<1>2. Call(op, m, p) \in SafeCalls
  BY <1>1, CallSafe
<1> QED
  BY <1>2 DEF GoodCalls, Call

LEMMA NobodyInLine == \A m : NoPlayer \in Line(m)
  BY DEF Line

(* Nothing, or one good call.                                              *)
LEMMA UnlessGood ==
    ASSUME NEW none, NEW c, ~none => c \in GoodCalls
    PROVE  Unless(none, c) \in Seq(GoodCalls)
<1>1. CASE none
  BY <1>1 DEF Unless
<1>2. CASE ~none
  <2>1. <<c>> \in Seq(GoodCalls)
    BY <1>2
  <2> QED
    BY <1>2, <2>1 DEF Unless
<1> QED
  BY <1>1, <1>2

(* The running call is good.                                               *)
LEMMA TopGood ==
    ASSUME FInv, NEW r \in Request, ~Idle(r)
    PROVE  /\ Top(r) \in GoodCalls
           /\ Top(r).op \notin {"List", "Forfeit"} =>
                 Top(r).m \in Match /\ Top(r).p \in Line(Top(r).m)
<1>1. calls[r] \in Seq(GoodCalls) /\ calls[r] # <<>>
  BY DEF FInv, Idle
<1>2. Top(r) \in GoodCalls
  BY <1>1 DEF Top
<1> QED
  BY <1>2 DEF GoodCalls, SafeCalls

(* Pushing good calls leaves good stacks.                                  *)
LEMMA ReturnGood ==
    ASSUME FInv, DoneStays, NEW r \in Request, ~Idle(r),
           NEW made \in Seq(GoodCalls'), Return(r, made)
    PROVE  calls' \in [Request -> Seq(GoodCalls')]
<1>1. \A s \in Request : calls[s] \in Seq(GoodCalls)
  BY DEF FInv
<1>2. Seq(GoodCalls) \subseteq Seq(GoodCalls')
  BY LinesGrow, SeqMonotonic
<1>3. calls[r] \in Seq(GoodCalls') /\ calls[r] # <<>>
  BY <1>1, <1>2 DEF Idle
<1>4. made \o Tail(calls[r]) \in Seq(GoodCalls')
  BY <1>3
<1>5. calls' = [calls EXCEPT ![r] = made \o Tail(calls[r])]
  BY DEF Return
<1> QED
  BY <1>1, <1>2, <1>4, <1>5 DEF FInv

(* The first call made runs next.                                          *)
LEMMA TopMade ==
    ASSUME FInv, NEW r \in Request, ~Idle(r), NEW S, NEW c \in S, NEW made \in Seq(S),
           Len(made) > 0, made[1] = c, Return(r, made)
    PROVE  ~Idle(r)' /\ Top(r)' = c
<1>1. calls[r] \in Seq(GoodCalls) /\ calls[r] # <<>>
  BY DEF FInv, Idle
<1>2. calls'[r] = made \o Tail(calls[r])
  BY DEF FInv, Return
<1>3. Len(calls'[r]) > 0 /\ calls'[r][1] = c
  BY <1>1, <1>2
<1>4. calls'[r] # <<>> /\ Head(calls'[r]) = c
  BY <1>3
<1> QED
  BY <1>4 DEF Idle, Top

(* What the others pursue they go on pursuing.                             *)
LEMMA OthersPursue ==
    ASSUME NEW r \in Request, NEW s \in Request \ {r}, NEW m \in Match, Pursues(s, m),
           calls'[s] = calls[s], slots'[m] = slots[m]
    PROVE  Pursues(s, m)'
  BY DEF Pursues, Idle, Top, Present

(* A step that changes no match and no forfeit keeps the pursuit up when   *)
(* its own request does.                                                   *)
LEMMA StillPursued ==
    ASSUME FInv, NEW r \in Request, UNCHANGED <<bracket, out>>,
           \A s \in Request \ {r} : calls'[s] = calls[s],
           \A m \in Match : Unfair(m) /\ Pursues(r, m) => Pursues(r, m)'
    PROVE  Pursued'
<1> SUFFICES ASSUME NEW m \in Match, Unfair(m)'
             PROVE  \E s \in Request : Pursues(s, m)'
  BY DEF Pursued
<1>1. Unfair(m) /\ slots'[m] = slots[m]
  BY DEF Unfair, Full, bracket
<1>2. PICK s \in Request : Pursues(s, m)
  BY <1>1 DEF FInv, Pursued
<1>3. CASE s = r
  BY <1>1, <1>2, <1>3
<1>4. CASE s # r
  BY <1>1, <1>2, <1>4, OthersPursue
<1> QED
  BY <1>3, <1>4

LEMMA OthersStand ==
    ASSUME FInv, NEW r \in Request, NEW made, Return(r, made) \/ Throw(r)
    PROVE  \A s \in Request \ {r} : calls'[s] = calls[s]
  BY DEF FInv, Return, Throw

(* Rows that do not change stay in line.                                   *)
LEMMA SameLines ==
    ASSUME FInv, UNCHANGED bracket
    PROVE  DoneStays /\ InLine' /\ GoodCalls' = GoodCalls
<1>1. DoneStays /\ (\A m : Line(m)' = Line(m))
  BY DEF bracket, DoneStays, Done, Line
<1>2. InLine'
  BY <1>1 DEF FInv, InLine, bracket
<1>3. GoodCalls' = GoodCalls
  BY <1>1 DEF GoodCalls, bracket, Done
<1> QED
  BY <1>1, <1>2, <1>3

(* A step that reads, makes good calls and keeps up its own pursuit.       *)
LEMMA ReadFair ==
    ASSUME FInv, IInv', NEW r \in Request, ~Idle(r), UNCHANGED <<bracket, out>>,
           NEW made \in Seq(GoodCalls), Return(r, made),
           \A m \in Match : Unfair(m) /\ Pursues(r, m) => Pursues(r, m)'
    PROVE  FInv'
<1>1. UNCHANGED bracket
  OBVIOUS
<1>2. DoneStays /\ InLine' /\ GoodCalls' = GoodCalls
  BY <1>1, SameLines
<1>3. calls' \in [Request -> Seq(GoodCalls')]
  BY <1>2, ReturnGood
<1>4. Pursued'
  BY OthersStand, StillPursued
<1> QED
  BY <1>2, <1>3, <1>4 DEF FInv

(* A throw loses no pursuit when there is none.                            *)
LEMMA ThrowFair ==
    ASSUME FInv, IInv', NEW r \in Request, UNCHANGED <<bracket, out>>, Throw(r),
           \A m \in Match : ~Pursues(r, m)
    PROVE  FInv'
<1>1. UNCHANGED bracket
  OBVIOUS
<1>2. InLine' /\ GoodCalls' = GoodCalls
  BY <1>1, SameLines
<1>3. calls' \in [Request -> Seq(GoodCalls')]
  BY <1>2 DEF FInv, Throw
<1>4. Pursued'
  BY OthersStand, StillPursued
<1> QED
  BY <1>2, <1>3, <1>4 DEF FInv

(* Who runs one of these pursues nothing.                                  *)
LEMMA PursuesNothing ==
    ASSUME NEW r \in Request,
           ~Idle(r) => Top(r).op \in {"Handle", "Advance", "Fill1", "Fill2", "Settle",
                                      "Check", "Crown"}
    PROVE  \A m : ~Pursues(r, m)
  BY DEF Pursues

(* The bracket as it is drawn.                                             *)
LEMMA InitFair == OneWay /\ Init => FInv
<1> SUFFICES ASSUME OneWay, Init PROVE FInv
  OBVIOUS
<1>1. IInv
  BY InitSafe
<1>2. \A m \in FirstRound : \A i \in 1..2 : Entrants[m][i] \in Line(m)
  BY WiringAssumption DEF OneWay, Line
<1>3. InLine
  BY <1>2, NobodyInLine DEF Init, InLine
<1>4. Pursued
  BY DEF Init, Pursued, Unfair
<1>5. PICK r \in Request, ms \in Orders({m \in FirstRound : HasBye(m)}) :
              calls = [s \in Request |-> IF s = r THEN ByeCalls(ms) ELSE <<>>]
  BY DEF Init
<1> DEFINE Byes == {m \in FirstRound : HasBye(m)}
           N == Cardinality(Byes)
<1>6. N \in Nat
  <2>1. Byes \subseteq Match
    BY WiringAssumption
  <2> QED
    BY <2>1, WiringAssumption, FS_Subset, FS_CardinalityType
<1>7. ms \in [1..N -> Byes]
  BY DEF Orders
<1>8. ms \in Seq(Byes) /\ Len(ms) = N
  <2> HIDE DEF N, Byes
  <2> QED
    BY <1>6, <1>7, SequenceOf
<1>9. \A i \in 1..N : ByeCalls(ms)[i] \in GoodCalls
  <2> SUFFICES ASSUME NEW i \in 1..N PROVE ByeCalls(ms)[i] \in GoodCalls
    OBVIOUS
  <2>1. ms[i] \in FirstRound /\ ms[i] \in Match
    BY <1>7, WiringAssumption
  <2> DEFINE p == IF Entrants[ms[i]][1] # NoPlayer THEN Entrants[ms[i]][1]
                                                   ELSE Entrants[ms[i]][2]
  <2>2. p \in Line(ms[i])
    BY <1>2, <2>1
  <2>3. Call("Complete", ms[i], p) \in GoodCalls
    BY <2>1, <2>2, CallGood DEF Op
  <2> QED
    BY <2>3, <1>8 DEF ByeCalls
<1>10. ByeCalls(ms) \in Seq(GoodCalls)
  <2> HIDE DEF N, Byes
  <2>1. DOMAIN ByeCalls(ms) = 1..N
    BY <1>8 DEF ByeCalls
  <2>2. ByeCalls(ms) = [i \in 1..N |-> ByeCalls(ms)[i]]
    BY <1>8, <2>1 DEF ByeCalls
  <2>3. ByeCalls(ms) \in [1..N -> GoodCalls]
    BY <2>2, <1>9
  <2> QED
    BY <1>6, <2>3, SequenceOf
<1>11. calls \in [Request -> Seq(GoodCalls)]
  <2>1. <<>> \in Seq(GoodCalls)
    OBVIOUS
  <2> QED
    BY <1>5, <1>10, <2>1
<1> QED
  BY <1>1, <1>3, <1>4, <1>11 DEF FInv

---------------------------------------------------------------------------
(* A completion ends the pursuit of its own match, and reopens none.       *)
LEMMA CompleteFair ==
    ASSUME OneWay, FInv, IInv', NEW r \in Request, Complete(r)
    PROVE  FInv'
<1>1. ~Idle(r) /\ Top(r).op \in {"Complete", "CompleteBye"}
  BY DEF Complete, Running
<1>2. PICK m \in Match, p \in {Top(r).p} : m = Top(r).m /\ p = Top(r).p /\ p \in Line(m)
  BY <1>1, TopGood
<1> DEFINE made == IF p # NoPlayer THEN <<Call("Handle", m, NoPlayer)>>
                   ELSE Unless(Next[m] = NoMatch, Call("Settle", Next[m], NoPlayer))
                     \o Unless(LoserNext[m] = NoMatch,
                               Call("Settle", LoserNext[m], NoPlayer))
<1>3. /\ status' = [status EXCEPT ![m] = "COMPLETED"]
      /\ winner' = IF p = NoPlayer THEN winner ELSE [winner EXCEPT ![m] = p]
      /\ UNCHANGED <<slots, out>>
      /\ Return(r, made)
  BY <1>2 DEF Complete
<1>4. status \in [Match -> {"ABSENT", "PENDING", "ONGOING", "COMPLETED"}]
          /\ winner \in [Match -> Seat]
  BY DEF FInv, IInv, TypeOK
<1>5. DoneStays /\ Done(m)'
  BY <1>2, <1>3, <1>4 DEF DoneStays, Done
<1>6. InLine'
  <2>1. \A d \in Match : winner'[d] = winner[d] \/ (d = m /\ winner'[d] = p)
    BY <1>2, <1>3, <1>4
  <2> QED
    BY <1>2, <1>3, <1>5, <2>1, LinesGrow DEF FInv, InLine
<1>7. made \in Seq(GoodCalls')
  <2>1. Call("Handle", m, NoPlayer) \in GoodCalls'
    <3>1. Call("Handle", m, NoPlayer) \in SafeCalls
      BY <1>2, CallSafe DEF Op
    <3>2. NoPlayer \in Line(m)'
      BY DEF Line
    <3> QED
      BY <1>5, <3>1, <3>2 DEF GoodCalls, Call
  <2>2. \A d \in Match : Call("Settle", d, NoPlayer) \in GoodCalls'
    BY <1>5, LinesGrow, NobodyInLine, CallGood DEF Op
  <2>3. /\ Next[m] # NoMatch => Next[m] \in Match
        /\ LoserNext[m] # NoMatch => LoserNext[m] \in Match
    BY <1>2, AlongLinks
  <2>4. /\ Unless(Next[m] = NoMatch, Call("Settle", Next[m], NoPlayer)) \in Seq(GoodCalls')
        /\ Unless(LoserNext[m] = NoMatch, Call("Settle", LoserNext[m], NoPlayer))
              \in Seq(GoodCalls')
    BY <2>2, <2>3 DEF Unless
  <2> QED
    BY <2>1, <2>4
<1> HIDE DEF made
<1>8. calls' \in [Request -> Seq(GoodCalls')]
  BY <1>1, <1>3, <1>5, <1>7, ReturnGood
<1>9. Pursued'
  <2> SUFFICES ASSUME NEW d \in Match, Unfair(d)'
               PROVE  \E s \in Request : Pursues(s, d)'
    BY DEF Pursued
  <2>1. d # m
    BY <1>5 DEF Unfair, Done
  <2>2. Unfair(d) /\ slots'[d] = slots[d]
    BY <1>2, <1>3, <1>4, <2>1 DEF Unfair, Full
  <2>3. PICK s \in Request : Pursues(s, d)
    BY <2>2 DEF FInv, Pursued
  <2>4. s # r
    BY <1>1, <1>2, <2>1, <2>3 DEF Pursues
  <2>5. calls'[s] = calls[s]
    BY <1>3, <2>4, OthersStand
  <2> QED
    BY <2>2, <2>3, <2>4, <2>5, OthersPursue
<1> QED
  BY <1>6, <1>8, <1>9 DEF FInv

(* In single elimination only the winner moves on.                         *)
LEMMA HandleFair ==
    ASSUME OneWay, FInv, IInv', NEW r \in Request, Handle(r)
    PROVE  FInv'
<1> DEFINE m == Top(r).m
           w == winner[m]
           win   == Unless(Next[m] = NoMatch \/ w = NoPlayer, Call("Advance", Next[m], w))
           check == <<Call("Check", m, NoPlayer)>>
<1>1. ~Idle(r) /\ Top(r).op = "Handle"
  BY DEF Handle, Running
<1>2. m \in Match /\ Done(m)
  BY <1>1, TopGood DEF GoodCalls
<1>3. w \in Line(m)
  BY <1>2 DEF FInv, InLine
<1>4. win \in Seq(GoodCalls)
  <2>1. ~(Next[m] = NoMatch \/ w = NoPlayer) => Call("Advance", Next[m], w) \in GoodCalls
    BY <1>2, <1>3, AlongLinks, NextInLine, CallGood DEF Op
  <2> QED
    BY <2>1, UnlessGood
<1>5. check \in Seq(GoodCalls)
  <2>1. Call("Check", m, NoPlayer) \in GoodCalls
    BY <1>2, NobodyInLine, CallGood DEF Op
  <2> QED
    BY <2>1
<1>6. Return(r, win \o check)
  <2>1. Return(r, win \o <<>> \o check)
    BY DEF Handle, OneWay
  <2>2. win \o <<>> = win
    <3> HIDE DEF win
    <3> QED
      BY <1>4
  <2> QED
    BY <2>1, <2>2
<1>7. win \o check \in Seq(GoodCalls)
  <2> HIDE DEF win, check
  <2> QED
    BY <1>4, <1>5
<1>8. UNCHANGED <<bracket, out>>
  BY DEF Handle
<1>9. \A d \in Match : ~Pursues(r, d)
  BY <1>1, PursuesNothing
<1> HIDE DEF win, check
<1> QED
  BY <1>1, <1>6, <1>7, <1>8, <1>9, ReadFair

(* The slot is chosen for somebody who may be there.                       *)
LEMMA AdvanceFair ==
    ASSUME OneWay, FInv, IInv', NEW r \in Request, Advance(r)
    PROVE  FInv'
<1> DEFINE d == Top(r).m
           p == Top(r).p
           op == IF slots[d][1] = NoPlayer THEN "Fill1" ELSE "Fill2"
<1>1. ~Idle(r) /\ Top(r).op = "Advance"
  BY DEF Advance, Running
<1>2. d \in Match /\ p \in Line(d)
  BY <1>1, TopGood
<1>3. <<Call(op, d, p)>> \in Seq(GoodCalls)
  <2>1. op \in Op \ {"List", "Forfeit", "CreateDecider", "Start", "Handle"}
    BY DEF Op
  <2>2. Call(op, d, p) \in GoodCalls
    BY <1>2, <2>1, CallGood
  <2> QED
    BY <2>2
<1>4. Return(r, <<>>) \/ Throw(r) \/ Return(r, <<Call(op, d, p)>>)
  BY DEF Advance
<1>5. UNCHANGED <<bracket, out>>
  BY DEF Advance
<1>6. \A e \in Match : ~Pursues(r, e)
  BY <1>1, PursuesNothing
<1>7. <<>> \in Seq(GoodCalls)
  OBVIOUS
<1> QED
  BY <1>1, <1>3, <1>4, <1>5, <1>6, <1>7, ReadFair, ThrowFair

(* Whoever fills the second slot looks at the pair next.                   *)
LEMMA FillFair ==
    ASSUME OneWay, FInv, IInv', NEW r \in Request, Fill(r)
    PROVE  FInv'
<1> DEFINE d == Top(r).m
           p == Top(r).p
           now == [slots[d] EXCEPT ![IF Top(r).op = "Fill1" THEN 1 ELSE 2] = p]
           both == now[1] # NoPlayer /\ now[2] # NoPlayer
           resolve == Call("Resolve", d, NoPlayer)
           made == IF both THEN <<resolve>> ELSE Unless(~bye[d], Call("Complete", d, p))
<1>1. ~Idle(r) /\ Top(r).op \in {"Fill1", "Fill2"}
  BY DEF Fill, Running
<1>2. d \in Match /\ p \in Line(d)
  BY <1>1, TopGood
<1>3. /\ slots' = [slots EXCEPT ![d] = now]
      /\ Return(r, made)
      /\ UNCHANGED <<status, winner, out>>
  BY DEF Fill
<1>4. slots \in [Match -> [1..2 -> Seat]]
  BY DEF FInv, IInv, TypeOK
<1>5. DoneStays /\ (\A m : Line(m)' = Line(m)) /\ GoodCalls' = GoodCalls
  <2>1. DoneStays /\ (\A m : Line(m)' = Line(m))
    BY <1>3 DEF DoneStays, Done, Line
  <2>2. GoodCalls' = GoodCalls
    BY <1>3, <2>1 DEF GoodCalls, Done
  <2> QED
    BY <2>1, <2>2
<1>6. InLine'
  <2>1. \A i \in 1..2 : now[i] \in Line(d)
    BY <1>2, <1>4 DEF FInv, InLine
  <2> HIDE DEF now, d
  <2>2. \A m \in Match, i \in 1..2 : slots'[m][i] \in Line(m)
    BY <1>2, <1>3, <1>4, <2>1 DEF FInv, InLine
  <2> QED
    BY <1>3, <1>5, <2>2 DEF FInv, InLine
<1>7. resolve \in GoodCalls
  BY <1>2, NobodyInLine, CallGood DEF Op
<1>8. made \in Seq(GoodCalls)
  <2>1. Call("Complete", d, p) \in GoodCalls
    BY <1>2, CallGood DEF Op
  <2>2. Unless(~bye[d], Call("Complete", d, p)) \in Seq(GoodCalls)
    BY <2>1, UnlessGood
  <2>3. <<resolve>> \in Seq(GoodCalls)
    BY <1>7
  <2> QED
    BY <2>2, <2>3
<1>9. calls' \in [Request -> Seq(GoodCalls')]
  BY <1>1, <1>3, <1>5, <1>8, ReturnGood
<1>10. Pursued'
  <2> SUFFICES ASSUME NEW m \in Match, Unfair(m)'
               PROVE  \E s \in Request : Pursues(s, m)'
    BY DEF Pursued
  <2>1. CASE m = d
    <3>1. slots'[d] = now
      BY <1>2, <1>3, <1>4
    <3>2. both
      BY <2>1, <3>1 DEF Unfair, Full
    <3>3. made = <<resolve>>
      BY <3>2
    <3>4. ~Idle(r)' /\ Top(r)' = resolve
      <4> HIDE DEF made, resolve
      <4>1. Len(made) > 0 /\ made[1] = resolve
        BY <3>3
      <4> QED
        BY <1>1, <1>3, <1>7, <1>8, <4>1, TopMade
    <3>5. Top(r)'.op = "Resolve" /\ Top(r)'.m = d
      BY <3>4 DEF Call
    <3> QED
      BY <2>1, <3>4, <3>5 DEF Pursues
  <2>2. CASE m # d
    <3>1. slots'[m] = slots[m]
      BY <1>2, <1>3, <1>4, <2>2
    <3>2. Unfair(m)
      BY <1>3, <3>1 DEF Unfair, Full
    <3>3. PICK s \in Request : Pursues(s, m)
      BY <3>2 DEF FInv, Pursued
    <3>4. s # r
      BY <1>1, <3>3, PursuesNothing
    <3>5. calls'[s] = calls[s]
      BY <1>3, <3>4, OthersStand
    <3> QED
      BY <3>1, <3>3, <3>4, <3>5, OthersPursue
  <2> QED
    BY <2>1, <2>2
<1> QED
  BY <1>6, <1>9, <1>10 DEF FInv

(* The walkover is decided while the match is unfair.                      *)
LEMMA ResolveFair ==
    ASSUME OneWay, FInv, IInv', NEW r \in Request, Resolve(r)
    PROVE  FInv'
<1>1. ~Idle(r) /\ Top(r).op = "Resolve"
  BY DEF Resolve, Running
<1>2. PICK m \in Match : m = Top(r).m
  BY <1>1, TopGood
<1> DEFINE lost(i) == slots[m][i] \in out
           none == Done(m) \/ ~Full(m) \/ (lost(1) <=> lost(2))
           c == Call("Walkover", m, slots[m][IF lost(1) THEN 2 ELSE 1])
           made == Unless(none, c)
<1>3. c \in GoodCalls
  <2>1. slots[m][IF lost(1) THEN 2 ELSE 1] \in Line(m)
    BY DEF FInv, InLine
  <2> QED
    BY <2>1, CallGood DEF Op
<1>4. made \in Seq(GoodCalls)
  BY <1>3, UnlessGood
<1>5. Return(r, made)
  BY <1>2 DEF Resolve
<1>6. \A d \in Match : Unfair(d) /\ Pursues(r, d) => Pursues(r, d)'
  <2> SUFFICES ASSUME NEW d \in Match, Unfair(d), Pursues(r, d)
               PROVE  Pursues(r, d)'
    OBVIOUS
  <2>1. d = m
    BY <1>1, <1>2 DEF Pursues
  <2>2. ~none
    BY <2>1 DEF Unfair, Done
  <2>3. made = <<c>>
    BY <2>2 DEF Unless
  <2>4. c.op = "Walkover" /\ c.m = m
    BY DEF Call
  <2> HIDE DEF made, c
  <2>5. Len(made) > 0 /\ made[1] = c
    BY <2>3
  <2>6. ~Idle(r)' /\ Top(r)' = c
    BY <1>1, <1>3, <1>4, <1>5, <2>5, TopMade
  <2> QED
    BY <2>1, <2>4, <2>6 DEF Pursues
<1>7. UNCHANGED <<bracket, out>>
  BY DEF Resolve
<1> HIDE DEF made
<1> QED
  BY <1>1, <1>4, <1>5, <1>6, <1>7, ReadFair

(* A walkover for a match that is still open completes it.                 *)
LEMMA WalkoverFair ==
    ASSUME OneWay, FInv, IInv', NEW r \in Request, Walkover(r)
    PROVE  FInv'
<1>1. ~Idle(r) /\ Top(r).op = "Walkover"
  BY DEF Walkover, Running
<1>2. PICK m \in Match, p \in {Top(r).p} : m = Top(r).m /\ p = Top(r).p /\ p \in Line(m)
  BY <1>1, TopGood
<1> DEFINE c == Call("Complete", m, p)
           made == Unless(Done(m), c)
<1>3. c \in GoodCalls
  BY <1>2, CallGood DEF Op
<1>4. made \in Seq(GoodCalls)
  BY <1>3, UnlessGood
<1>5. Return(r, made)
  BY <1>2 DEF Walkover
<1>6. \A d \in Match : Unfair(d) /\ Pursues(r, d) => Pursues(r, d)'
  <2> SUFFICES ASSUME NEW d \in Match, Unfair(d), Pursues(r, d)
               PROVE  Pursues(r, d)'
    OBVIOUS
  <2>1. d = m
    BY <1>1, <1>2 DEF Pursues
  <2>2. made = <<c>>
    BY <2>1 DEF Unfair, Done, Unless
  <2>3. c.op = "Complete" /\ c.m = m
    BY DEF Call
  <2> HIDE DEF made, c
  <2>4. Len(made) > 0 /\ made[1] = c
    BY <2>2
  <2>5. ~Idle(r)' /\ Top(r)' = c
    BY <1>1, <1>3, <1>4, <1>5, <2>4, TopMade
  <2> QED
    BY <2>1, <2>3, <2>5 DEF Pursues
<1>7. UNCHANGED <<bracket, out>>
  BY DEF Walkover
<1> HIDE DEF made
<1> QED
  BY <1>1, <1>4, <1>5, <1>6, <1>7, ReadFair

(* Settling, checking and crowning pursue nothing.                         *)
LEMMA SettleFair ==
    ASSUME OneWay, FInv, IInv', NEW r \in Request, Settle(r)
    PROVE  FInv'
<1>1. ~Idle(r) /\ Top(r).op = "Settle"
  BY DEF Settle, Running
<1>2. PICK m \in Match : m = Top(r).m
  BY <1>1, TopGood
<1> DEFINE none == Done(m) \/ Full(m) \/ Feeders(m) = {}
                      \/ \E f \in Feeders(m) : ~Done(f)
           c == Call("CompleteBye", m,
                     IF slots[m][1] # NoPlayer THEN slots[m][1] ELSE slots[m][2])
<1>3. c \in GoodCalls
  <2>1. (IF slots[m][1] # NoPlayer THEN slots[m][1] ELSE slots[m][2]) \in Line(m)
    BY DEF FInv, InLine
  <2> QED
    BY <2>1, CallGood DEF Op
<1>4. Unless(none, c) \in Seq(GoodCalls)
  BY <1>3, UnlessGood
<1>5. Return(r, Unless(none, c))
  BY <1>2 DEF Settle
<1>6. \A d \in Match : ~Pursues(r, d)
  BY <1>1, PursuesNothing
<1>7. UNCHANGED <<bracket, out>>
  BY DEF Settle
<1> HIDE DEF none, c
<1> QED
  BY <1>1, <1>4, <1>5, <1>6, <1>7, ReadFair

LEMMA CheckFair ==
    ASSUME OneWay, FInv, IInv', NEW r \in Request, Check(r)
    PROVE  FInv'
<1>1. ~Idle(r) /\ Top(r).op = "Check"
  BY DEF Check, Running
<1>2. PICK m \in Match : m = Top(r).m
  BY <1>1, TopGood
<1>3. Verdict(m) \in Seq(GoodCalls)
  <2>1. Call("Crown", m, winner[m]) \in GoodCalls
    BY CallGood DEF FInv, InLine, Op
  <2>2. Unless(~Done(m) \/ winner[m] = NoPlayer, Call("Crown", m, winner[m]))
           \in Seq(GoodCalls)
    BY <2>1, UnlessGood
  <2>3. <<>> \in Seq(GoodCalls)
    OBVIOUS
  <2> QED
    BY <2>2, <2>3 DEF Verdict, OneWay
<1>4. Return(r, Verdict(m)) /\ UNCHANGED <<bracket, out>>
  BY <1>2 DEF Check
<1>5. \A d \in Match : ~Pursues(r, d)
  BY <1>1, PursuesNothing
<1> QED
  BY <1>1, <1>3, <1>4, <1>5, ReadFair

LEMMA CrownFair ==
    ASSUME OneWay, FInv, IInv', NEW r \in Request, Crown(r)
    PROVE  FInv'
<1>1. ~Idle(r) /\ Top(r).op = "Crown"
  BY DEF Crown, Running
<1>2. Return(r, <<>>) /\ UNCHANGED <<bracket, out>>
  BY DEF Crown
<1>3. \A d \in Match : ~Pursues(r, d)
  BY <1>1, PursuesNothing
<1>4. <<>> \in Seq(GoodCalls)
  OBVIOUS
<1> QED
  BY <1>1, <1>2, <1>3, <1>4, ReadFair

(* The list of a forfeit holds the one open match of the player.           *)
LEMMA ListFair ==
    ASSUME OneWay, FInv, IInv', NEW r \in Request, List(r)
    PROVE  FInv'
<1>1. ~Idle(r) /\ Top(r).op = "List"
  BY DEF List, Running
<1>2. PICK p \in Seat : p = Top(r).p
  BY <1>1, TopSafe DEF FInv, SafeCalls, Calls
<1> DEFINE open == {m \in Match : status[m] \in {"PENDING", "ONGOING"}
                                    /\ p \in Present(m)}
           todo == {<<m, Opponent(m, p)>> :
                       m \in {o \in open : Opponent(o, p) # NoPlayer}}
           c == [Call("Forfeit", NoMatch, p) EXCEPT !.todo = todo]
<1>3. \A x \in todo : /\ x \in Match \X Player
                      /\ x[2] \in Line(x[1]) /\ x[2] \in Draw[x[1]]
                      /\ x[1] \in open /\ x = <<x[1], Opponent(x[1], p)>>
  <2> SUFFICES ASSUME NEW m \in open, Opponent(m, p) # NoPlayer
               PROVE  /\ Opponent(m, p) \in Player
                      /\ Opponent(m, p) \in Line(m) /\ Opponent(m, p) \in Draw[m]
    BY DEF open
  <2>1. Opponent(m, p) \in Line(m)
    BY DEF FInv, InLine, Opponent
  <2> QED
    BY <2>1, WiringAssumption DEF Line
<1>4. \A x, y \in todo : x = y
  <2> SUFFICES ASSUME NEW x \in todo, NEW y \in todo PROVE x = y
    OBVIOUS
  <2>1. x[1] \in Match /\ y[1] \in Match /\ p \in Present(x[1]) /\ p \in Present(y[1])
            /\ ~Done(x[1]) /\ ~Done(y[1])
    BY <1>3 DEF Done
  <2>2. x[1] = y[1]
    BY <2>1, OneOpenMatch DEF FInv
  <2> QED
    BY <1>3, <2>2
<1>5. c = [op |-> "Forfeit", m |-> NoMatch, p |-> p, q |-> NoPlayer, todo |-> todo]
  <2> HIDE DEF todo
  <2> QED
    BY DEF Call
<1>6. c \in GoodCalls
  <2> HIDE DEF todo, c
  <2>1. c \in Calls
    <3>1. todo \in SUBSET (Match \X Player)
      BY <1>3
    <3> QED
      BY <1>5, <3>1 DEF Calls, Op, Seat
  <2>2. c \in SafeCalls
    BY <1>3, <1>5, <2>1 DEF SafeCalls
  <2> QED
    BY <1>3, <1>4, <1>5, <2>2 DEF GoodCalls
<1>7. Return(r, <<c>>) /\ UNCHANGED <<bracket, out>>
  BY <1>2 DEF List
<1>8. <<c>> \in Seq(GoodCalls)
  BY <1>6
<1>9. \A d \in Match : Unfair(d) /\ Pursues(r, d) => Pursues(r, d)'
  <2> SUFFICES ASSUME NEW d \in Match, Unfair(d), Pursues(r, d)
               PROVE  Pursues(r, d)'
    OBVIOUS
  <2>1. d \in open
    BY <1>1, <1>2 DEF Pursues, Unfair
  <2>2. Opponent(d, p) # NoPlayer
    BY DEF Unfair, Full, Opponent
  <2>3. <<d, Opponent(d, p)>> \in todo
    BY <2>1, <2>2
  <2> HIDE DEF c, todo
  <2>4. ~Idle(r)' /\ Top(r)' = c
    <3>1. Len(<<c>>) > 0 /\ <<c>>[1] = c
      OBVIOUS
    <3> QED
      BY <1>1, <1>6, <1>7, <1>8, <3>1, TopMade
  <2>5. c.op = "Forfeit" /\ \E x \in c.todo : x[1] = d
    BY <1>5, <2>3
  <2> QED
    BY <2>4, <2>5 DEF Pursues
<1> HIDE DEF c
<1> QED
  BY <1>1, <1>7, <1>8, <1>9, ReadFair

(* The walkover that is awarded is for that match.                         *)
LEMMA AwardFair ==
    ASSUME OneWay, FInv, IInv', NEW r \in Request, Award(r)
    PROVE  FInv'
<1>1. ~Idle(r) /\ Top(r).op = "Forfeit"
  BY DEF Award, Running
<1>2. PICK c \in GoodCalls : c = Top(r)
  BY <1>1, TopGood
<1>3. UNCHANGED <<bracket, out>>
  BY DEF Award
<1>4. CASE c.todo = {}
  <2>1. Return(r, <<>>)
    BY <1>2, <1>4 DEF Award
  <2>2. \A d \in Match : ~Pursues(r, d)
    BY <1>1, <1>2, <1>4 DEF Pursues
  <2>3. <<>> \in Seq(GoodCalls)
    OBVIOUS
  <2> QED
    BY <1>1, <1>3, <2>1, <2>2, <2>3, ReadFair
<1>5. CASE c.todo # {}
  <2>1. PICK x \in c.todo :
           Return(r, <<Call("Walkover", x[1], x[2]), [c EXCEPT !.todo = @ \ {x}]>>)
    BY <1>2, <1>5 DEF Award
  <2> DEFINE walkover == Call("Walkover", x[1], x[2])
             rest == [c EXCEPT !.todo = @ \ {x}]
             made == <<walkover, rest>>
  <2>2. walkover \in GoodCalls
    <3>1. x[1] \in Match /\ x[2] \in Line(x[1])
      BY DEF GoodCalls, SafeCalls, Calls
    <3> QED
      BY <3>1, CallGood DEF Op
  <2>3. rest \in GoodCalls
    <3>1. c \in Calls
      BY DEF GoodCalls, SafeCalls
    <3>2. /\ rest.op = c.op /\ rest.m = c.m /\ rest.p = c.p /\ rest.q = c.q
          /\ rest.todo = c.todo \ {x} /\ rest \in Calls
      BY <3>1 DEF Calls
    <3> HIDE DEF rest
    <3>3. rest \in SafeCalls
      BY <3>2 DEF GoodCalls, SafeCalls
    <3> QED
      BY <3>2, <3>3 DEF GoodCalls
  <2>4. made \in Seq(GoodCalls)
    BY <2>2, <2>3
  <2>5. \A d \in Match : Unfair(d) /\ Pursues(r, d) => Pursues(r, d)'
    <3> SUFFICES ASSUME NEW d \in Match, Pursues(r, d)
                 PROVE  Pursues(r, d)'
      OBVIOUS
    <3>1. \A y \in c.todo : y = x
      BY DEF GoodCalls
    <3>2. x[1] = d
      BY <1>1, <1>2, <3>1 DEF Pursues
    <3>3. walkover.op = "Walkover" /\ walkover.m = d
      BY <3>2 DEF Call
    <3>4. Len(made) > 0 /\ made[1] = walkover
      OBVIOUS
    <3> HIDE DEF made, walkover
    <3>5. ~Idle(r)' /\ Top(r)' = walkover
      BY <1>1, <2>1, <2>2, <2>4, <3>4, TopMade DEF made, walkover
    <3> QED
      BY <3>3, <3>5 DEF Pursues
  <2>6. Return(r, made)
    BY <2>1
  <2> HIDE DEF made
  <2> QED
    BY <1>1, <1>3, <2>4, <2>5, <2>6, ReadFair
<1> QED
  BY <1>4, <1>5

(* A request begins, and pursues nothing it has not begun to.              *)
LEMMA BeginFair ==
    ASSUME FInv, IInv', NEW r \in Request, Idle(r), UNCHANGED bracket,
           NEW c \in GoodCalls, Begin(r, c),
           \A m \in Match : Unfair(m)' => Unfair(m) \/ Pursues(r, m)'
    PROVE  FInv'
<1>1. InLine' /\ GoodCalls' = GoodCalls
  BY SameLines
<1>2. calls' \in [Request -> Seq(GoodCalls')]
  <2>1. <<c>> \in Seq(GoodCalls)
    OBVIOUS
  <2> QED
    BY <1>1, <2>1 DEF FInv, Begin
<1>3. Pursued'
  <2> SUFFICES ASSUME NEW m \in Match, Unfair(m)', Unfair(m)
               PROVE  \E s \in Request : Pursues(s, m)'
    BY DEF Pursued
  <2>1. PICK s \in Request : Pursues(s, m)
    BY DEF FInv, Pursued
  <2>2. s # r
    BY <2>1 DEF Pursues
  <2>3. calls'[s] = calls[s] /\ slots'[m] = slots[m]
    BY <2>2 DEF FInv, Begin, bracket
  <2> QED
    BY <2>1, <2>2, <2>3, OthersPursue
<1> QED
  BY <1>1, <1>2, <1>3 DEF FInv

LEMMA SubmitResultFair ==
    ASSUME FInv, IInv', NEW r \in Request, NEW m \in Match, NEW w \in Player,
           SubmitResult(r, m, w)
    PROVE  FInv'
<1>1. w \in Line(m)
  BY DEF SubmitResult, Present, FInv, InLine
<1>2. Call("Complete", m, w) \in GoodCalls
  BY <1>1, CallGood DEF Op
<1>3. \A d \in Match : Unfair(d)' => Unfair(d)
  BY DEF SubmitResult, bracket, Unfair, Full
<1>4. Idle(r) /\ UNCHANGED bracket /\ Begin(r, Call("Complete", m, w))
  BY DEF SubmitResult
<1> QED
  BY <1>2, <1>3, <1>4, BeginFair

(* Whoever makes a match unfair is about to list it.                       *)
LEMMA ForfeitParticipantFair ==
    ASSUME FInv, IInv', NEW r \in Request, NEW p \in Player, ForfeitParticipant(r, p)
    PROVE  FInv'
<1> DEFINE c == Call("List", NoMatch, p)
<1>1. c \in GoodCalls
  BY DEF Call, GoodCalls, SafeCalls, Calls, Op, Seat
<1>2. Idle(r) /\ UNCHANGED bracket /\ Begin(r, c) /\ out' = out \cup {p}
  BY DEF ForfeitParticipant
<1>3. calls'[r] = <<c>>
  BY <1>2 DEF Begin, FInv
<1>4. ~Idle(r)' /\ Top(r)' = c
  <2> HIDE DEF c
  <2>1. <<c>> # <<>> /\ Head(<<c>>) = c
    OBVIOUS
  <2> QED
    BY <1>3, <2>1 DEF Idle, Top
<1>5. c.op = "List" /\ c.p = p
  BY DEF Call
<1> HIDE DEF c
<1>6. ASSUME NEW d \in Match, Unfair(d)', ~Unfair(d)
      PROVE  Pursues(r, d)'
  <2>1. p \in Present(d)'
    BY <1>2, <1>6 DEF Unfair, Full, Present, bracket
  <2> QED
    BY <1>4, <1>5, <2>1 DEF Pursues
<1> QED
  BY <1>1, <1>2, <1>6, BeginFair

---------------------------------------------------------------------------
LEMMA NextFair == OneWay /\ FInv /\ [NextStep]_vars => FInv'
<1> SUFFICES ASSUME OneWay, FInv, [NextStep]_vars PROVE FInv'
  OBVIOUS
<1>1. IInv /\ IInv'
  BY NextSafe DEF FInv
<1>2. ASSUME NEW r \in Request, Step(r)
      PROVE  FInv'
  <2>1. ~Start(r) /\ ~CreateDecider(r)
    <3>1. ~Idle(r) => Top(r).op \notin {"Start", "CreateDecider"}
      BY TopGood DEF GoodCalls
    <3> QED
      BY <3>1 DEF Start, CreateDecider, Running
  <2> QED
    BY <1>1, <1>2, <2>1, CompleteFair, HandleFair, AdvanceFair, FillFair, ResolveFair,
       WalkoverFair, SettleFair, CheckFair, CrownFair, ListFair, AwardFair DEF Step
<1>3. ASSUME NEW r \in Request, NEW m \in Match, NEW w \in Player, SubmitResult(r, m, w)
      PROVE  FInv'
  BY <1>1, <1>3, SubmitResultFair
<1>4. ~\E r \in Request, m \in Match : StartMatch(r, m)
  <2>1. Cardinality({d \in Match : started[d]}) \in Nat
    BY WiringAssumption, FS_Subset, FS_CardinalityType
  <2> QED
    BY <2>1 DEF StartMatch, OneWay
<1>5. ASSUME NEW r \in Request, NEW p \in Player, ForfeitParticipant(r, p)
      PROVE  FInv'
  BY <1>1, <1>5, ForfeitParticipantFair
<1>6. ~\E r \in Request, m \in Match : Reset(r, m)
  <2>1. resets \in Nat
    BY <1>1 DEF IInv, TypeOK
  <2> QED
    BY <2>1 DEF Reset, OneWay
<1>7. CASE UNCHANGED vars
  <2>1. InLine' /\ GoodCalls' = GoodCalls
    BY <1>7, SameLines DEF vars, bracket
  <2>2. Pursued'
    BY <1>7 DEF FInv, Pursued, vars, Unfair, Full, Pursues, Idle, Top, Present
  <2> QED
    BY <1>1, <1>7, <2>1, <2>2 DEF FInv, vars
<1> QED
  BY <1>2, <1>3, <1>4, <1>5, <1>6, <1>7 DEF NextStep

(* In single elimination, while nothing is reset or restarted, a forfeit   *)
(* and a result that cross each other never leave an active player waiting *)
(* for one who has forfeited, however many requests interleave             *)
(* (forfeitParticipant, resolveForfeitedPairing).                          *)
THEOREM NobodyWaitsForAQuitter ==
    ASSUME OneWay PROVE Spec => []ForfeitsTerminateCleanly
<1>1. Init => FInv
  BY InitFair
<1>2. FInv /\ [NextStep]_vars => FInv'
  BY NextFair
<1>3. FInv => ForfeitsTerminateCleanly
  BY DEF FInv, Pursued, Pursues, Unfair, Quiet, ForfeitsTerminateCleanly
<1> QED
  BY <1>1, <1>2, <1>3, PTL DEF Spec

---------------------------------------------------------------------------
(* A recorded result stands, when one request runs at a time.              *)
(*                                                                         *)
(* Nothing is written to a completed match because every write but those   *)
(* of the byes is called right after the check that the match is open.     *)
(* The byes wait on the stack from the start, but for different matches of *)
(* the first round, which nothing else completes meanwhile.                *)
Writes == {"Complete", "CompleteBye", "Fill1", "Fill2", "Start"}
Quits == {"List", "Forfeit"}

Fresh(s) ==
    /\ \A i \in 1..Len(s) : s[i].op = "Complete" => ~Done(s[i].m)
    /\ s # <<>> /\ s[1].op \in Writes => ~Done(s[1].m)
    /\ \A i \in 2..Len(s) : s[i].op \in Writes =>
          s[i].op = "Complete" /\ s[i].m \in FirstRound
    /\ \A i, j \in 1..Len(s) : i < j /\ s[j].op = "Complete" =>
          s[i].op \notin Quits /\ s[i].m # s[j].m

(* Each call that a request makes, given the one that makes it.            *)
Careful(made, by) ==
    \A i \in 1..Len(made) :
        /\ made[i].op \in Writes => i = 1 /\ status'[made[i].m] # "COMPLETED"
        /\ \/ made[i].op \notin Quits /\ made[i].m \notin FirstRound
           \/ made[i].op \notin Quits /\ made[i].m = by.m
           \/ by.op \in Quits

(* Such calls, made in place of the running one, leave the stack fresh.    *)
LEMMA FreshAfter ==
    ASSUME NEW s \in Seq(Calls), s # <<>>, Fresh(s), NEW made \in Seq(Calls),
           Careful(made, s[1]), \A x : Done(x)' => Done(x) \/ x = s[1].m
    PROVE  Fresh(made \o Tail(s))'
<1> DEFINE t == made \o Tail(s)
           k == Len(made)
<1>1. k \in Nat /\ Len(s) \in Nat \ {0} /\ Len(t) = k + Len(s) - 1
  OBVIOUS
<1>2. /\ \A i \in 1..k : t[i] = made[i]
      /\ \A i \in 1..Len(t) : i > k => i - k + 1 \in 2..Len(s) /\ t[i] = s[i - k + 1]
  BY <1>1
<1>3. \A i \in 1..k : t[i].op \in Writes => i = 1 /\ ~Done(t[i].m)'
  BY <1>2 DEF Careful, Done
<1>4. \A i \in 2..Len(s) : s[i].op \in Writes =>
         /\ s[i].op = "Complete" /\ s[i].m \in FirstRound
         /\ ~Done(s[i].m)' /\ s[1].op \notin Quits /\ s[1].m # s[i].m
  <2> SUFFICES ASSUME NEW i \in 2..Len(s), s[i].op \in Writes
               PROVE  /\ s[i].op = "Complete" /\ s[i].m \in FirstRound
                      /\ ~Done(s[i].m)' /\ s[1].op \notin Quits /\ s[1].m # s[i].m
    OBVIOUS
  <2>1. s[i].op = "Complete" /\ s[i].m \in FirstRound
    BY DEF Fresh
  <2>2. i \in 1..Len(s) /\ 1 \in 1..Len(s) /\ 1 < i
    BY <1>1
  <2>3. ~Done(s[i].m) /\ s[1].op \notin Quits /\ s[1].m # s[i].m
    BY <2>1, <2>2 DEF Fresh
  <2> QED
    BY <2>1, <2>3
<1>5. \A i, j \in 1..Len(t) : i < j /\ t[j].op = "Complete" =>
         t[i].op \notin Quits /\ t[i].m # t[j].m
  <2> SUFFICES ASSUME NEW i \in 1..Len(t), NEW j \in 1..Len(t), i < j,
                      t[j].op = "Complete"
               PROVE  t[i].op \notin Quits /\ t[i].m # t[j].m
    OBVIOUS
  <2>1. "Complete" \in Writes
    BY DEF Writes
  <2>2. j > k
    BY <1>1, <1>3, <2>1
  <2> DEFINE jj == j - k + 1
  <2>3. jj \in 2..Len(s) /\ t[j] = s[jj]
    BY <1>2, <2>2
  <2>4. CASE i > k
    <3> DEFINE ii == i - k + 1
    <3>1. ii \in 2..Len(s) /\ t[i] = s[ii] /\ ii < jj
      BY <1>1, <1>2, <2>4
    <3>2. ii \in 1..Len(s) /\ jj \in 1..Len(s)
      BY <1>1, <2>3, <3>1
    <3> HIDE DEF t, ii, jj
    <3> QED
      BY <2>3, <3>1, <3>2 DEF Fresh
  <2>5. CASE i <= k
    <3>1. i \in 1..k /\ t[i] = made[i]
      BY <1>1, <1>2, <2>5
    <3> HIDE DEF t, jj
    <3> QED
      BY <1>4, <2>1, <2>3, <3>1 DEF Careful
  <2> QED
    BY <1>1, <2>4, <2>5
<1>6. \A i \in 1..Len(t) : t[i].op \in Writes =>
         ~Done(t[i].m)' /\ (i = 1 \/ (t[i].op = "Complete" /\ t[i].m \in FirstRound))
  <2> SUFFICES ASSUME NEW i \in 1..Len(t), t[i].op \in Writes
               PROVE  /\ ~Done(t[i].m)'
                      /\ i = 1 \/ (t[i].op = "Complete" /\ t[i].m \in FirstRound)
    OBVIOUS
  <2>1. CASE i > k
    BY <1>2, <1>4, <2>1
  <2>2. CASE i <= k
    <3>1. i \in 1..k
      BY <1>1, <2>2
    <3> QED
      BY <1>3, <3>1
  <2> QED
    BY <1>1, <2>1, <2>2
<1>7. "Complete" \in Writes
  BY DEF Writes
<1>8. t # <<>> => 1 \in 1..Len(t)
  BY <1>1
<1>9. \A i \in 2..Len(t) : i \in 1..Len(t) /\ i # 1
  BY <1>1
<1> HIDE DEF t
<1>10. Fresh(t)'
  BY <1>5, <1>6, <1>7, <1>8, <1>9 DEF Fresh
<1> QED
  BY <1>10 DEF t

(* Once the byes are called there are no two for one match.                *)
LEMMA InitFresh ==
    ASSUME Init, NEW r, Request = {r}
    PROVE  Fresh(calls[r])
<1>1. PICK ms \in Orders({m \in FirstRound : HasBye(m)}) : calls[r] = ByeCalls(ms)
  BY DEF Init
<1> DEFINE Byes == {m \in FirstRound : HasBye(m)}
           N == Cardinality(Byes)
           s == ByeCalls(ms)
<1>2. N \in Nat
  <2>1. Byes \subseteq Match
    BY WiringAssumption
  <2> QED
    BY <2>1, WiringAssumption, FS_Subset, FS_CardinalityType
<1>3. ms \in [1..N -> Byes] /\ \A i, j \in 1..N : ms[i] = ms[j] => i = j
  BY DEF Orders
<1>4. Len(ms) = N
  <2> HIDE DEF N, Byes
  <2> QED
    BY <1>2, <1>3, SequenceOf
<1>5. \A i \in 1..N : s[i].op = "Complete" /\ s[i].m = ms[i]
  BY <1>4 DEF ByeCalls, Call
<1>6. s = [i \in 1..N |-> s[i]]
  BY <1>4 DEF ByeCalls
<1>7. Len(s) = N /\ (s # <<>> => N # 0)
  <2> HIDE DEF N, s
  <2>1. s \in [1..N -> {s[i] : i \in 1..N}]
    BY <1>6
  <2> QED
    BY <1>2, <2>1, SequenceOf
<1>8. \A m \in FirstRound : m \in Match /\ ~Done(m)
  BY WiringAssumption DEF Init, Done
<1> HIDE DEF N, s
<1>9. \A i \in 1..N : ms[i] \in FirstRound
  BY <1>3
<1>10. s # <<>> => 1 \in 1..N
  BY <1>2, <1>7
<1>11. \A i \in 2..N : i \in 1..N
  BY <1>2
<1>12. Fresh(s)
  <2>1. \A i, j \in 1..N : i < j => ms[i] # ms[j]
    BY <1>2, <1>3
  <2> QED
    BY <1>5, <1>7, <1>8, <1>9, <1>10, <1>11, <2>1 DEF Fresh, Quits
<1> QED
  BY <1>1, <1>12 DEF s

(* A completed match keeps its status, its winner and its players.         *)
Stands ==
    \A m \in Match : Done(m) =>
        status'[m] = "COMPLETED" /\ winner'[m] = winner[m] /\ slots'[m] = slots[m]

(* What the running call makes is pushed in its place.                     *)
LEMMA PushFresh ==
    ASSUME IInv, NEW r \in Request, ~Idle(r), Fresh(calls[r]),
           NEW made \in Seq(SafeCalls), Return(r, made), Careful(made, Top(r)),
           \A x : Done(x)' => Done(x) \/ x = Top(r).m
    PROVE  Fresh(calls[r])'
<1>1. calls[r] \in Seq(Calls) /\ calls[r] # <<>>
  BY DEF IInv, TypeOK, Idle
<1>2. PICK s \in Seq(Calls) : s = calls[r]
  BY <1>1
<1>3. SafeCalls \subseteq Calls
  BY DEF SafeCalls
<1>4. made \in Seq(Calls)
  BY <1>3, SeqMonotonic
<1>5. Top(r) = s[1] /\ s # <<>>
  BY <1>1, <1>2 DEF Top
<1>6. calls'[r] = made \o Tail(s)
  BY <1>2 DEF IInv, Return
<1>7. PICK t : t = made
  OBVIOUS
<1>8. Fresh(t \o Tail(s))'
  BY <1>2, <1>4, <1>5, <1>7, FreshAfter
<1> QED
  BY <1>6, <1>7, <1>8

(* Reads and what they call next.                                          *)
LEMMA ReadStands ==
    ASSUME IInv, NEW r \in Request, ~Idle(r), Fresh(calls[r]), UNCHANGED bracket,
           NEW made \in Seq(SafeCalls), Return(r, made), Careful(made, Top(r))
    PROVE  Fresh(calls[r])' /\ Stands
<1>1. UNCHANGED <<status, slots, winner>>
  BY DEF bracket
<1>2. \A x : Done(x)' => Done(x)
  BY <1>1 DEF Done
<1>3. Fresh(calls[r])'
  BY <1>2, PushFresh
<1> QED
  BY <1>1, <1>3 DEF Stands, Done

LEMMA EmptyFresh ==
    ASSUME NEW r, calls'[r] = <<>>
    PROVE  Fresh(calls[r])'
<1>1. Fresh(<<>>)'
  BY DEF Fresh
<1> QED
  BY <1>1

LEMMA ThrowStands ==
    ASSUME IInv, NEW r \in Request, UNCHANGED bracket, Throw(r)
    PROVE  Fresh(calls[r])' /\ Stands
<1>1. calls'[r] = <<>>
  BY DEF IInv, Throw
<1>2. Stands
  BY DEF Stands, bracket, Done
<1> QED
  BY <1>1, <1>2, EmptyFresh

(* Nothing leads back into the first round.                                *)
LEMMA BeyondFirstRound ==
    ASSUME NEW m \in Match
    PROVE  Next[m] \notin FirstRound /\ LoserNext[m] \notin FirstRound
  BY WiringAssumption DEF Feeders

(* Nothing, or one call: a write only of what is open.                     *)
LEMMA UnlessCareful ==
    ASSUME NEW none, NEW c, NEW by,
           ~none => /\ c.op \notin Quits
                    /\ c.m \notin FirstRound \/ c.m = by.m
                    /\ c.op \in Writes => status'[c.m] # "COMPLETED"
    PROVE  /\ Careful(Unless(none, c), by)
           /\ c.op \notin Writes =>
                 \A i \in 1..Len(Unless(none, c)) : Unless(none, c)[i].op \notin Writes
<1>1. CASE none
  BY <1>1 DEF Unless, Careful
<1>2. CASE ~none
  <2>1. Unless(none, c) = <<c>> /\ Len(<<c>>) = 1 /\ <<c>>[1] = c
    BY <1>2 DEF Unless
  <2>2. Careful(<<c>>, by)
    BY <1>2, <2>1 DEF Careful
  <2> QED
    BY <2>1, <2>2
<1> QED
  BY <1>1, <1>2

(* Calls made in a row, none of which writes.                              *)
LEMMA BothCareful ==
    ASSUME NEW a \in Seq(SafeCalls), NEW b \in Seq(SafeCalls), NEW by,
           Careful(a, by), Careful(b, by), \A i \in 1..Len(b) : b[i].op \notin Writes
    PROVE  Careful(a \o b, by)
<1>1. Len(a \o b) = Len(a) + Len(b) /\ Len(a) \in Nat /\ Len(b) \in Nat
  OBVIOUS
<1>2. \A i \in 1..Len(a \o b) :
         \/ i \in 1..Len(a) /\ (a \o b)[i] = a[i]
         \/ i - Len(a) \in 1..Len(b) /\ (a \o b)[i] = b[i - Len(a)]
  BY <1>1
<1> DEFINE ab == a \o b
<1> HIDE DEF ab
<1>3. Careful(ab, by)
  BY <1>2 DEF Careful, ab
<1> QED
  BY <1>3 DEF ab

LEMMA CompleteStands ==
    ASSUME IInv, NEW r \in Request, Fresh(calls[r]), Complete(r)
    PROVE  Fresh(calls[r])' /\ Stands
<1>1. ~Idle(r) /\ Top(r).op \in {"Complete", "CompleteBye"}
  BY DEF Complete, Running
<1>2. Top(r).m \in Match
  BY <1>1, TopFields
<1>3. PICK m \in Match, p \in {Top(r).p} : m = Top(r).m /\ p = Top(r).p
  BY <1>2
<1> DEFINE handle == Call("Handle", m, NoPlayer)
           below  == Unless(Next[m] = NoMatch, Call("Settle", Next[m], NoPlayer))
           side   == Unless(LoserNext[m] = NoMatch, Call("Settle", LoserNext[m], NoPlayer))
           made   == IF p # NoPlayer THEN <<handle>> ELSE below \o side
<1>4. ~Done(m)
  <2>1. calls[r] \in Seq(Calls) /\ calls[r] # <<>>
    BY <1>1 DEF IInv, TypeOK, Idle
  <2>2. calls[r][1] = Top(r)
    BY <2>1 DEF Top
  <2> QED
    BY <1>1, <1>3, <2>1, <2>2 DEF Fresh, Writes
<1>5. /\ status' = [status EXCEPT ![m] = "COMPLETED"]
      /\ winner' = IF p = NoPlayer THEN winner ELSE [winner EXCEPT ![m] = p]
      /\ UNCHANGED slots
      /\ Return(r, made)
  BY <1>3 DEF Complete
<1>6. status \in [Match -> {"ABSENT", "PENDING", "ONGOING", "COMPLETED"}]
          /\ winner \in [Match -> Seat]
  BY DEF IInv, TypeOK
<1>7. Stands
  BY <1>4, <1>5, <1>6 DEF Stands, Done
<1>8. \A x : Done(x)' => Done(x) \/ x = Top(r).m
  BY <1>3, <1>5, <1>6 DEF Done
<1>9. below \in Seq(SafeCalls) /\ side \in Seq(SafeCalls) /\ <<handle>> \in Seq(SafeCalls)
  <2>1. handle \in SafeCalls
    BY CallSafe DEF Op
  <2> QED
    BY <2>1, SettleSafe, OneSafe
<1>10. \A d : Call("Settle", d, NoPlayer).op = "Settle" /\ Call("Settle", d, NoPlayer).m = d
  BY DEF Call
<1>11. Careful(below \o side, Top(r))
  <2>1. /\ Careful(below, Top(r)) /\ Careful(side, Top(r))
        /\ \A i \in 1..Len(side) : side[i].op \notin Writes
    BY <1>10, BeyondFirstRound, UnlessCareful DEF Writes, Quits
  <2> HIDE DEF below, side
  <2> QED
    BY <1>9, <2>1, BothCareful
<1>12. Careful(<<handle>>, Top(r))
  <2>1. handle.op = "Handle" /\ handle.m = Top(r).m
    BY <1>3 DEF Call
  <2>2. Careful(Unless(FALSE, handle), Top(r))
    BY <2>1, UnlessCareful DEF Writes, Quits
  <2> QED
    BY <2>2 DEF Unless
<1> HIDE DEF below, side, handle
<1>13. made \in Seq(SafeCalls) /\ Careful(made, Top(r))
  BY <1>9, <1>11, <1>12
<1> HIDE DEF made
<1> QED
  BY <1>1, <1>5, <1>7, <1>8, <1>13, PushFresh

LEMMA HandleStands ==
    ASSUME IInv, NEW r \in Request, Fresh(calls[r]), Handle(r)
    PROVE  Fresh(calls[r])' /\ Stands
<1>1. ~Idle(r) /\ Top(r).op = "Handle"
  BY DEF Handle, Running
<1>2. Top(r).m \in Match
  BY <1>1, TopFields
<1>3. PICK m \in Match : m = Top(r).m
  BY <1>2
<1> DEFINE w == winner[m]
           l == Opponent(m, w)
           win   == Unless(Next[m] = NoMatch \/ w = NoPlayer, Call("Advance", Next[m], w))
           lose  == Unless(LoserNext[m] = NoMatch \/ l = NoPlayer,
                           Call("Advance", LoserNext[m], l))
           below == Unless(Next[m] = NoMatch, Call("Settle", Next[m], NoPlayer))
           side  == Unless(LoserNext[m] = NoMatch, Call("Settle", LoserNext[m], NoPlayer))
           check == <<Call("Check", m, NoPlayer)>>
           rest  == IF ~Double THEN <<>> ELSE lose \o below \o side
           Quietly(s) == /\ s \in Seq(SafeCalls) /\ Careful(s, Top(r))
                         /\ \A i \in 1..Len(s) : s[i].op \notin Writes
<1>4. w \in Draw[m] \cup {NoPlayer} /\ l \in Draw[m] \cup {NoPlayer}
  BY OpponentSafe DEF IInv, WinnersWithinDraw
<1>5. \A op, d, p : Call(op, d, p).op = op /\ Call(op, d, p).m = d
  BY DEF Call
<1>6. \A none, op, d, p :
         (op \in {"Advance", "Settle"} /\ d \in {Next[m], LoserNext[m]})
            => /\ Careful(Unless(none, Call(op, d, p)), Top(r))
               /\ \A i \in 1..Len(Unless(none, Call(op, d, p))) :
                     Unless(none, Call(op, d, p))[i].op \notin Writes
  <2> SUFFICES ASSUME NEW none, NEW op \in {"Advance", "Settle"},
                      NEW d \in {Next[m], LoserNext[m]}, NEW p
               PROVE  /\ Careful(Unless(none, Call(op, d, p)), Top(r))
                      /\ \A i \in 1..Len(Unless(none, Call(op, d, p))) :
                            Unless(none, Call(op, d, p))[i].op \notin Writes
    OBVIOUS
  <2>1. PICK c : c = Call(op, d, p)
    OBVIOUS
  <2>2. c.op \notin Writes \cup Quits /\ c.m \notin FirstRound
    BY <1>5, <2>1, BeyondFirstRound DEF Writes, Quits
  <2>3. /\ Careful(Unless(none, c), Top(r))
        /\ \A i \in 1..Len(Unless(none, c)) : Unless(none, c)[i].op \notin Writes
    BY <2>2, UnlessCareful
  <2> QED
    BY <2>1, <2>3
<1>7. Quietly(win)
  <2>1. ~(Next[m] = NoMatch \/ w = NoPlayer) => Call("Advance", Next[m], w) \in SafeCalls
    BY <1>4, AlongLinks, CallSafe DEF Op
  <2> QED
    BY <1>6, <2>1, UnlessSafe
<1>8. Quietly(lose)
  <2>1. ~(LoserNext[m] = NoMatch \/ l = NoPlayer)
           => Call("Advance", LoserNext[m], l) \in SafeCalls
    BY <1>4, AlongLinks, CallSafe DEF Op
  <2> QED
    BY <1>6, <2>1, UnlessSafe
<1>9. Quietly(below) /\ Quietly(side)
  BY <1>6, SettleSafe
<1>10. Quietly(check)
  <2> DEFINE c == Call("Check", m, NoPlayer)
  <2>1. c.op = "Check" /\ c.m = Top(r).m
    BY <1>3, <1>5
  <2>2. c \in SafeCalls
    BY CallSafe DEF Op
  <2> HIDE DEF c
  <2>3. /\ Careful(Unless(FALSE, c), Top(r))
        /\ \A i \in 1..Len(Unless(FALSE, c)) : Unless(FALSE, c)[i].op \notin Writes
    BY <2>1, UnlessCareful DEF Writes, Quits
  <2>4. Unless(FALSE, c) = <<c>> /\ <<c>> \in Seq(SafeCalls)
    BY <2>2 DEF Unless
  <2>5. Quietly(<<c>>)
    BY <2>3, <2>4
  <2> QED
    BY <2>5 DEF c
<1>11. \A a, b : Quietly(a) /\ Quietly(b) => Quietly(a \o b)
  <2> SUFFICES ASSUME NEW a, NEW b, Quietly(a), Quietly(b) PROVE Quietly(a \o b)
    OBVIOUS
  <2>1. a \o b \in Seq(SafeCalls) /\ Careful(a \o b, Top(r))
    BY BothCareful
  <2>2. \A i \in 1..Len(a \o b) :
           \/ i \in 1..Len(a) /\ (a \o b)[i] = a[i]
           \/ i - Len(a) \in 1..Len(b) /\ (a \o b)[i] = b[i - Len(a)]
    OBVIOUS
  <2> QED
    BY <2>1, <2>2
<1>12. Quietly(<<>>)
  BY NothingSafe DEF Careful
<1> HIDE DEF win, lose, below, side, check, Quietly
<1>13. Quietly(lose \o below \o side)
  BY <1>8, <1>9, <1>11
<1>14. Quietly(rest)
  BY <1>12, <1>13
<1> HIDE DEF rest
<1>15. Quietly(win \o rest \o check)
  BY <1>7, <1>10, <1>11, <1>14
<1>16. Return(r, win \o rest \o check)
  BY <1>3 DEF Handle, win, rest, lose, below, side, check
<1>17. UNCHANGED bracket
  BY DEF Handle
<1> DEFINE made == win \o rest \o check
<1>18. made \in Seq(SafeCalls) /\ Careful(made, Top(r))
  BY <1>15 DEF Quietly
<1> HIDE DEF made
<1> QED
  BY <1>1, <1>16, <1>17, <1>18, ReadStands DEF made

(* A read that makes one call at most: a write only of what is open.       *)
LEMMA OneCallStands ==
    ASSUME IInv, NEW r \in Request, ~Idle(r), Fresh(calls[r]), UNCHANGED bracket,
           NEW none, NEW c, Return(r, Unless(none, c)),
           ~none => /\ c \in SafeCalls
                    /\ c.op \notin Quits
                    /\ c.m \notin FirstRound \/ c.m = Top(r).m
                    /\ c.op \in Writes => ~Done(c.m)
    PROVE  Fresh(calls[r])' /\ Stands
<1>1. Unless(none, c) \in Seq(SafeCalls)
  BY UnlessSafe
<1>2. ~none /\ c.op \in Writes => status'[c.m] # "COMPLETED"
  BY DEF bracket, Done
<1>3. PICK by : by = Top(r)
  OBVIOUS
<1>4. Careful(Unless(none, c), by)
  BY <1>2, <1>3, UnlessCareful
<1> QED
  BY <1>1, <1>3, <1>4, ReadStands

(* A read that makes no call.                                              *)
LEMMA NoCallStands ==
    ASSUME IInv, NEW r \in Request, ~Idle(r), Fresh(calls[r]), UNCHANGED bracket,
           Return(r, <<>>)
    PROVE  Fresh(calls[r])' /\ Stands
<1>1. Unless(TRUE, 0) = <<>>
  BY DEF Unless
<1> QED
  BY <1>1, OneCallStands

LEMMA AdvanceStands ==
    ASSUME IInv, NEW r \in Request, Fresh(calls[r]), Advance(r)
    PROVE  Fresh(calls[r])' /\ Stands
<1> DEFINE d == Top(r).m
           p == Top(r).p
           c == Call(IF slots[d][1] = NoPlayer THEN "Fill1" ELSE "Fill2", d, p)
<1>1. ~Idle(r) /\ Top(r).op = "Advance" /\ UNCHANGED bracket
  BY DEF Advance, Running
<1>2. d \in Match /\ p \in Draw[d] \cup {NoPlayer}
  BY <1>1, TopFields
<1>3. c \in SafeCalls /\ c.op \notin Quits /\ c.m = d
  <2>1. c \in SafeCalls
    BY <1>2, CallSafe DEF Op
  <2> QED
    BY <2>1 DEF Call, Quits
<1>4. \/ Return(r, <<>>) \/ Throw(r)
      \/ Return(r, <<c>>) /\ ~Done(d)
  BY DEF Advance, Done
<1> HIDE DEF c
<1>5. CASE Return(r, <<c>>) /\ ~Done(d)
  <2>1. Return(r, Unless(FALSE, c))
    BY <1>5 DEF Unless
  <2> QED
    BY <1>1, <1>3, <1>5, <2>1, OneCallStands
<1> QED
  BY <1>1, <1>4, <1>5, NoCallStands, ThrowStands

(* Slots are only written of a match that is still open.                   *)
LEMMA FillStands ==
    ASSUME IInv, NEW r \in Request, Fresh(calls[r]), Fill(r)
    PROVE  Fresh(calls[r])' /\ Stands
<1>1. ~Idle(r) /\ Top(r).op \in {"Fill1", "Fill2"}
  BY DEF Fill, Running
<1>2. Top(r).m \in Match /\ Top(r).p \in Draw[Top(r).m] \cup {NoPlayer}
  BY <1>1, TopFields
<1>3. PICK d \in Match, p \in {Top(r).p} :
         d = Top(r).m /\ p = Top(r).p /\ p \in Draw[d] \cup {NoPlayer}
  BY <1>2
<1>4. ~Done(d)
  <2>1. calls[r] \in Seq(Calls) /\ calls[r] # <<>>
    BY <1>1 DEF IInv, TypeOK, Idle
  <2>2. calls[r][1] = Top(r)
    BY <2>1 DEF Top
  <2> QED
    BY <1>1, <1>3, <2>1, <2>2 DEF Fresh, Writes
<1> DEFINE now == [slots[d] EXCEPT ![IF Top(r).op = "Fill1" THEN 1 ELSE 2] = p]
           both == now[1] # NoPlayer /\ now[2] # NoPlayer
           made == IF both THEN <<Call("Resolve", d, NoPlayer)>>
                   ELSE Unless(~bye[d], Call("Complete", d, p))
<1>5. /\ slots' = [slots EXCEPT ![d] = now]
      /\ Return(r, made)
      /\ UNCHANGED <<status, winner>>
  BY <1>3 DEF Fill
<1>6. Stands
  BY <1>4, <1>5 DEF IInv, TypeOK, Stands, Done
<1>7. PICK c, none : /\ made = Unless(none, c)
                     /\ c = Call("Resolve", d, NoPlayer) \/ c = Call("Complete", d, p)
  <2>1. <<Call("Resolve", d, NoPlayer)>> = Unless(FALSE, Call("Resolve", d, NoPlayer))
    BY DEF Unless
  <2> QED
    BY <2>1
<1>8. c \in SafeCalls /\ c.m = d /\ c.op \notin Quits
  <2>1. Call("Resolve", d, NoPlayer) \in SafeCalls /\ Call("Complete", d, p) \in SafeCalls
    BY <1>3, CallSafe DEF Op
  <2> QED
    BY <1>7, <2>1 DEF Call, Quits
<1>9. status'[c.m] # "COMPLETED"
  BY <1>4, <1>5, <1>8 DEF Done
<1>10. PICK by : by = Top(r)
  OBVIOUS
<1> HIDE DEF made
<1>11. made \in Seq(SafeCalls) /\ Careful(Unless(none, c), by)
  BY <1>3, <1>7, <1>8, <1>9, <1>10, UnlessCareful, UnlessSafe
<1>12. \A x : Done(x)' => Done(x)
  BY <1>5 DEF Done
<1> QED
  BY <1>1, <1>5, <1>6, <1>7, <1>10, <1>11, <1>12, PushFresh

(* Forfeited pairings, walkovers and starved matches are looked at first.  *)
LEMMA ResolveStands ==
    ASSUME IInv, NEW r \in Request, Fresh(calls[r]), Resolve(r)
    PROVE  Fresh(calls[r])' /\ Stands
<1> DEFINE m == Top(r).m
           lost(i) == slots[m][i] \in out
           none == Done(m) \/ ~Full(m) \/ (lost(1) <=> lost(2))
           c == Call("Walkover", m, slots[m][IF lost(1) THEN 2 ELSE 1])
<1>1. ~Idle(r) /\ Top(r).op = "Resolve" /\ UNCHANGED bracket
  BY DEF Resolve, Running
<1>2. m \in Match
  BY <1>1, TopFields
<1>3. c \in SafeCalls
  <2>1. slots[m][IF lost(1) THEN 2 ELSE 1] \in Draw[m] \cup {NoPlayer}
    BY <1>2 DEF IInv, SlotsSafe
  <2> QED
    BY <1>2, <2>1, CallSafe DEF Op
<1>4. c.op \notin Quits \cup Writes /\ c.m = m
  BY DEF Call, Quits, Writes
<1>5. Return(r, Unless(none, c))
  BY DEF Resolve
<1> HIDE DEF c, none
<1> QED
  BY <1>1, <1>3, <1>4, <1>5, OneCallStands

LEMMA WalkoverStands ==
    ASSUME IInv, NEW r \in Request, Fresh(calls[r]), Walkover(r)
    PROVE  Fresh(calls[r])' /\ Stands
<1> DEFINE c == Call("Complete", Top(r).m, Top(r).p)
<1>1. ~Idle(r) /\ Top(r).op = "Walkover" /\ UNCHANGED bracket
  BY DEF Walkover, Running
<1>2. c \in SafeCalls
  BY <1>1, TopFields, CallSafe DEF Op
<1>3. c.op \notin Quits /\ c.m = Top(r).m
  BY DEF Call, Quits
<1>4. Return(r, Unless(Done(Top(r).m), c))
  BY DEF Walkover
<1> HIDE DEF c
<1> QED
  BY <1>1, <1>2, <1>3, <1>4, OneCallStands

LEMMA SettleStands ==
    ASSUME IInv, NEW r \in Request, Fresh(calls[r]), Settle(r)
    PROVE  Fresh(calls[r])' /\ Stands
<1> DEFINE m == Top(r).m
           none == Done(m) \/ Full(m) \/ Feeders(m) = {}
                      \/ \E f \in Feeders(m) : ~Done(f)
           c == Call("CompleteBye", m,
                     IF slots[m][1] # NoPlayer THEN slots[m][1] ELSE slots[m][2])
<1>1. ~Idle(r) /\ Top(r).op = "Settle" /\ UNCHANGED bracket
  BY DEF Settle, Running
<1>2. m \in Match
  BY <1>1, TopFields
<1>3. c \in SafeCalls
  <2>1. (IF slots[m][1] # NoPlayer THEN slots[m][1] ELSE slots[m][2])
           \in Draw[m] \cup {NoPlayer}
    BY <1>2 DEF IInv, SlotsSafe
  <2> QED
    BY <1>2, <2>1, CallSafe DEF Op
<1>4. c.op \notin Quits /\ c.m = m
  BY DEF Call, Quits
<1>5. Return(r, Unless(none, c)) /\ (~none => ~Done(m))
  BY DEF Settle
<1> HIDE DEF c, none
<1> QED
  BY <1>1, <1>3, <1>4, <1>5, OneCallStands

(* The verdict calls for the crown or for the reset match, never a write   *)
(* of a match that is there.                                               *)
LEMMA CheckStands ==
    ASSUME IInv, NEW r \in Request, Fresh(calls[r]), Check(r)
    PROVE  Fresh(calls[r])' /\ Stands
<1>1. ~Idle(r) /\ Top(r).op = "Check" /\ UNCHANGED bracket
  BY DEF Check, Running
<1>2. Top(r).m \in Match
  BY <1>1, TopFields
<1>3. PICK m \in Match : m = Top(r).m
  BY <1>2
<1> DEFINE Crowns(d) == Unless(~Done(d) \/ winner[d] = NoPlayer,
                               Call("Crown", d, winner[d]))
           decide == [Call("CreateDecider", Decider, slots[GrandFinal][1])
                          EXCEPT !.q = slots[GrandFinal][2]]
<1>4. \A d \in Match : /\ Call("Crown", d, winner[d]) \in SafeCalls
                       /\ Call("Crown", d, winner[d]).op = "Crown"
                       /\ Call("Crown", d, winner[d]).m = d
  BY CallSafe DEF IInv, WinnersWithinDraw, Op, Call
<1>5. Double => /\ GrandFinal \in Match \ FirstRound
                /\ Decider \in Match \ FirstRound
  BY WiringAssumption
<1>6. ASSUME NEW d \in Match, d = m \/ d \notin FirstRound, Return(r, Crowns(d))
      PROVE  Fresh(calls[r])' /\ Stands
  <2>1. PICK c : c = Call("Crown", d, winner[d])
    OBVIOUS
  <2>2. c \in SafeCalls /\ c.op \notin Quits \cup Writes /\ c.m = d
    BY <1>4, <2>1 DEF Quits, Writes
  <2>3. Return(r, Unless(~Done(d) \/ winner[d] = NoPlayer, c))
    BY <1>6, <2>1
  <2> QED
    BY <1>1, <1>3, <1>6, <2>2, <2>3, OneCallStands
<1>7. ASSUME Double, Return(r, <<decide>>)
      PROVE  Fresh(calls[r])' /\ Stands
  <2>1. decide.op = "CreateDecider" /\ decide.m = Decider
    BY DEF Call
  <2>2. decide \in SafeCalls
    <3>1. GrandFinal \in Match /\ Decider \in Match
            /\ Draw[GrandFinal] \subseteq Draw[Decider] /\ Draw[Decider] \subseteq Player
      BY <1>7, WiringAssumption
    <3>2. \A i \in 1..2 : slots[GrandFinal][i] \in Draw[Decider] \cup {NoPlayer}
      BY <3>1 DEF IInv, SlotsSafe
    <3>3. decide = [op |-> "CreateDecider", m |-> Decider, p |-> slots[GrandFinal][1],
                    q |-> slots[GrandFinal][2], todo |-> {}]
      BY DEF Call
    <3>4. decide \in Calls
      BY <3>1, <3>2, <3>3 DEF Calls, Op, Seat
    <3> QED
      BY <3>1, <3>2, <3>3, <3>4 DEF SafeCalls
  <2> HIDE DEF decide
  <2>3. Return(r, Unless(FALSE, decide))
    BY <1>7 DEF Unless
  <2>4. decide.op \notin Quits \cup Writes /\ decide.m \notin FirstRound
    BY <1>5, <1>7, <2>1 DEF Quits, Writes
  <2> QED
    BY <1>1, <2>2, <2>3, <2>4, OneCallStands
<1>8. Return(r, Verdict(m))
  BY <1>3 DEF Check
<1>9. \/ Verdict(m) = <<>>
      \/ Verdict(m) = Crowns(m)
      \/ Double /\ (Verdict(m) = Crowns(Decider) \/ Verdict(m) = Crowns(GrandFinal)
                       \/ Verdict(m) = <<decide>>)
  BY DEF Verdict
<1> HIDE DEF Crowns, decide
<1> QED
  BY <1>1, <1>5, <1>6, <1>7, <1>8, <1>9, NoCallStands

(* The reset match is created once.                                        *)
LEMMA CreateDeciderStands ==
    ASSUME IInv, NEW r \in Request, Fresh(calls[r]), CreateDecider(r)
    PROVE  Fresh(calls[r])' /\ Stands
<1>1. ~Idle(r)
  BY DEF CreateDecider, Running
<1>2. CASE status[Decider] # "ABSENT"
  BY <1>2, ThrowStands DEF CreateDecider, bracket
<1>3. CASE status[Decider] = "ABSENT"
  <2>1. /\ status' = [status EXCEPT ![Decider] = "PENDING"]
        /\ \A m \in Match : m # Decider => slots'[m] = slots[m]
        /\ UNCHANGED winner
        /\ Return(r, <<>>)
    BY <1>3 DEF CreateDecider, IInv, TypeOK
  <2>2. \A x : Done(x)' => Done(x)
    BY <2>1 DEF IInv, TypeOK, Done
  <2>3. Stands
    BY <1>3, <2>1 DEF IInv, TypeOK, Stands, Done
  <2>4. \A by : Careful(<<>>, by)
    BY DEF Careful
  <2>5. Fresh(calls[r])'
    BY <1>1, <2>1, <2>2, <2>4, NothingSafe, PushFresh
  <2> QED
    BY <2>3, <2>5
<1> QED
  BY <1>2, <1>3

LEMMA CrownStands ==
    ASSUME IInv, NEW r \in Request, Fresh(calls[r]), Crown(r)
    PROVE  Fresh(calls[r])' /\ Stands
  BY NoCallStands DEF Crown, Running

(* A match is only started while it is open.                               *)
LEMMA StartStands ==
    ASSUME IInv, NEW r \in Request, Fresh(calls[r]), Start(r)
    PROVE  Fresh(calls[r])' /\ Stands
<1>1. ~Idle(r) /\ Top(r).op = "Start"
  BY DEF Start, Running
<1>2. Top(r).m \in Match
  BY <1>1, TopFields
<1>3. ~Done(Top(r).m)
  <2>1. calls[r] \in Seq(Calls) /\ calls[r] # <<>>
    BY <1>1 DEF IInv, TypeOK, Idle
  <2>2. calls[r][1] = Top(r)
    BY <2>1 DEF Top
  <2> QED
    BY <1>1, <2>1, <2>2 DEF Fresh, Writes
<1>4. /\ status' = [status EXCEPT ![Top(r).m] = "ONGOING"]
      /\ UNCHANGED <<slots, winner>>
      /\ Return(r, <<>>)
  BY DEF Start
<1>5. Stands
  BY <1>2, <1>3, <1>4 DEF IInv, TypeOK, Stands, Done
<1>6. \A x : Done(x)' => Done(x)
  BY <1>4 DEF IInv, TypeOK, Done
<1>7. \A by : Careful(<<>>, by)
  BY DEF Careful
<1>8. Fresh(calls[r])'
  BY <1>1, <1>4, <1>6, <1>7, NothingSafe, PushFresh
<1> QED
  BY <1>5, <1>8

(* While a forfeit runs no bye is waiting.                                 *)
LEMMA ListStands ==
    ASSUME IInv, IInv', NEW r \in Request, Fresh(calls[r]), List(r)
    PROVE  Fresh(calls[r])' /\ Stands
<1>1. ~Idle(r) /\ Top(r).op = "List" /\ UNCHANGED bracket
  BY DEF List, Running
<1>2. PICK c : Return(r, <<c>>) /\ c.op = "Forfeit"
  BY DEF List, Call
<1>3. c \in SafeCalls
  <2>1. calls'[r] = <<c>> \o Tail(calls[r]) /\ calls[r] \in Seq(Calls)
            /\ calls[r] # <<>>
    BY <1>1, <1>2 DEF IInv, TypeOK, Return, Idle
  <2>2. calls'[r] \in Seq(SafeCalls)
    BY DEF IInv
  <2>3. Len(calls'[r]) > 0 /\ calls'[r][1] = c
    BY <2>1
  <2> QED
    BY <2>2, <2>3
<1>4. <<c>> \in Seq(SafeCalls)
  BY <1>3
<1>5. PICK by : by = Top(r)
  OBVIOUS
<1>6. Careful(<<c>>, by)
  BY <1>1, <1>2, <1>5 DEF Careful, Writes, Quits
<1> QED
  BY <1>1, <1>2, <1>4, <1>5, <1>6, ReadStands

LEMMA AwardStands ==
    ASSUME IInv, NEW r \in Request, Fresh(calls[r]), Award(r)
    PROVE  Fresh(calls[r])' /\ Stands
<1>1. ~Idle(r) /\ Top(r).op = "Forfeit" /\ UNCHANGED bracket
  BY DEF Award, Running
<1>2. CASE Top(r).todo = {}
  BY <1>1, <1>2, NoCallStands DEF Award
<1>3. CASE Top(r).todo # {}
  <2>1. PICK c \in SafeCalls : c = Top(r)
    BY <1>1, TopSafe
  <2>2. PICK x \in c.todo :
          Return(r, <<Call("Walkover", x[1], x[2]), [c EXCEPT !.todo = @ \ {x}]>>)
    BY <1>3, <2>1 DEF Award
  <2>3. Call("Walkover", x[1], x[2]) \in SafeCalls
    <3>1. x[1] \in Match /\ x[2] \in Draw[x[1]]
      BY DEF SafeCalls, Calls
    <3> QED
      BY <3>1, CallSafe DEF Op
  <2>4. [c EXCEPT !.todo = @ \ {x}] \in SafeCalls /\ [c EXCEPT !.todo = @ \ {x}].op = "Forfeit"
    BY <1>1, <2>1 DEF SafeCalls, Calls
  <2>5. PICK walkover, rest : /\ walkover = Call("Walkover", x[1], x[2])
                              /\ rest = [c EXCEPT !.todo = @ \ {x}]
    OBVIOUS
  <2>6. walkover.op = "Walkover" /\ rest.op = "Forfeit"
    BY <2>4, <2>5 DEF Call
  <2>7. <<walkover, rest>> \in Seq(SafeCalls)
    BY <2>3, <2>4, <2>5
  <2>8. Careful(<<walkover, rest>>, c)
    BY <1>1, <2>1, <2>6 DEF Careful, Writes, Quits
  <2>9. Return(r, <<walkover, rest>>)
    BY <2>2, <2>5
  <2> QED
    BY <1>1, <2>1, <2>7, <2>8, <2>9, ReadStands
<1> QED
  BY <1>2, <1>3

(* A request begins with a write only of an open match.                    *)
LEMMA BeginStands ==
    ASSUME IInv, NEW r \in Request, UNCHANGED bracket, NEW c, Begin(r, c),
           c.op \in Writes => ~Done(c.m)
    PROVE  Fresh(calls[r])' /\ Stands
<1>1. calls'[r] = <<c>>
  BY DEF IInv, TypeOK, Begin
<1>2. PICK s : s = <<c>>
  OBVIOUS
<1>3. c.op \in Writes => ~Done(c.m)'
  BY DEF bracket, Done
<1>4. "Complete" \in Writes
  BY DEF Writes
<1>5. Fresh(s)'
  <2>1. Len(s) = 1 /\ s[1] = c
    BY <1>2
  <2> QED
    BY <1>3, <1>4, <2>1 DEF Fresh
<1>6. Stands
  BY DEF bracket, Stands, Done
<1> QED
  BY <1>1, <1>2, <1>5, <1>6

(* What stands while a request runs alone, whatever it does.               *)
Settled(r) == Request = {r} /\ IInv /\ Fresh(calls[r])

LEMMA ResultStep ==
    ASSUME NEW r, Settled(r), [NextStep]_vars
    PROVE  Settled(r)' /\ (resets' = resets => Stands)
<1>1. r \in Request /\ IInv /\ Fresh(calls[r]) /\ (\A q \in Request : q = r)
  BY DEF Settled
<1>2. IInv'
  BY <1>1, NextSafe
<1>3. ASSUME Step(r)
      PROVE  Fresh(calls[r])' /\ Stands
  BY <1>1, <1>2, <1>3, CompleteStands, HandleStands, AdvanceStands, FillStands,
     ResolveStands, WalkoverStands, SettleStands, CheckStands, CreateDeciderStands,
     CrownStands, StartStands, ListStands, AwardStands DEF Step
<1>4. \A op, m, p : Call(op, m, p).op = op /\ Call(op, m, p).m = m
  BY DEF Call
<1>5. ASSUME NEW m \in Match, NEW w \in Player, SubmitResult(r, m, w)
      PROVE  Fresh(calls[r])' /\ Stands
  <2>1. UNCHANGED bracket /\ Begin(r, Call("Complete", m, w)) /\ ~Done(m)
    BY <1>5 DEF SubmitResult, Done
  <2> QED
    BY <1>1, <1>4, <2>1, BeginStands
<1>6. ASSUME NEW m \in Match, StartMatch(r, m)
      PROVE  Fresh(calls[r])' /\ Stands
  <2>1. UNCHANGED bracket /\ Begin(r, Call("Start", m, NoPlayer)) /\ ~Done(m)
    BY <1>6 DEF StartMatch, Done
  <2> QED
    BY <1>1, <1>4, <2>1, BeginStands
<1>7. ASSUME NEW p \in Player, ForfeitParticipant(r, p)
      PROVE  Fresh(calls[r])' /\ Stands
  <2>1. UNCHANGED bracket /\ Begin(r, Call("List", NoMatch, p))
    BY <1>7 DEF ForfeitParticipant
  <2>2. "List" \notin Writes
    BY DEF Writes
  <2> QED
    BY <1>1, <1>4, <2>1, <2>2, BeginStands
<1>8. ASSUME NEW m \in Match, Reset(r, m)
      PROVE  Fresh(calls[r])' /\ resets' # resets
  <2>1. calls'[r] = <<>>
    BY <1>8 DEF Reset, Idle
  <2>2. resets \in Nat /\ resets' = resets + 1
    BY <1>1, <1>8 DEF IInv, TypeOK, Reset
  <2> QED
    BY <2>1, <2>2, EmptyFresh
<1>9. ASSUME UNCHANGED vars
      PROVE  Fresh(calls[r])' /\ Stands
  BY <1>1, <1>9 DEF vars, Fresh, Stands, Done
<1>10. Request' = Request
  OBVIOUS
<1> QED
  BY <1>1, <1>2, <1>3, <1>5, <1>6, <1>7, <1>8, <1>9, <1>10 DEF NextStep, Settled

(* One request at a time, single or double elimination, forfeits and       *)
(* starts on the way: only a reset changes the winner, the players or the  *)
(* status of a completed match (submitResult, completeAsWalkover,          *)
(* advanceWinner, advanceLoser, startMatch, settleLosersStarvation).       *)
THEOREM RecordedResultsStand ==
    ASSUME NEW r, Request = {r} PROVE Spec => ResultStandsUntilReset
<1>1. Init => Settled(r)
  BY InitSafe, InitFresh DEF Settled
<1>2. Settled(r) /\ [NextStep]_vars => Settled(r)'
  BY ResultStep
<1>3. Settled(r) /\ [NextStep]_vars =>
         [resets' = resets =>
             \A m \in Match : Done(m) =>
                status'[m] = "COMPLETED" /\ winner'[m] = winner[m]
                   /\ slots'[m] = slots[m]]_vars
  BY ResultStep DEF Stands
<1> QED
  BY <1>1, <1>2, <1>3, PTL DEF Spec, ResultStandsUntilReset

---------------------------------------------------------------------------
(***************************************************************************)
(* One request at a time, from the first bye to the champion               *)
(***************************************************************************)

(* A cascade follows the links: what a call does first lies behind, in the *)
(* order of the links, what it has left to do.  So when a player is to be  *)
(* moved into a match, nothing has happened to that match meanwhile.       *)

OneByOne == ~HalfFilled /\ LosersBracket

Fed == Match \ (FirstRound \cup {Decider})
Ready(m) == m \in Fed => \A f \in Feeders(m) : Done(f)

Moves     == {"Advance", "Fill1", "Fill2"}
Completes == {"Complete", "CompleteBye", "Walkover"}
Verdicts  == {"Check", "CreateDecider", "Crown"}

(* What the rows of the matches say together, at every step.               *)
FedRow(d) ==
    /\ Present(d) \subseteq DeliveredTo(d)
    /\ Full(d) => slots[d][1] # slots[d][2]
    /\ status[d] # "PENDING" => Ready(d)
    /\ bye[d] => status[d] # "PENDING"

PlayedRow(m) ==
    /\ status[m] = "ABSENT" => m = Decider
    /\ ~Done(m) => winner[m] = NoPlayer
    /\ winner[m] \in Present(m) \cup {NoPlayer}
    /\ Done(m) /\ winner[m] = NoPlayer => Present(m) = {}
    /\ m \in FirstRound => slots[m] = Entrants[m]

Rows == (\A d \in Fed : FedRow(d)) /\ (\A m \in Match : PlayedRow(m))

(* The reset match is there when the grand final calls for it, with the    *)
(* same two players; and a tournament that is over has been decided.       *)
CallsForReset ==
    /\ Double /\ Done(GrandFinal) /\ winner[GrandFinal] # NoPlayer
    /\ GrandFinalReset
    /\ WinnersFinalist # NoPlayer /\ winner[GrandFinal] # WinnersFinalist

DeciderRow ==
    Double /\ status[Decider] # "ABSENT" =>
        CallsForReset /\ \A i \in 1..2 : slots[Decider][i] = slots[GrandFinal][i]

Decisive(p) ==
    /\ p # NoPlayer
    /\ ~Double => \E m \in Match : Next[m] = NoMatch /\ Done(m) /\ winner[m] = p
    /\ Double /\ status[Decider] = "ABSENT" =>
          Done(GrandFinal) /\ winner[GrandFinal] = p /\ ~CallsForReset
    /\ Double /\ status[Decider] # "ABSENT" => Done(Decider) /\ winner[Decider] = p

(* What a call may rely on.                                                *)
WinnerOK(c) ==
    /\ Ready(c.m) /\ status[c.m] # "ABSENT"
    /\ c.p \in Present(c.m) \cup {NoPlayer}
    /\ c.p = NoPlayer => Present(c.m) = {}

MoveOK(c) ==
    /\ c.m \in Fed /\ status[c.m] = "PENDING"
    /\ c.p \in DeliveredTo(c.m)
    /\ c.op # "Advance" => c.p \notin Present(c.m)
    /\ c.op = "Fill1" => slots[c.m][1] = NoPlayer
    /\ c.op = "Fill2" => slots[c.m][2] = NoPlayer

AwardOK(x) == Full(x[1]) /\ status[x[1]] # "ABSENT" /\ x[2] \in Present(x[1])

CallOK(c) ==
    /\ c.op \in Completes => WinnerOK(c)
    /\ c.op = "Start" => Ready(c.m) /\ status[c.m] # "ABSENT"
    /\ c.op = "Resolve" => status[c.m] # "ABSENT"
    /\ c.op = "Handle" => /\ Done(c.m) /\ winner[c.m] # NoPlayer
                          /\ \A d \in Destinations(c.m) : status[d] = "PENDING"
    /\ c.op \in Moves => MoveOK(c)
    /\ c.op = "CreateDecider" => /\ status[Decider] = "ABSENT" /\ CallsForReset
                                 /\ c.p = slots[GrandFinal][1] /\ c.q = slots[GrandFinal][2]
    /\ c.op = "Crown" => Decisive(c.p)
    /\ c.op = "Forfeit" => \A x \in c.todo : AwardOK(x)

(* The order of a stack: b waits while a runs.                             *)
Above(a, b) ==
    /\ b.op \in {"Complete", "Advance", "Settle", "Check", "Forfeit"}
    /\ b.op = "Advance" => \/ a.op \in Verdicts
                           \/ a.op \notin Quits /\ Rank[b.m] < Rank[a.m]

Ordered(s) == \A i, j \in 1..Len(s) : i < j => Above(s[i], s[j])

On(s) == {s[i] : i \in 1..Len(s)}

(* What a feeder has to hand on is there, or a call will bring it.         *)
Owes(c, f, d) ==
    \/ c.op = "Handle" /\ c.m = f
    \/ c.op \in Moves /\ c.m = d /\ c.p = Delivers(f, d)

Brought(S, f, d) ==
    Delivers(f, d) \in Present(d) \cup {NoPlayer} \/ \E c \in S : Owes(c, f, d)

(* A match that can be played has a player, or will be looked after.       *)
Tends(c, d) ==
    \/ c.op \in Moves \cup {"Settle", "CompleteBye"} /\ c.m = d
    \/ c.op = "Handle" /\ c.m \in Feeders(d)

Tended(S, d) ==
    Ready(d) => Done(d) \/ Present(d) # {} \/ \E c \in S : Tends(c, d)

Stack(s) ==
    /\ Ordered(s)
    /\ \A c \in On(s) : CallOK(c)
    /\ \A d \in Fed : \A f \in Feeders(d) : Brought(On(s), f, d)
    /\ MaxResets = 0 => \A d \in Fed : Tended(On(s), d)

Table == Rows /\ DeciderRow /\ (over => Decisive(champion))

Cascade(r) == Settled(r) /\ OneByOne /\ Table /\ Stack(calls[r])

---------------------------------------------------------------------------
(* What the shape of the bracket says of a link.                           *)
LEMMA Links ==
    ASSUME LosersBracket, NEW m \in Match
    PROVE  /\ Next[m] # NoMatch => /\ Next[m] \in Fed /\ m \in Feeders(Next[m])
                                   /\ Rank[m] < Rank[Next[m]]
           /\ LoserNext[m] # NoMatch =>
                 /\ Double /\ LoserNext[m] \in Fed /\ m \in Feeders(LoserNext[m])
                 /\ Rank[m] < Rank[LoserNext[m]]
                 /\ Next[m] # NoMatch /\ Rank[LoserNext[m]] < Rank[Next[m]]
<1>1. Next[m] # NoMatch => Next[m] \in Match /\ m \in Feeders(Next[m]) /\ Rank[m] < Rank[Next[m]]
  BY WiringAssumption, ShapeAssumption DEF Feeders
<1>2. LoserNext[m] # NoMatch => LoserNext[m] \in Match /\ m \in Feeders(LoserNext[m])
  BY WiringAssumption DEF Feeders
<1>3. \A d \in Match : Feeders(d) # {} => d \in Fed
  <2> SUFFICES ASSUME NEW d \in Match, Feeders(d) # {}
               PROVE  d \in Fed
    OBVIOUS
  <2>1. d \notin FirstRound
    BY WiringAssumption
  <2>2. d # Decider
    <3> SUFFICES ASSUME d = Decider
                 PROVE  FALSE
      OBVIOUS
    <3>1. Double
      BY ShapeAssumption
    <3>2. PICK f \in Match : Next[f] = Decider \/ LoserNext[f] = Decider
      BY DEF Feeders
    <3>3. GrandFinal # Decider /\ Decider # NoMatch /\ Decider \notin Winners
      BY <3>1, WiringAssumption, ShapeAssumption
    <3>4. f \in Winners \/ f \in Losers \/ f \in {GrandFinal, Decider}
      BY DEF Losers
    <3>5. Decider \notin Losers
      BY DEF Losers
    <3> QED
      BY <3>1, <3>2, <3>3, <3>4, <3>5, ShapeAssumption
  <2> QED
    BY <2>1, <2>2 DEF Fed
<1>4. LoserNext[m] # NoMatch => Double /\ m \in Winners
  <2> SUFFICES ASSUME LoserNext[m] # NoMatch
               PROVE  Double /\ m \in Winners
    OBVIOUS
  <2>1. Double
    BY ShapeAssumption
  <2>2. m \in Winners \/ m \in Losers \/ m \in {GrandFinal, Decider}
    BY DEF Losers
  <2> QED
    BY <2>1, <2>2, ShapeAssumption
<1>5. Double /\ m \in Winners =>
         /\ Next[m] \in Winners \cup {GrandFinal}
         /\ Rank[m] < Rank[LoserNext[m]] /\ Rank[LoserNext[m]] < Rank[Next[m]]
  BY ShapeAssumption
<1>6. Double => NoMatch \notin Winners \cup {GrandFinal}
  BY WiringAssumption
<1> QED
  BY <1>1, <1>2, <1>3, <1>4, <1>5, <1>6

(* The grand final and who comes into it undefeated.                       *)
LEMMA Finalists ==
    ASSUME LosersBracket, Double
    PROVE  /\ GrandFinal \in Fed /\ Decider \in Match \ Fed
           /\ \E f \in Feeders(GrandFinal) \cap Winners :
                 /\ Next[f] = GrandFinal /\ WinnersFinalist = winner[f]
                 /\ \A g \in Winners : Next[g] = GrandFinal => g = f
<1>1. GrandFinal \in Fed /\ Decider \in Match \ Fed
  BY WiringAssumption, ShapeAssumption DEF Fed
<1>2. PICK f \in Winners : \A g \in Winners : Next[g] = GrandFinal <=> g = f
  BY ShapeAssumption
<1>3. (CHOOSE g \in Winners : Next[g] = GrandFinal) = f
  BY <1>2
<1>4. f \in Feeders(GrandFinal) /\ Next[f] = GrandFinal
  BY <1>2, WiringAssumption DEF Feeders
<1> QED
  BY <1>1, <1>2, <1>3, <1>4 DEF WinnersFinalist

(* The calls on a stack.                                                   *)
LEMMA OnBoth ==
    ASSUME NEW S, NEW a \in Seq(S), NEW b \in Seq(S)
    PROVE  On(a \o b) = On(a) \cup On(b)
<1> DEFINE t == a \o b
<1>1. Len(t) = Len(a) + Len(b) /\ Len(a) \in Nat /\ Len(b) \in Nat
  OBVIOUS
<1>2. \A i \in 1..Len(a) : i \in 1..Len(t) /\ t[i] = a[i]
  BY <1>1
<1>3. \A i \in 1..Len(b) : i + Len(a) \in 1..Len(t) /\ t[i + Len(a)] = b[i]
  BY <1>1
<1>4. \A i \in 1..Len(t) : \/ i \in 1..Len(a) /\ t[i] = a[i]
                           \/ i - Len(a) \in 1..Len(b) /\ t[i] = b[i - Len(a)]
  BY <1>1
<1> HIDE DEF t
<1>5. On(t) \subseteq On(a) \cup On(b)
  BY <1>4 DEF On
<1>6. On(a) \subseteq On(t)
  BY <1>2 DEF On
<1>7. On(b) \subseteq On(t)
  BY <1>3 DEF On
<1>8. On(t) = On(a) \cup On(b)
  BY <1>5, <1>6, <1>7
<1> QED
  BY <1>8 DEF t

LEMMA OrderedBoth ==
    ASSUME NEW S, NEW a \in Seq(S), NEW b \in Seq(S), Ordered(a), Ordered(b),
           \A c \in On(a), d \in On(b) : Above(c, d)
    PROVE  Ordered(a \o b)
<1> DEFINE t == a \o b
<1>1. Len(t) = Len(a) + Len(b) /\ Len(a) \in Nat /\ Len(b) \in Nat
  OBVIOUS
<1>2. \A i \in 1..Len(t) : \/ i \in 1..Len(a) /\ t[i] = a[i]
                           \/ i > Len(a) /\ i - Len(a) \in 1..Len(b) /\ t[i] = b[i - Len(a)]
  BY <1>1
<1> HIDE DEF t
<1> SUFFICES ASSUME NEW i \in 1..Len(t), NEW j \in 1..Len(t), i < j
             PROVE  Above(t[i], t[j])
  BY DEF Ordered, t
<1>3. CASE i \in 1..Len(a) /\ t[i] = a[i] /\ j \in 1..Len(a) /\ t[j] = a[j]
  BY <1>3 DEF Ordered
<1>4. CASE i \in 1..Len(a) /\ t[i] = a[i] /\ j - Len(a) \in 1..Len(b) /\ t[j] = b[j - Len(a)]
  BY <1>4 DEF On
<1>5. CASE /\ i - Len(a) \in 1..Len(b) /\ t[i] = b[i - Len(a)]
           /\ j - Len(a) \in 1..Len(b) /\ t[j] = b[j - Len(a)]
  <2>1. i - Len(a) < j - Len(a)
    BY <1>1
  <2> QED
    BY <1>5, <2>1 DEF Ordered
<1> QED
  BY <1>1, <1>2, <1>3, <1>4, <1>5

LEMMA TailOf ==
    ASSUME NEW S, NEW s \in Seq(S), s # <<>>
    PROVE  /\ Tail(s) \in Seq(S) /\ s[1] \in On(s)
           /\ On(Tail(s)) = {s[i] : i \in 2..Len(s)}
           /\ On(s) = {s[1]} \cup On(Tail(s))
           /\ Ordered(s) => Ordered(Tail(s)) /\ \A c \in On(Tail(s)) : Above(s[1], c)
<1>0. Tail(s) \in Seq(S)
  OBVIOUS
<1> PICK t \in Seq(S) : t = Tail(s)
  BY <1>0
<1>1. Len(s) \in Nat /\ Len(s) > 0 /\ Len(t) = Len(s) - 1
  OBVIOUS
<1>2. \A i \in 1..Len(t) : i + 1 \in 2..Len(s) /\ i + 1 \in 1..Len(s) /\ t[i] = s[i + 1]
  BY <1>1
<1>3. \A i \in 2..Len(s) : i - 1 \in 1..Len(t) /\ i \in 1..Len(s) /\ t[i - 1] = s[i]
  BY <1>1
<1>4. 1 \in 1..Len(s) /\ \A i \in 1..Len(s) : i = 1 \/ i \in 2..Len(s)
  BY <1>1
<1>5. On(t) = {s[i] : i \in 2..Len(s)}
  BY <1>2, <1>3 DEF On
<1>6. On(s) = {s[1]} \cup On(t) /\ s[1] \in On(s)
  BY <1>3, <1>4, <1>5 DEF On
<1>7. ASSUME Ordered(s)
      PROVE  Ordered(t) /\ \A c \in On(t) : Above(s[1], c)
  <2>1. \A i, j \in 1..Len(t) : i < j => i + 1 < j + 1
    OBVIOUS
  <2>2. Ordered(t)
    BY <1>2, <1>7, <2>1 DEF Ordered
  <2>3. \A i \in 2..Len(s) : 1 < i /\ i \in 1..Len(s)
    BY <1>1
  <2>4. \A c \in On(t) : Above(s[1], c)
    BY <1>4, <1>5, <1>7, <2>3 DEF Ordered
  <2> QED
    BY <2>2, <2>4
<1> QED
  BY <1>5, <1>6, <1>7

---------------------------------------------------------------------------
(* A step of a running request touches one match at most, takes nobody out *)
(* of a match and undoes nothing.                                          *)
Onward(m) ==
    /\ Stands
    /\ \A x \in Match : x # m =>
          /\ status'[x] = status[x] /\ slots'[x] = slots[x]
          /\ winner'[x] = winner[x] /\ bye'[x] = bye[x]
    /\ \A x \in Match : status[x] # "ABSENT" =>
          status'[x] # "ABSENT" /\ (Full(x) => slots'[x] = slots[x])
    /\ \A x \in Fed : Present(x) \subseteq Present(x)'

LEMMA FedMatches == Fed \subseteq Match /\ FirstRound \subseteq Match /\ \A d : Feeders(d) \subseteq Match
  BY WiringAssumption DEF Fed, Feeders

LEMMA DeliversStay ==
    ASSUME Stands, NEW f \in Match, NEW d, Delivers(f, d) # NoPlayer
    PROVE  Delivers(f, d)' = Delivers(f, d)
<1>1. Done(f) /\ winner[f] # NoPlayer
  BY DEF Delivers
<1>2. status'[f] = "COMPLETED" /\ winner'[f] = winner[f] /\ slots'[f] = slots[f]
  BY <1>1 DEF Stands
<1> QED
  BY <1>1, <1>2 DEF Delivers, Opponent, Done

LEMMA DeliveredGrows ==
    ASSUME Stands, NEW d
    PROVE  DeliveredTo(d) \subseteq DeliveredTo(d)'
<1> SUFFICES ASSUME NEW p \in DeliveredTo(d)
             PROVE  p \in DeliveredTo(d)'
  OBVIOUS
<1>1. PICK f \in Feeders(d) : p = Delivers(f, d) /\ p # NoPlayer
  BY DEF DeliveredTo
<1>2. f \in Match
  BY DEF Feeders
<1>3. Delivers(f, d)' = p
  BY <1>1, <1>2, DeliversStay
<1>4. Feeders(d)' = Feeders(d)
  BY DEF Feeders
<1> QED
  BY <1>1, <1>3, <1>4 DEF DeliveredTo

LEMMA ReadyStays ==
    ASSUME Stands, NEW m, Ready(m)
    PROVE  Ready(m)'
<1>1. \A f \in Feeders(m) : Done(f) => Done(f)'
  BY FedMatches DEF Stands, Done
<1> QED
  BY <1>1 DEF Ready, Fed, Feeders, FirstRound

(* A waiting call may still rely on what it relied on.                     *)
LEMMA CallStays ==
    ASSUME NEW m, Onward(m), NEW c \in SafeCalls, CallOK(c),
           c.op \in {"Complete", "Advance", "Settle", "Check", "Forfeit"},
           c.op \in {"Complete", "Advance"} => c.m # m
    PROVE  CallOK(c)'
<1>1. CASE c.op = "Complete"
  <2>1. c.m \in Match /\ c.m # m
    BY <1>1 DEF SafeCalls
  <2>2. WinnerOK(c)
    BY <1>1 DEF CallOK, Completes
  <2>3. Ready(c.m)' /\ Present(c.m)' = Present(c.m) /\ status'[c.m] # "ABSENT"
    BY <2>1, <2>2, ReadyStays DEF Onward, WinnerOK, Present
  <2>4. WinnerOK(c)'
    BY <2>2, <2>3 DEF WinnerOK
  <2> QED
    BY <1>1, <2>4 DEF CallOK, Moves, Completes
<1>2. CASE c.op = "Advance"
  <2>1. c.m \in Match /\ c.m # m
    BY <1>2 DEF SafeCalls
  <2>2. MoveOK(c)
    BY <1>2 DEF CallOK, Moves
  <2>3. status'[c.m] = status[c.m] /\ DeliveredTo(c.m) \subseteq DeliveredTo(c.m)'
    BY <2>1, DeliveredGrows DEF Onward
  <2>4. MoveOK(c)'
    BY <1>2, <2>2, <2>3 DEF MoveOK, Fed, FirstRound
  <2> QED
    BY <1>2, <2>4 DEF CallOK, Moves, Completes
<1>3. CASE c.op = "Forfeit"
  <2>1. \A x \in c.todo : x[1] \in Match /\ AwardOK(x)
    BY <1>3 DEF CallOK, SafeCalls, Calls
  <2>2. \A x \in c.todo : AwardOK(x)'
    <3> SUFFICES ASSUME NEW x \in c.todo
                 PROVE  AwardOK(x)'
      OBVIOUS
    <3>1. slots'[x[1]] = slots[x[1]] /\ status'[x[1]] # "ABSENT"
      BY <2>1 DEF Onward, AwardOK
    <3> QED
      BY <2>1, <3>1 DEF AwardOK, Full, Present
  <2> QED
    BY <1>3, <2>2 DEF CallOK, Moves, Completes
<1>4. CASE c.op \in {"Settle", "Check"}
  BY <1>4 DEF CallOK, Moves, Completes
<1> QED
  BY <1>1, <1>2, <1>3, <1>4

(* What a call makes may take its place on the stack.                      *)
Follows(a, c) ==
    \/ a.op \in Verdicts
    \/ c.op \in Quits
    \/ c.op \notin Verdicts /\ a.op \notin Quits /\ Rank[c.m] <= Rank[a.m]

(* What it makes keeps what it owed.                                       *)
TakesOver(S, c) ==
    /\ \A d \in Fed : \A f \in Feeders(d) :
          Delivers(f, d) \in Present(d) \cup {NoPlayer} \/ Owes(c, f, d)
              => Brought(S, f, d)'
    /\ \A d \in Fed : Tends(c, d) \/ ~Ready(d) => Tended(S, d)'

LEMMA RankOrder ==
    ASSUME NEW a \in Match, NEW b \in Match, NEW c \in Match,
           Rank[a] < Rank[b], Rank[b] <= Rank[c]
    PROVE  Rank[a] < Rank[c]
<1>1. Rank[a] \in Nat /\ Rank[b] \in Nat /\ Rank[c] \in Nat
  BY ShapeAssumption
<1> QED
  BY <1>1

LEMMA StackAfter ==
    ASSUME NEW s \in Seq(SafeCalls), s # <<>>, Fresh(s), Stack(s), NEW m, Onward(m),
           NEW made \in Seq(SafeCalls), Ordered(made),
           \A a \in On(made) : CallOK(a)' /\ Follows(a, s[1]),
           TakesOver(On(made), s[1]),
           \/ m = s[1].m /\ s[1].op \notin Verdicts \cup Quits
           \/ m \notin Fed \cup FirstRound
    PROVE  Stack(made \o Tail(s))'
<1> PICK rest \in Seq(SafeCalls) : rest = Tail(s)
  BY TailOf
<1> PICK c \in SafeCalls : c = s[1]
  BY TailOf
<1> PICK t : t = made \o rest
  OBVIOUS
<1>1. /\ On(rest) = {s[i] : i \in 2..Len(s)} /\ On(s) = {c} \cup On(rest)
      /\ Ordered(rest) /\ \A b \in On(rest) : Above(c, b)
  BY TailOf DEF Stack
<1>2. On(t) = On(made) \cup On(rest)
  BY OnBoth
<1>3. On(rest) \subseteq SafeCalls /\ On(made) \subseteq SafeCalls
  BY DEF On
<1>4. ASSUME NEW b \in On(rest)
      PROVE  b.op \in {"Complete", "Advance"} => b.m # m
  <2>1. PICK i \in 2..Len(s) : b = s[i]
    BY <1>1
  <2>2. Above(c, b) /\ CallOK(b) /\ b \in SafeCalls
    BY <1>1, <1>3 DEF Stack
  <2>3. CASE b.op = "Complete"
    <3>1. b.m \in FirstRound
      BY <2>1, <2>3 DEF Fresh, Writes
    <3>2. 1 \in 1..Len(s) /\ i \in 1..Len(s) /\ 1 < i
      OBVIOUS
    <3>3. c.m # b.m
      BY <2>1, <2>3, <3>2 DEF Fresh
    <3> QED
      BY <3>1, <3>3
  <2>4. CASE b.op = "Advance"
    <3>1. b.m \in Fed
      BY <2>2, <2>4 DEF CallOK, Moves, MoveOK
    <3>2. CASE m \notin Fed \cup FirstRound
      BY <3>1, <3>2
    <3>3. CASE m = c.m /\ c.op \notin Verdicts \cup Quits
      <4>1. c.m \in Match /\ b.m \in Match
        BY <3>1, <3>3, FedMatches DEF SafeCalls, Quits
      <4>2. Rank[b.m] < Rank[c.m]
        BY <2>2, <2>4, <3>3 DEF Above
      <4>3. Rank[c.m] \in Nat
        BY <4>1, ShapeAssumption
      <4> QED
        BY <3>3, <4>2, <4>3
    <3> QED
      BY <3>2, <3>3
  <2> QED
    BY <2>3, <2>4
<1>5. \A b \in On(rest) : CallOK(b)'
  <2> SUFFICES ASSUME NEW b \in On(rest)
               PROVE  CallOK(b)'
    OBVIOUS
  <2>1. b \in SafeCalls /\ CallOK(b) /\ Above(c, b)
    BY <1>1, <1>3 DEF Stack
  <2> QED
    BY <1>4, <2>1, CallStays DEF Above
<1>6. ASSUME NEW a \in On(made), NEW b \in On(rest)
      PROVE  Above(a, b)
  <2>1. Above(c, b) /\ Follows(a, c) /\ a \in SafeCalls /\ b \in SafeCalls
    BY <1>1, <1>3
  <2>2. CASE b.op # "Advance"
    BY <2>1, <2>2 DEF Above
  <2>3. CASE b.op = "Advance" /\ a.op \in Verdicts
    BY <2>3 DEF Above
  <2>4. CASE b.op = "Advance" /\ a.op \notin Verdicts
    <3>1. c.op \notin Verdicts \cup Quits /\ a.op \notin Quits
      BY <2>1, <2>4 DEF Above, Follows, Verdicts, Quits
    <3>2. Rank[b.m] < Rank[c.m] /\ Rank[c.m] <= Rank[a.m]
      BY <2>1, <2>4, <3>1 DEF Above, Follows
    <3>3. a.m \in Match /\ b.m \in Match /\ c.m \in Match
      BY <2>1, <2>4, <3>1 DEF SafeCalls, Quits
    <3> QED
      BY <2>4, <3>1, <3>2, <3>3, RankOrder DEF Above
  <2> QED
    BY <2>2, <2>3, <2>4
<1>7. Ordered(t)
  BY <1>1, <1>6, OrderedBoth
<1>8. ASSUME NEW d \in Fed, NEW f \in Feeders(d)
      PROVE  Brought(On(t), f, d)'
  <2>1. Brought(On(s), f, d)
    BY DEF Stack
  <2>2. CASE Delivers(f, d) \in Present(d) \cup {NoPlayer} \/ Owes(c, f, d)
    <3>1. Brought(On(made), f, d)'
      BY <2>2 DEF TakesOver
    <3> QED
      BY <1>2, <3>1 DEF Brought
  <2>3. CASE Delivers(f, d) # NoPlayer /\ \E b \in On(rest) : Owes(b, f, d)
    <3>1. PICK b \in On(rest) : Owes(b, f, d)
      BY <2>3
    <3>2. f \in Match
      BY DEF Feeders
    <3>3. Delivers(f, d)' = Delivers(f, d)
      BY <2>3, <3>2, DeliversStay DEF Onward
    <3>4. Owes(b, f, d)'
      BY <3>1, <3>3 DEF Owes
    <3> QED
      BY <1>2, <3>4 DEF Brought
  <2> QED
    BY <1>1, <2>1, <2>2, <2>3 DEF Brought
<1>9. ASSUME MaxResets = 0, NEW d \in Fed
      PROVE  Tended(On(t), d)'
  <2>1. Tended(On(s), d)
    BY <1>9 DEF Stack
  <2>2. CASE Tends(c, d) \/ ~Ready(d)
    <3>1. Tended(On(made), d)'
      BY <2>2 DEF TakesOver
    <3> QED
      BY <1>2, <3>1 DEF Tended
  <2>3. CASE Done(d) \/ Present(d) # {}
    <3>1. d \in Match
      BY FedMatches
    <3>2. Done(d)' \/ Present(d)' # {}
      BY <2>3, <3>1 DEF Onward, Stands, Done
    <3> QED
      BY <3>2 DEF Tended
  <2>4. CASE \E b \in On(rest) : Tends(b, d)
    <3>1. PICK b \in On(rest) : Tends(b, d)
      BY <2>4
    <3>2. Tends(b, d)'
      BY <3>1 DEF Tends, Feeders
    <3> QED
      BY <1>2, <3>2 DEF Tended
  <2> QED
    BY <1>1, <2>1, <2>2, <2>3, <2>4 DEF Tended
<1>10. Ordered(t)'
  BY <1>7 DEF Ordered, Above
<1>11. \A a \in On(t) : CallOK(a)'
  BY <1>2, <1>5
<1>12. On(t)' = On(t)
  BY DEF On
<1>13. Fed' = Fed /\ MaxResets' = MaxResets /\ \A d : Feeders(d)' = Feeders(d)
  BY DEF Fed, Feeders, FirstRound
<1>14. Stack(t)'
  BY <1>8, <1>9, <1>10, <1>11, <1>12, <1>13 DEF Stack
<1> QED
  BY <1>14

(* What a request can rely on when it runs.                                *)
LEMMA CascadeFacts ==
    ASSUME NEW r, Cascade(r)
    PROVE  /\ r \in Request /\ IInv /\ Fresh(calls[r]) /\ ~HalfFilled /\ LosersBracket
           /\ Rows /\ Stack(calls[r])
           /\ ~Idle(r) => Top(r) \in SafeCalls /\ CallOK(Top(r))
<1>1. r \in Request /\ IInv /\ Fresh(calls[r]) /\ ~HalfFilled /\ LosersBracket
          /\ Rows /\ Stack(calls[r])
  BY DEF Cascade, Settled, OneByOne, Table
<1>2. ASSUME ~Idle(r)
      PROVE  Top(r) \in SafeCalls /\ CallOK(Top(r))
  <2>1. calls[r] \in Seq(SafeCalls) /\ calls[r] # <<>>
    BY <1>1, <1>2 DEF IInv, Idle
  <2>2. PICK s \in Seq(SafeCalls) : s = calls[r] /\ s # <<>>
    BY <2>1
  <2>3. Top(r) = s[1] /\ s[1] \in On(s)
    BY <2>2, TailOf DEF Top
  <2>4. s[1] \in SafeCalls
    BY <2>2
  <2> QED
    BY <1>1, <2>2, <2>3, <2>4 DEF Stack
<1> QED
  BY <1>1, <1>2

LEMMA ReturnAfter ==
    ASSUME NEW r, Cascade(r), ~Idle(r), NEW m, Onward(m),
           NEW made \in Seq(SafeCalls), Return(r, made), Ordered(made),
           \A a \in On(made) : CallOK(a)' /\ Follows(a, Top(r)),
           TakesOver(On(made), Top(r)),
           \/ m = Top(r).m /\ Top(r).op \notin Verdicts \cup Quits
           \/ m \notin Fed \cup FirstRound
    PROVE  Stack(calls[r])'
<1>1. r \in Request /\ IInv /\ Fresh(calls[r]) /\ Stack(calls[r])
  BY CascadeFacts
<1>2. calls[r] \in Seq(SafeCalls) /\ calls[r] # <<>>
  BY <1>1 DEF IInv, Idle
<1>3. PICK s \in Seq(SafeCalls) : s = calls[r] /\ s # <<>>
  BY <1>2
<1>4. Top(r) = s[1]
  BY <1>3 DEF Top
<1>5. PICK t : t = made
  OBVIOUS
<1>6. calls'[r] = t \o Tail(s)
  BY <1>1, <1>3, <1>5 DEF IInv, Return
<1>7. Stack(t \o Tail(s))'
  BY <1>1, <1>3, <1>4, <1>5, StackAfter
<1> QED
  BY <1>6, <1>7

(* A call that only reads.                                                 *)
LEMMA SameRows ==
    ASSUME UNCHANGED bracket
    PROVE  /\ Onward(NoMatch)
           /\ Rows => Rows'
           /\ DeciderRow => DeciderRow'
           /\ \A p : Decisive(p) => Decisive(p)'
           /\ \A c : CallOK(c) => CallOK(c)'
           /\ \A S, f, d : Brought(S, f, d) => Brought(S, f, d)'
           /\ \A S, d : Tended(S, d) => Tended(S, d)'
<1> USE DEF bracket
<1>1. /\ \A x : Present(x)' = Present(x) /\ Done(x)' = Done(x) /\ Full(x)' = Full(x)
      /\ \A f, d : Delivers(f, d)' = Delivers(f, d)
      /\ \A d : Feeders(d)' = Feeders(d)
      /\ Fed' = Fed /\ FirstRound' = FirstRound
  BY DEF Present, Done, Full, Delivers, Opponent, Feeders, Fed, FirstRound
<1>2. /\ \A x : Ready(x)' = Ready(x)
      /\ \A d : DeliveredTo(d)' = DeliveredTo(d)
      /\ WinnersFinalist' = WinnersFinalist
  BY <1>1 DEF Ready, DeliveredTo, WinnersFinalist
<1>3. Onward(NoMatch)
  BY <1>1 DEF Onward, Stands, Done
<1>4. Rows => Rows'
  BY <1>1, <1>2 DEF Rows, FedRow, PlayedRow
<1>5. CallsForReset' = CallsForReset
  BY <1>1, <1>2 DEF CallsForReset
<1>6. DeciderRow => DeciderRow'
  BY <1>5 DEF DeciderRow
<1>7. \A p : Decisive(p) => Decisive(p)'
  BY <1>1, <1>5 DEF Decisive
<1>8. \A c : /\ WinnerOK(c)' = WinnerOK(c) /\ MoveOK(c)' = MoveOK(c)
             /\ AwardOK(c)' = AwardOK(c)
  BY <1>1, <1>2 DEF WinnerOK, MoveOK, AwardOK
<1>9. \A c : CallOK(c) => CallOK(c)'
  BY <1>1, <1>2, <1>5, <1>7, <1>8 DEF CallOK, Destinations
<1>10. \A S, f, d : Brought(S, f, d) => Brought(S, f, d)'
  BY <1>1 DEF Brought, Owes
<1>11. \A S, d : Tended(S, d) => Tended(S, d)'
  BY <1>1, <1>2 DEF Tended, Tends
<1> QED
  BY <1>3, <1>4, <1>6, <1>7, <1>9, <1>10, <1>11

LEMMA ReadOn ==
    ASSUME NEW r, Cascade(r), ~Idle(r), UNCHANGED bracket,
           NEW made \in Seq(SafeCalls), Return(r, made), Ordered(made),
           \A a \in On(made) : CallOK(a) /\ Follows(a, Top(r)),
           \A d \in Fed : \A f \in Feeders(d) : Owes(Top(r), f, d) => Brought(On(made), f, d),
           \A d \in Fed : Tends(Top(r), d) => Tended(On(made), d)
    PROVE  Stack(calls[r])' /\ Rows' /\ DeciderRow'
<1>1. Onward(NoMatch) /\ NoMatch \notin Fed \cup FirstRound
  BY SameRows, FedMatches, WiringAssumption
<1>2. Rows' /\ DeciderRow'
  BY SameRows DEF Cascade, Table
<1>3. \A a \in On(made) : CallOK(a)' /\ Follows(a, Top(r))
  BY SameRows
<1>4. PICK S : S = On(made)
  OBVIOUS
<1>5. TakesOver(S, Top(r))
  <2>1. ASSUME NEW d \in Fed, NEW f \in Feeders(d),
               Delivers(f, d) \in Present(d) \cup {NoPlayer} \/ Owes(Top(r), f, d)
        PROVE  Brought(S, f, d)'
    <3>1. Brought(S, f, d)
      BY <1>4, <2>1 DEF Brought
    <3> QED
      BY <3>1, SameRows
  <2>2. ASSUME NEW d \in Fed, Tends(Top(r), d) \/ ~Ready(d)
        PROVE  Tended(S, d)'
    <3>1. Tended(S, d)
      BY <1>4, <2>2 DEF Tended
    <3> QED
      BY <3>1, SameRows
  <2> QED
    BY <2>1, <2>2 DEF TakesOver
<1>6. Stack(calls[r])'
  BY <1>1, <1>3, <1>4, <1>5, ReturnAfter
<1> QED
  BY <1>2, <1>6

(* Nothing, or one call.                                                   *)
LEMMA OnUnless ==
    ASSUME NEW none, NEW c
    PROVE  /\ On(Unless(none, c)) = IF none THEN {} ELSE {c}
           /\ Ordered(Unless(none, c))
<1>1. CASE none
  <2>1. PICK t : t = Unless(none, c)
    OBVIOUS
  <2>2. Len(t) = 0 /\ 1..0 = {}
    BY <1>1, <2>1 DEF Unless
  <2>3. On(t) = {} /\ Ordered(t)
    BY <2>2 DEF On, Ordered
  <2> QED
    BY <1>1, <2>1, <2>3
<1>2. CASE ~none
  <2>1. Unless(none, c) = <<c>> /\ Len(<<c>>) = 1 /\ <<c>>[1] = c
    BY <1>2 DEF Unless
  <2> QED
    BY <1>2, <2>1 DEF On, Ordered
<1> QED
  BY <1>1, <1>2

LEMMA ReadOne ==
    ASSUME NEW r, Cascade(r), ~Idle(r), UNCHANGED bracket,
           NEW none, NEW c \in SafeCalls, Return(r, Unless(none, c)),
           ~none => CallOK(c) /\ Follows(c, Top(r)),
           \A d \in Fed : \A f \in Feeders(d) :
              Owes(Top(r), f, d) => \/ Delivers(f, d) \in Present(d) \cup {NoPlayer}
                                    \/ ~none /\ Owes(c, f, d),
           \A d \in Fed : Tends(Top(r), d) /\ Ready(d) =>
              Done(d) \/ Present(d) # {} \/ (~none /\ Tends(c, d))
    PROVE  Stack(calls[r])' /\ Rows' /\ DeciderRow'
<1> PICK made : made = Unless(none, c)
  OBVIOUS
<1>1. On(made) = (IF none THEN {} ELSE {c}) /\ Ordered(made) /\ made \in Seq(SafeCalls)
  BY OnUnless, UnlessSafe
<1>2. \A a \in On(made) : CallOK(a) /\ Follows(a, Top(r))
  BY <1>1
<1>3. \A d \in Fed : \A f \in Feeders(d) : Owes(Top(r), f, d) => Brought(On(made), f, d)
  BY <1>1 DEF Brought
<1>4. \A d \in Fed : Tends(Top(r), d) => Tended(On(made), d)
  BY <1>1 DEF Tended
<1> QED
  BY <1>1, <1>2, <1>3, <1>4, ReadOn

(* Two players of a match were delivered by two feeders, which are all.    *)
LEMMA FullReady ==
    ASSUME Rows, NEW m \in Match, Full(m)
    PROVE  Ready(m)
<1> SUFFICES ASSUME m \in Fed, NEW f \in Feeders(m)
             PROVE  Done(f)
  BY DEF Ready
<1>1. FedRow(m)
  BY DEF Rows
<1>2. PICK a, b : a = slots[m][1] /\ b = slots[m][2] /\ a # b /\ {a, b} \subseteq DeliveredTo(m)
  BY <1>1 DEF FedRow, Full, Present
<1>3. PICK g \in Feeders(m) : a = Delivers(g, m) /\ a # NoPlayer
  BY <1>2 DEF DeliveredTo
<1>4. PICK h \in Feeders(m) : b = Delivers(h, m) /\ b # NoPlayer
  BY <1>2 DEF DeliveredTo
<1>5. f = g \/ f = h
  BY <1>2, <1>3, <1>4, ShapeAssumption
<1> QED
  BY <1>3, <1>4, <1>5 DEF Delivers

(* So there is room for one who has been delivered and is not yet there.   *)
LEMMA RoomLeft ==
    ASSUME Rows, NEW d \in Fed, NEW p \in DeliveredTo(d), p \notin Present(d)
    PROVE  ~Full(d)
<1> SUFFICES ASSUME Full(d)
             PROVE  FALSE
  OBVIOUS
<1>1. FedRow(d) /\ d \in Match
  BY FedMatches DEF Rows
<1>2. PICK a, b : a = slots[d][1] /\ b = slots[d][2] /\ a # b /\ {a, b} \subseteq DeliveredTo(d)
                  /\ p # a /\ p # b
  BY <1>1 DEF FedRow, Full, Present, DeliveredTo
<1>3. PICK g \in Feeders(d) : a = Delivers(g, d)
  BY <1>2 DEF DeliveredTo
<1>4. PICK h \in Feeders(d) : b = Delivers(h, d)
  BY <1>2 DEF DeliveredTo
<1>5. PICK f \in Feeders(d) : p = Delivers(f, d)
  BY DEF DeliveredTo
<1> QED
  BY <1>1, <1>2, <1>3, <1>4, <1>5, ShapeAssumption

LEMMA CallFields ==
    \A op, m, p : /\ Call(op, m, p).op = op /\ Call(op, m, p).m = m /\ Call(op, m, p).p = p
                  /\ Call(op, m, p).todo = {}
  BY DEF Call

LEMMA SameRank == ASSUME NEW m \in Match PROVE Rank[m] <= Rank[m]
<1>1. Rank[m] \in Nat
  BY ShapeAssumption
<1> QED
  BY <1>1

LEMMA AdvanceGoesOn ==
    ASSUME NEW r, Cascade(r), Advance(r)
    PROVE  Stack(calls[r])' /\ Table'
<1> PICK c \in {Top(r)} : c = Top(r)
  OBVIOUS
<1>1. ~Idle(r) /\ c.op = "Advance" /\ UNCHANGED bracket /\ UNCHANGED <<over, champion>>
  BY DEF Advance, Running
<1>2. c \in SafeCalls /\ CallOK(c) /\ Rows /\ IInv /\ r \in Request
  BY <1>1, CascadeFacts
<1>3. MoveOK(c)
  BY <1>1, <1>2 DEF CallOK, Moves
<1> PICK d \in Fed : d = c.m
  BY <1>3 DEF MoveOK
<1> PICK p \in DeliveredTo(d) : p = c.p
  BY <1>3 DEF MoveOK
<1>4. d \in Match /\ p \in Draw[d] \cup {NoPlayer} /\ p # NoPlayer /\ status[d] = "PENDING"
  BY <1>1, <1>2, <1>3, FedMatches DEF SafeCalls, Quits, MoveOK, DeliveredTo
<1>5. /\ \A e, f : Owes(c, f, e) => e = d /\ p = Delivers(f, e)
      /\ \A e : Tends(c, e) => e = d
  BY <1>1 DEF Owes, Tends
<1>6. CASE p \in Present(d)
  <2> PICK x \in SafeCalls : x = c
    BY <1>2
  <2>1. Return(r, Unless(TRUE, x))
    BY <1>6 DEF Advance, Unless
  <2>2. \A e \in Fed : \A f \in Feeders(e) : Owes(c, f, e) => Delivers(f, e) \in Present(e)
    BY <1>5, <1>6
  <2>3. \A e \in Fed : Tends(c, e) => Present(e) # {}
    BY <1>5, <1>6
  <2>4. Stack(calls[r])' /\ Rows' /\ DeciderRow'
    BY <1>1, <2>1, <2>2, <2>3, ReadOne
  <2> QED
    BY <1>1, <2>4, SameRows DEF Table, Cascade
<1>7. CASE p \notin Present(d)
  <2>1. ~Full(d)
    BY <1>2, <1>7, RoomLeft
  <2> PICK op \in {"Fill1", "Fill2"} : op = IF slots[d][1] = NoPlayer THEN "Fill1" ELSE "Fill2"
    OBVIOUS
  <2> PICK x : x = Call(op, d, p)
    OBVIOUS
  <2>2. x \in SafeCalls /\ x.op = op /\ x.m = d /\ x.p = p
    BY <1>4, CallSafe, CallFields DEF Op
  <2>3. Return(r, Unless(FALSE, x))
    BY <1>4, <1>7, <2>1 DEF Advance, Unless
  <2>4. (op = "Fill1" => slots[d][1] = NoPlayer) /\ (op = "Fill2" => slots[d][2] = NoPlayer)
    BY <2>1 DEF Full
  <2>5. MoveOK(x)
    BY <1>4, <1>7, <2>2, <2>4 DEF MoveOK
  <2>6. CallOK(x)
    BY <2>2, <2>5 DEF CallOK, Moves, Completes
  <2>7. Follows(x, c)
    BY <1>1, <1>4, <2>2, SameRank DEF Follows, Verdicts, Quits
  <2>8. \A e \in Fed : \A f \in Feeders(e) : Owes(c, f, e) => Owes(x, f, e)
    BY <1>5, <2>2 DEF Owes, Moves
  <2>9. \A e \in Fed : Tends(c, e) => Tends(x, e)
    BY <1>5, <2>2 DEF Tends, Moves
  <2>10. Stack(calls[r])' /\ Rows' /\ DeciderRow'
    BY <1>1, <2>2, <2>3, <2>6, <2>7, <2>8, <2>9, ReadOne
  <2> QED
    BY <1>1, <2>10, SameRows DEF Table, Cascade
<1> QED
  BY <1>6, <1>7

(* A call that neither moves nor tends anybody, and makes one at most.     *)
LEMMA ReadAside ==
    ASSUME NEW r, Cascade(r), ~Idle(r), UNCHANGED bracket, UNCHANGED <<over, champion>>,
           NEW none, NEW c \in SafeCalls, Return(r, Unless(none, c)),
           ~none => CallOK(c) /\ Follows(c, Top(r)),
           Top(r).op \notin Moves \cup {"Handle", "Settle", "CompleteBye"}
    PROVE  Stack(calls[r])' /\ Table'
<1>1. /\ \A e, f : ~Owes(Top(r), f, e)
      /\ \A e : ~Tends(Top(r), e)
  BY DEF Owes, Tends
<1>2. Stack(calls[r])' /\ Rows' /\ DeciderRow'
  BY <1>1, ReadOne
<1> QED
  BY <1>2, SameRows DEF Table, Cascade

LEMMA ResolveGoesOn ==
    ASSUME NEW r, Cascade(r), Resolve(r)
    PROVE  Stack(calls[r])' /\ Table'
<1>1. ~Idle(r) /\ Top(r).op = "Resolve" /\ UNCHANGED bracket /\ UNCHANGED <<over, champion>>
  BY DEF Resolve, Running
<1>2. Top(r) \in SafeCalls /\ CallOK(Top(r)) /\ Rows /\ IInv /\ r \in Request
  BY <1>1, CascadeFacts
<1> PICK m \in Match : m = Top(r).m
  BY <1>1, <1>2 DEF SafeCalls, Quits
<1>3. status[m] # "ABSENT"
  BY <1>1, <1>2 DEF CallOK
<1> PICK i \in 1..2 : i = IF slots[m][1] \in out THEN 2 ELSE 1
  OBVIOUS
<1> DEFINE none == Done(m) \/ ~Full(m) \/ (slots[m][1] \in out <=> slots[m][2] \in out)
<1> PICK c : c = Call("Walkover", m, slots[m][i])
  OBVIOUS
<1>4. slots[m][i] \in Draw[m] \cup {NoPlayer}
  BY <1>2 DEF IInv, SlotsSafe
<1>5. c \in SafeCalls /\ c.op = "Walkover" /\ c.m = m /\ c.p = slots[m][i]
  BY <1>4, CallSafe, CallFields DEF Op
<1>6. Return(r, Unless(none, c))
  BY DEF Resolve
<1>7. ASSUME ~none
      PROVE  CallOK(c) /\ Follows(c, Top(r))
  <2>1. Full(m) /\ Ready(m)
    BY <1>2, <1>7, FullReady
  <2>2. slots[m][i] \in Present(m)
    BY <2>1 DEF Present, Full
  <2>3. WinnerOK(c)
    BY <1>3, <1>5, <2>1, <2>2 DEF WinnerOK, Present
  <2>4. CallOK(c)
    BY <1>5, <2>3 DEF CallOK, Moves, Completes
  <2> QED
    BY <1>1, <1>5, <2>4, SameRank DEF Follows, Verdicts, Quits
<1> HIDE DEF none
<1> QED
  BY <1>1, <1>5, <1>6, <1>7, ReadAside DEF Moves

LEMMA WalkoverGoesOn ==
    ASSUME NEW r, Cascade(r), Walkover(r)
    PROVE  Stack(calls[r])' /\ Table'
<1>1. ~Idle(r) /\ Top(r).op = "Walkover" /\ UNCHANGED bracket /\ UNCHANGED <<over, champion>>
  BY DEF Walkover, Running
<1>2. Top(r) \in SafeCalls /\ CallOK(Top(r)) /\ IInv /\ r \in Request
  BY <1>1, CascadeFacts
<1> PICK m \in Match : m = Top(r).m
  BY <1>1, <1>2 DEF SafeCalls, Quits
<1> PICK p \in Draw[m] \cup {NoPlayer} : p = Top(r).p
  BY <1>1, <1>2 DEF SafeCalls, Quits
<1> PICK c : c = Call("Complete", m, p)
  OBVIOUS
<1>3. c \in SafeCalls /\ c.op = "Complete" /\ c.m = m /\ c.p = p
  BY CallSafe, CallFields DEF Op
<1>4. WinnerOK(c)
  BY <1>1, <1>2, <1>3 DEF CallOK, Completes, WinnerOK
<1>5. CallOK(c)
  BY <1>3, <1>4 DEF CallOK, Moves, Completes
<1>6. Follows(c, Top(r))
  BY <1>1, <1>3, SameRank DEF Follows, Verdicts, Quits
<1>7. Return(r, Unless(Done(m), c))
  BY DEF Walkover
<1> QED
  BY <1>1, <1>3, <1>5, <1>6, <1>7, ReadAside DEF Moves

(* A match whose feeders are done and that misses a player is completed.   *)
LEMMA SettleGoesOn ==
    ASSUME NEW r, Cascade(r), Settle(r)
    PROVE  Stack(calls[r])' /\ Table'
<1>1. ~Idle(r) /\ Top(r).op = "Settle" /\ UNCHANGED bracket /\ UNCHANGED <<over, champion>>
  BY DEF Settle, Running
<1>2. Top(r) \in SafeCalls /\ Rows /\ IInv /\ r \in Request
  BY <1>1, CascadeFacts
<1> PICK m \in Match : m = Top(r).m
  BY <1>1, <1>2 DEF SafeCalls, Quits
<1> PICK p : p = IF slots[m][1] # NoPlayer THEN slots[m][1] ELSE slots[m][2]
  OBVIOUS
<1> DEFINE none == Done(m) \/ Full(m) \/ Feeders(m) = {} \/ \E f \in Feeders(m) : ~Done(f)
<1> PICK c : c = Call("CompleteBye", m, p)
  OBVIOUS
<1>3. p \in Draw[m] \cup {NoPlayer} /\ p \in Present(m) \cup {NoPlayer}
          /\ (p = NoPlayer => Present(m) = {})
  BY <1>2 DEF IInv, SlotsSafe, Present
<1>4. c \in SafeCalls /\ c.op = "CompleteBye" /\ c.m = m /\ c.p = p
  BY <1>3, CallSafe, CallFields DEF Op
<1>5. Return(r, Unless(none, c))
  BY DEF Settle
<1>6. ASSUME ~none
      PROVE  CallOK(c) /\ Follows(c, Top(r))
  <2>1. m # Decider
    BY <1>6, CascadeFacts, Finalists, WiringAssumption, ShapeAssumption, Links DEF Feeders
  <2>2. Ready(m) /\ status[m] # "ABSENT"
    BY <1>2, <1>6, <2>1 DEF Ready, Rows, PlayedRow
  <2>3. WinnerOK(c)
    BY <1>3, <1>4, <2>2 DEF WinnerOK
  <2>4. CallOK(c)
    BY <1>4, <2>3 DEF CallOK, Moves, Completes
  <2> QED
    BY <1>1, <1>4, <2>4, SameRank DEF Follows, Verdicts, Quits
<1>7. \A e, f : ~Owes(Top(r), f, e)
  BY <1>1 DEF Owes, Moves
<1>8. ASSUME NEW d \in Fed, Tends(Top(r), d), Ready(d)
      PROVE  Done(d) \/ Present(d) # {} \/ (~none /\ Tends(c, d))
  <2>1. d = m
    BY <1>1, <1>8 DEF Tends
  <2>2. \A f \in Feeders(m) : Done(f)
    BY <1>8, <2>1 DEF Ready
  <2>3. Feeders(m) # {}
    BY <1>8, <2>1, ShapeAssumption DEF Fed
  <2>4. Full(m) => Present(m) # {}
    BY DEF Full, Present
  <2> QED
    BY <1>4, <2>1, <2>2, <2>3, <2>4 DEF Tends
<1> HIDE DEF none
<1>9. Stack(calls[r])' /\ Rows' /\ DeciderRow'
  BY <1>1, <1>4, <1>5, <1>6, <1>7, <1>8, ReadOne
<1> QED
  BY <1>1, <1>9, SameRows DEF Table, Cascade

(* The verdict crowns who has won the title, or calls for a reset match.   *)
LEMMA CrownOK ==
    ASSUME NEW d, Done(d), winner[d] # NoPlayer,
           ~Double => Next[d] = NoMatch /\ d \in Match,
           Double /\ status[Decider] = "ABSENT" => d = GrandFinal /\ ~CallsForReset,
           Double /\ status[Decider] # "ABSENT" => d = Decider
    PROVE  Decisive(winner[d])
  BY DEF Decisive

LEMMA VerdictOK ==
    ASSUME NEW r, Cascade(r), NEW m \in Match
    PROVE  /\ Ordered(Verdict(m))
           /\ \A a \in On(Verdict(m)) : a.op \in Verdicts /\ CallOK(a)
<1>1. /\ \A d : Call("Crown", d, winner[d]).op = "Crown"
      /\ \A d : Call("Crown", d, winner[d]).p = winner[d]
  BY CallFields
<1> DEFINE crown(d) == Unless(~Done(d) \/ winner[d] = NoPlayer, Call("Crown", d, winner[d]))
           decide == [Call("CreateDecider", Decider, slots[GrandFinal][1])
                          EXCEPT !.q = slots[GrandFinal][2]]
           Fine(s) == Ordered(s) /\ \A a \in On(s) : a.op \in Verdicts /\ CallOK(a)
<1>2. ASSUME NEW d, ~(~Done(d) \/ winner[d] = NoPlayer) => Decisive(winner[d])
      PROVE  Fine(crown(d))
  <2> PICK c : c = Call("Crown", d, winner[d])
    OBVIOUS
  <2> PICK none : none = (~Done(d) \/ winner[d] = NoPlayer)
    OBVIOUS
  <2>1. c.op = "Crown" /\ c.p = winner[d]
    BY <1>1
  <2>2. ~none => CallOK(c) /\ c.op \in Verdicts
    BY <1>2, <2>1 DEF CallOK, Moves, Completes, Verdicts
  <2>3. On(Unless(none, c)) = (IF none THEN {} ELSE {c}) /\ Ordered(Unless(none, c))
    BY OnUnless
  <2>4. Fine(Unless(none, c))
    BY <2>2, <2>3
  <2> QED
    BY <2>4
<1>3. Fine(<<>>)
  <2>1. Unless(TRUE, 0) = <<>>
    BY DEF Unless
  <2>2. On(<<>>) = {} /\ Ordered(<<>>)
    BY <2>1, OnUnless
  <2> QED
    BY <2>2
<1>4. ASSUME status[Decider] = "ABSENT", CallsForReset
      PROVE  Fine(<<decide>>)
  <2> PICK c : c = decide
    OBVIOUS
  <2>1. c = [op |-> "CreateDecider", m |-> Decider, p |-> slots[GrandFinal][1],
                q |-> slots[GrandFinal][2], todo |-> {}]
    BY DEF Call
  <2>2. CallOK(c) /\ c.op \in Verdicts
    BY <1>4, <2>1 DEF CallOK, Moves, Completes, Verdicts
  <2> PICK s : s = Unless(FALSE, c)
    OBVIOUS
  <2>3. On(s) = {c} /\ Ordered(s)
    BY OnUnless
  <2>4. Fine(s) /\ s = <<decide>>
    BY <2>2, <2>3 DEF Unless
  <2> QED
    BY <2>4
<1> HIDE DEF Fine, crown, decide
<1>5. CASE ~Double
  <2>1. Verdict(m) = (IF Next[m] = NoMatch THEN crown(m) ELSE <<>>)
    BY <1>5 DEF Verdict, crown
  <2>2. Next[m] = NoMatch => Fine(crown(m))
    BY <1>2, <1>5, CrownOK
  <2>3. Fine(Verdict(m))
    BY <1>3, <2>1, <2>2
  <2> QED
    BY <2>3 DEF Fine
<1>6. CASE Double /\ ~(~Done(GrandFinal) \/ winner[GrandFinal] = NoPlayer)
  <2>1. CallsForReset <=> GrandFinalReset /\ WinnersFinalist # NoPlayer
                             /\ winner[GrandFinal] # WinnersFinalist
    BY <1>6 DEF CallsForReset
  <2>2. CASE status[Decider] # "ABSENT"
    <3>1. Verdict(m) = crown(Decider)
      BY <1>6, <2>2 DEF Verdict, crown
    <3>2. Fine(crown(Decider))
      BY <1>2, <1>6, <2>2, CrownOK
    <3> QED
      BY <3>1, <3>2 DEF Fine
  <2>3. CASE status[Decider] = "ABSENT" /\ CallsForReset
    <3>1. Verdict(m) = <<decide>>
      BY <1>6, <2>1, <2>3 DEF Verdict, decide
    <3> QED
      BY <1>4, <2>3, <3>1 DEF Fine
  <2>4. CASE status[Decider] = "ABSENT" /\ ~CallsForReset
    <3>1. Verdict(m) = crown(GrandFinal)
      BY <1>6, <2>1, <2>4 DEF Verdict, crown
    <3>2. Fine(crown(GrandFinal))
      BY <1>2, <1>6, <2>4, CrownOK
    <3> QED
      BY <3>1, <3>2 DEF Fine
  <2> QED
    BY <2>2, <2>3, <2>4
<1>7. CASE Double /\ (~Done(GrandFinal) \/ winner[GrandFinal] = NoPlayer)
  <2>1. Verdict(m) = <<>>
    BY <1>7 DEF Verdict
  <2> QED
    BY <1>3, <2>1 DEF Fine
<1> QED
  BY <1>5, <1>6, <1>7

LEMMA CheckGoesOn ==
    ASSUME NEW r, Cascade(r), Check(r)
    PROVE  Stack(calls[r])' /\ Table'
<1>1. ~Idle(r) /\ Top(r).op = "Check" /\ UNCHANGED bracket /\ UNCHANGED <<over, champion>>
  BY DEF Check, Running
<1>2. Top(r) \in SafeCalls /\ IInv /\ r \in Request
  BY <1>1, CascadeFacts
<1> PICK m \in Match : m = Top(r).m
  BY <1>1, <1>2 DEF SafeCalls, Quits
<1> PICK made : made = Verdict(m)
  OBVIOUS
<1>3. made \in Seq(SafeCalls) /\ Ordered(made) /\ \A a \in On(made) : a.op \in Verdicts /\ CallOK(a)
  BY <1>2, VerdictSafe, VerdictOK
<1>4. \A a \in On(made) : CallOK(a) /\ Follows(a, Top(r))
  BY <1>3 DEF Follows
<1>5. /\ \A e, f : ~Owes(Top(r), f, e)
      /\ \A e : ~Tends(Top(r), e)
  BY <1>1 DEF Owes, Tends, Moves
<1>6. Return(r, made)
  BY DEF Check
<1>7. Stack(calls[r])' /\ Rows' /\ DeciderRow'
  BY <1>1, <1>3, <1>4, <1>5, <1>6, ReadOn
<1> QED
  BY <1>1, <1>7, SameRows DEF Table, Cascade

LEMMA CrownGoesOn ==
    ASSUME NEW r, Cascade(r), Crown(r)
    PROVE  Stack(calls[r])' /\ Table'
<1>1. /\ ~Idle(r) /\ Top(r).op = "Crown" /\ UNCHANGED bracket /\ Return(r, <<>>)
      /\ champion' = Top(r).p
  BY DEF Crown, Running
<1>2. Top(r) \in SafeCalls /\ CallOK(Top(r))
  BY <1>1, CascadeFacts
<1> PICK c \in SafeCalls : c = Top(r)
  BY <1>2
<1>3. Return(r, Unless(TRUE, c))
  BY <1>1 DEF Unless
<1>4. /\ \A e, f : ~Owes(Top(r), f, e)
      /\ \A e : ~Tends(Top(r), e)
  BY <1>1 DEF Owes, Tends, Moves
<1>5. Stack(calls[r])' /\ Rows' /\ DeciderRow'
  BY <1>1, <1>3, <1>4, ReadOne
<1>6. Decisive(Top(r).p)
  BY <1>1, <1>2 DEF CallOK
<1> PICK p : p = Top(r).p
  OBVIOUS
<1>7. Decisive(p)' /\ champion' = p
  BY <1>1, <1>6, SameRows
<1>8. Decisive(champion)'
  BY <1>7 DEF Decisive
<1> QED
  BY <1>5, <1>8 DEF Table

(* A forfeit lists matches with two players.                               *)
LEMMA ListGoesOn ==
    ASSUME NEW r, Cascade(r), List(r)
    PROVE  Stack(calls[r])' /\ Table'
<1>1. ~Idle(r) /\ Top(r).op = "List" /\ UNCHANGED bracket /\ UNCHANGED <<over, champion>>
  BY DEF List, Running
<1>2. Top(r) \in SafeCalls /\ IInv /\ r \in Request
  BY <1>1, CascadeFacts
<1> PICK p : p = Top(r).p
  OBVIOUS
<1> DEFINE open == {m \in Match : status[m] \in {"PENDING", "ONGOING"} /\ p \in Present(m)}
           todo == {<<m, Opponent(m, p)>> : m \in {o \in open : Opponent(o, p) # NoPlayer}}
<1> PICK c : c = [Call("Forfeit", NoMatch, p) EXCEPT !.todo = todo]
  OBVIOUS
<1>3. c = [op |-> "Forfeit", m |-> NoMatch, p |-> p, q |-> NoPlayer, todo |-> todo]
  BY DEF Call
<1>4. Return(r, Unless(FALSE, c))
  BY DEF List, Unless
<1>5. \A x \in todo : x \in Match \X Player /\ x[2] \in Draw[x[1]] /\ AwardOK(x)
  <2> SUFFICES ASSUME NEW m \in Match, status[m] \in {"PENDING", "ONGOING"}, p \in Present(m),
                      Opponent(m, p) # NoPlayer
               PROVE  /\ Opponent(m, p) \in Player /\ Opponent(m, p) \in Draw[m]
                      /\ Full(m) /\ status[m] # "ABSENT" /\ Opponent(m, p) \in Present(m)
    BY DEF AwardOK
  <2>1. Opponent(m, p) \in Draw[m] \cup {NoPlayer}
    BY <1>2, OpponentSafe
  <2>2. Full(m) /\ Opponent(m, p) \in Present(m)
    BY DEF Present, Opponent, Full
  <2> QED
    BY <2>1, <2>2, WiringAssumption
<1>6. c \in SafeCalls
  <2> HIDE DEF todo
  <2>1. p \in Seat
    BY <1>2 DEF SafeCalls, Calls
  <2>2. todo \in SUBSET (Match \X Player)
    BY <1>5
  <2>3. c \in Calls
    BY <1>3, <2>1, <2>2 DEF Calls, Op, Seat
  <2> QED
    BY <1>3, <1>5, <2>3 DEF SafeCalls
<1> HIDE DEF todo
<1>7. CallOK(c) /\ Follows(c, Top(r))
  BY <1>1, <1>3, <1>5 DEF CallOK, Moves, Completes, Follows, Quits
<1> QED
  BY <1>1, <1>4, <1>6, <1>7, ReadAside DEF Moves

LEMMA AwardGoesOn ==
    ASSUME NEW r, Cascade(r), Award(r)
    PROVE  Stack(calls[r])' /\ Table'
<1>1. ~Idle(r) /\ Top(r).op = "Forfeit" /\ UNCHANGED bracket /\ UNCHANGED <<over, champion>>
  BY DEF Award, Running
<1>2. Top(r) \in SafeCalls /\ CallOK(Top(r)) /\ Rows /\ IInv /\ r \in Request
  BY <1>1, CascadeFacts
<1> PICK c \in SafeCalls : c = Top(r)
  BY <1>2
<1>3. CASE c.todo = {}
  <2>1. Return(r, Unless(TRUE, c))
    BY <1>3 DEF Award, Unless
  <2> QED
    BY <1>1, <2>1, ReadAside DEF Moves
<1>4. CASE c.todo # {}
  <2>1. PICK x \in c.todo :
          Return(r, <<Call("Walkover", x[1], x[2]), [c EXCEPT !.todo = @ \ {x}]>>)
    BY <1>4 DEF Award
  <2>2. x[1] \in Match /\ x[2] \in Draw[x[1]] /\ AwardOK(x)
    BY <1>1, <1>2 DEF SafeCalls, Calls, CallOK
  <2> PICK a, b : a = Call("Walkover", x[1], x[2]) /\ b = [c EXCEPT !.todo = @ \ {x}]
    OBVIOUS
  <2>3. a \in SafeCalls /\ a.op = "Walkover" /\ a.m = x[1] /\ a.p = x[2]
    BY <2>2, CallSafe, CallFields DEF Op
  <2>4. b \in SafeCalls /\ b.op = "Forfeit" /\ b.todo \subseteq c.todo
    BY <1>1 DEF SafeCalls, Calls
  <2>5. WinnerOK(a)
    BY <1>2, <2>2, <2>3, FullReady DEF AwardOK, WinnerOK, Present
  <2>6. CallOK(a) /\ CallOK(b)
    BY <1>1, <1>2, <2>3, <2>4, <2>5 DEF CallOK, Moves, Completes
  <2> PICK s : s = <<a, b>>
    OBVIOUS
  <2>7. Len(s) = 2 /\ s[1] = a /\ s[2] = b /\ s \in Seq(SafeCalls)
    BY <2>3, <2>4
  <2>8. On(s) = {a, b} /\ Ordered(s)
    <3>1. \A i \in 1..Len(s) : i = 1 \/ i = 2
      BY <2>7
    <3>2. 1 \in 1..Len(s) /\ 2 \in 1..Len(s)
      BY <2>7
    <3>3. On(s) = {a, b}
      BY <2>7, <3>1, <3>2 DEF On
    <3>4. Above(a, b)
      BY <2>4 DEF Above
    <3>5. \A i, j \in 1..Len(s) : i < j => i = 1 /\ j = 2
      BY <2>7
    <3> QED
      BY <2>7, <3>3, <3>4, <3>5 DEF Ordered
  <2>9. \A e \in On(s) : CallOK(e) /\ Follows(e, Top(r))
    BY <1>1, <2>6, <2>8 DEF Follows, Quits
  <2>10. /\ \A e, f : ~Owes(Top(r), f, e)
         /\ \A e : ~Tends(Top(r), e)
    BY <1>1 DEF Owes, Tends, Moves
  <2>11. Return(r, s)
    BY <2>1
  <2>12. Stack(calls[r])' /\ Rows' /\ DeciderRow'
    BY <1>1, <2>7, <2>8, <2>9, <2>10, <2>11, ReadOn
  <2> QED
    BY <1>1, <2>12, SameRows DEF Table, Cascade
<1> QED
  BY <1>3, <1>4

(* What is known of nothing, or one call, without a case.                  *)
LEMMA SomeCall ==
    ASSUME NEW none, NEW c, ~none => c \in SafeCalls
    PROVE  \E s \in Seq(SafeCalls) :
              /\ s = Unless(none, c) /\ Ordered(s)
              /\ \A e \in On(s) : e = c /\ ~none
              /\ ~none => c \in On(s)
<1> PICK s : s = Unless(none, c)
  OBVIOUS
<1>1. s \in Seq(SafeCalls)
  BY UnlessSafe
<1>2. On(s) = (IF none THEN {} ELSE {c}) /\ Ordered(s)
  BY OnUnless
<1> QED
  BY <1>1, <1>2

(* Two lists, one after the other.                                         *)
LEMMA Joined ==
    ASSUME NEW a \in Seq(SafeCalls), NEW b \in Seq(SafeCalls), Ordered(a), Ordered(b),
           \A e \in On(a), g \in On(b) : Above(e, g)
    PROVE  \E t \in Seq(SafeCalls) :
              t = a \o b /\ Ordered(t) /\ On(t) = On(a) \cup On(b)
<1> PICK t : t = a \o b
  OBVIOUS
<1>1. t \in Seq(SafeCalls)
  OBVIOUS
<1>2. On(t) = On(a) \cup On(b)
  BY OnBoth
<1>3. Ordered(t)
  BY OrderedBoth
<1> QED
  BY <1>1, <1>2, <1>3

(* The list the handler of a completion makes.                             *)
Made(noA, a, noB, b, noX, x, noY, y, z) ==
    Unless(noA, a) \o (Unless(noB, b) \o Unless(noX, x) \o Unless(noY, y)) \o <<z>>

LEMMA HandleMakes ==
    ASSUME NEW noA, NEW noB, NEW noX, NEW noY,
           NEW a, NEW b, NEW x, NEW y, NEW z \in SafeCalls,
           ~noA => a \in SafeCalls, ~noB => b \in SafeCalls,
           ~noX => x \in SafeCalls, ~noY => y \in SafeCalls,
           \A e : Above(e, x) /\ Above(e, y) /\ Above(e, z),
           ~noB => Above(a, b)
    PROVE  /\ Made(noA, a, noB, b, noX, x, noY, y, z) \in Seq(SafeCalls)
           /\ Ordered(Made(noA, a, noB, b, noX, x, noY, y, z))
           /\ \A e \in On(Made(noA, a, noB, b, noX, x, noY, y, z)) :
                 \/ (e = a /\ ~noA) \/ (e = b /\ ~noB)
                 \/ (e = x /\ ~noX) \/ (e = y /\ ~noY) \/ e = z
           /\ ~noA => a \in On(Made(noA, a, noB, b, noX, x, noY, y, z))
           /\ ~noB => b \in On(Made(noA, a, noB, b, noX, x, noY, y, z))
           /\ ~noY => y \in On(Made(noA, a, noB, b, noX, x, noY, y, z))
<1>1. PICK win \in Seq(SafeCalls) :
         /\ win = Unless(noA, a) /\ Ordered(win)
         /\ \A e \in On(win) : e = a /\ ~noA
         /\ ~noA => a \in On(win)
  BY SomeCall
<1>2. PICK lose \in Seq(SafeCalls) :
         /\ lose = Unless(noB, b) /\ Ordered(lose)
         /\ \A e \in On(lose) : e = b /\ ~noB
         /\ ~noB => b \in On(lose)
  BY SomeCall
<1>3. PICK below \in Seq(SafeCalls) :
         /\ below = Unless(noX, x) /\ Ordered(below)
         /\ \A e \in On(below) : e = x /\ ~noX
  BY SomeCall
<1>4. PICK side \in Seq(SafeCalls) :
         /\ side = Unless(noY, y) /\ Ordered(side)
         /\ \A e \in On(side) : e = y /\ ~noY
         /\ ~noY => y \in On(side)
  BY SomeCall
<1>5. PICK no : no = FALSE
  OBVIOUS
<1>6. PICK check \in Seq(SafeCalls) :
         /\ check = Unless(no, z) /\ Ordered(check)
         /\ \A e \in On(check) : e = z /\ ~no
  BY SomeCall
<1>7. check = <<z>>
  BY <1>5, <1>6 DEF Unless
<1>8. PICK two \in Seq(SafeCalls) :
         two = lose \o below /\ Ordered(two) /\ On(two) = On(lose) \cup On(below)
  <2>1. \A e \in On(lose), g \in On(below) : Above(e, g)
    BY <1>3
  <2> QED
    BY <1>2, <1>3, <2>1, Joined
<1>9. PICK three \in Seq(SafeCalls) :
         three = two \o side /\ Ordered(three) /\ On(three) = On(two) \cup On(side)
  <2>1. \A e \in On(two), g \in On(side) : Above(e, g)
    BY <1>4
  <2> QED
    BY <1>4, <1>8, <2>1, Joined
<1>10. \A g \in On(three) : (g = x /\ ~noX) \/ (g = y /\ ~noY) \/ (g = b /\ ~noB)
  <2>1. \A g \in On(two) : (g = x /\ ~noX) \/ (g = b /\ ~noB)
    BY <1>2, <1>3, <1>8
  <2> QED
    BY <1>4, <1>9, <2>1
<1>11. PICK four \in Seq(SafeCalls) :
          four = win \o three /\ Ordered(four) /\ On(four) = On(win) \cup On(three)
  <2>1. \A e \in On(win), g \in On(three) : Above(e, g)
    BY <1>1, <1>10
  <2> QED
    BY <1>1, <1>9, <2>1, Joined
<1>12. PICK made \in Seq(SafeCalls) :
          made = four \o check /\ Ordered(made) /\ On(made) = On(four) \cup On(check)
  <2>1. \A e \in On(four), g \in On(check) : Above(e, g)
    BY <1>6
  <2> QED
    BY <1>6, <1>11, <2>1, Joined
<1>13. made = Made(noA, a, noB, b, noX, x, noY, y, z)
  BY <1>1, <1>2, <1>3, <1>4, <1>7, <1>8, <1>9, <1>11, <1>12 DEF Made
<1>14. \A e \in On(made) : \/ (e = a /\ ~noA) \/ (e = b /\ ~noB)
                           \/ (e = x /\ ~noX) \/ (e = y /\ ~noY) \/ e = z
  BY <1>1, <1>6, <1>10, <1>11, <1>12
<1>15. (~noA => a \in On(made)) /\ (~noB => b \in On(made)) /\ (~noY => y \in On(made))
  BY <1>1, <1>2, <1>4, <1>8, <1>9, <1>11, <1>12
<1> QED
  BY <1>12, <1>13, <1>14, <1>15

(* The handler of a completion: the winner goes up first, then the loser   *)
(* goes down, to a match that is played before the winner's next.          *)
LEMMA HandleGoesOn ==
    ASSUME NEW r, Cascade(r), Handle(r)
    PROVE  Stack(calls[r])' /\ Table'
<1>1. ~Idle(r) /\ Top(r).op = "Handle" /\ UNCHANGED bracket /\ UNCHANGED <<over, champion>>
  BY DEF Handle, Running
<1>2. Top(r) \in SafeCalls /\ CallOK(Top(r)) /\ LosersBracket /\ IInv /\ r \in Request
  BY <1>1, CascadeFacts
<1> PICK c \in SafeCalls : c = Top(r)
  BY <1>2
<1> PICK m \in Match : m = c.m
  BY <1>1, <1>2 DEF SafeCalls, Quits
<1> PICK w, l : w = winner[m] /\ l = Opponent(m, w)
  OBVIOUS
<1>3. /\ Done(m) /\ w # NoPlayer
      /\ \A d \in Destinations(m) : status[d] = "PENDING"
  BY <1>1, <1>2 DEF CallOK
<1>4. w \in Draw[m] \cup {NoPlayer} /\ l \in Draw[m] \cup {NoPlayer}
  BY <1>2, OpponentSafe DEF IInv, WinnersWithinDraw
<1> PICK a, b, x, y, z :
       /\ a = Call("Advance", Next[m], w) /\ b = Call("Advance", LoserNext[m], l)
       /\ x = Call("Settle", Next[m], NoPlayer) /\ y = Call("Settle", LoserNext[m], NoPlayer)
       /\ z = Call("Check", m, NoPlayer)
  OBVIOUS
<1>5. /\ a.op = "Advance" /\ a.m = Next[m] /\ a.p = w
      /\ b.op = "Advance" /\ b.m = LoserNext[m] /\ b.p = l
      /\ x.op = "Settle" /\ x.m = Next[m] /\ y.op = "Settle" /\ y.m = LoserNext[m]
      /\ z.op = "Check" /\ z.m = m
  BY CallFields
<1> PICK noA, noB, noX, noY :
       /\ noA = (Next[m] = NoMatch)
       /\ noB = (~Double \/ LoserNext[m] = NoMatch \/ l = NoPlayer)
       /\ noX = (~Double \/ Next[m] = NoMatch)
       /\ noY = (~Double \/ LoserNext[m] = NoMatch)
  OBVIOUS
<1>6. /\ ~noA => a \in SafeCalls /\ x \in SafeCalls
      /\ ~noY => y \in SafeCalls
      /\ ~noB => b \in SafeCalls
      /\ ~noX => x \in SafeCalls
      /\ z \in SafeCalls
  BY <1>4, AlongLinks, CallSafe DEF Op
<1>7. ~noA => CallOK(a) /\ Follows(a, c) /\ Follows(x, c)
  <2> SUFFICES ASSUME ~noA
               PROVE  CallOK(a) /\ Follows(a, c) /\ Follows(x, c)
    OBVIOUS
  <2> PICK d \in Fed : d = Next[m] /\ m \in Feeders(d) /\ Rank[m] < Rank[d] /\ status[d] = "PENDING"
    BY <1>2, <1>3, Links DEF Destinations
  <2>1. w \in DeliveredTo(d)
    BY <1>3 DEF DeliveredTo, Delivers
  <2>2. MoveOK(a)
    BY <1>5, <2>1 DEF MoveOK
  <2>3. CallOK(a)
    BY <1>5, <2>2 DEF CallOK, Moves, Completes
  <2>4. Rank[m] \in Nat /\ Rank[d] \in Nat
    BY FedMatches, ShapeAssumption
  <2>5. Rank[c.m] <= Rank[a.m] /\ Rank[c.m] <= Rank[x.m]
    BY <1>5, <2>4
  <2> QED
    BY <1>1, <1>5, <2>3, <2>5 DEF Follows, Verdicts, Quits
<1>8. ~noY => /\ LoserNext[m] \in Fed /\ Rank[LoserNext[m]] < Rank[Next[m]] /\ ~noA /\ Double
              /\ Follows(y, c)
              /\ ~noB => CallOK(b) /\ Follows(b, c)
  <2> SUFFICES ASSUME ~noY
               PROVE  /\ LoserNext[m] \in Fed /\ Rank[LoserNext[m]] < Rank[Next[m]] /\ ~noA /\ Double
                      /\ Follows(y, c)
                      /\ ~noB => CallOK(b) /\ Follows(b, c)
    OBVIOUS
  <2> PICK d \in Fed : /\ d = LoserNext[m] /\ m \in Feeders(d) /\ Rank[m] < Rank[d]
                       /\ status[d] = "PENDING" /\ Rank[d] < Rank[Next[m]]
                       /\ ~noA /\ Double
    BY <1>2, <1>3, Links DEF Destinations
  <2>1. Next[m] \in Match /\ Rank[m] \in Nat /\ Rank[d] \in Nat
    BY FedMatches, WiringAssumption, ShapeAssumption
  <2>2. Next[m] # d
    <3>1. Rank[d] # Rank[Next[m]]
      BY <2>1, ShapeAssumption
    <3> QED
      BY <3>1
  <2>3. ~noB => l \in DeliveredTo(d)
    BY <1>3, <2>2 DEF DeliveredTo, Delivers
  <2>4. ~noB => MoveOK(b)
    BY <1>5, <2>3 DEF MoveOK
  <2>5. ~noB => CallOK(b)
    BY <1>5, <2>4 DEF CallOK, Moves, Completes
  <2>6. Rank[c.m] <= Rank[b.m] /\ Rank[c.m] <= Rank[y.m]
    BY <1>5, <2>1
  <2> QED
    BY <1>1, <1>5, <2>5, <2>6 DEF Follows, Verdicts, Quits
<1>9. CallOK(x) /\ CallOK(y) /\ CallOK(z) /\ Follows(z, c)
  BY <1>5 DEF CallOK, Moves, Completes, Follows, Verdicts
<1>10. /\ \A e : Above(e, x) /\ Above(e, y) /\ Above(e, z)
       /\ ~noB => Above(a, b)
  BY <1>5, <1>8 DEF Above, Quits
<1>11. PICK made \in Seq(SafeCalls) :
          /\ made = Made(noA, a, noB, b, noX, x, noY, y, z)
          /\ Ordered(made)
          /\ \A e \in On(made) : \/ (e = a /\ ~noA) \/ (e = b /\ ~noB)
                                 \/ (e = x /\ ~noX) \/ (e = y /\ ~noY) \/ e = z
          /\ (~noA => a \in On(made)) /\ (~noB => b \in On(made)) /\ (~noY => y \in On(made))
  <2>1. (~noX => x \in SafeCalls) /\ z \in SafeCalls
    BY <1>6
  <2>2. (~noA => a \in SafeCalls) /\ (~noB => b \in SafeCalls) /\ (~noY => y \in SafeCalls)
    BY <1>6
  <2>3. \A e : Above(e, x) /\ Above(e, y) /\ Above(e, z)
    BY <1>10
  <2>4. ~noB => Above(a, b)
    BY <1>10
  <2>5. PICK t : t = Made(noA, a, noB, b, noX, x, noY, y, z)
    OBVIOUS
  <2>6. /\ t \in Seq(SafeCalls) /\ Ordered(t)
        /\ \A e \in On(t) : \/ (e = a /\ ~noA) \/ (e = b /\ ~noB)
                            \/ (e = x /\ ~noX) \/ (e = y /\ ~noY) \/ e = z
        /\ (~noA => a \in On(t)) /\ (~noB => b \in On(t)) /\ (~noY => y \in On(t))
    BY <2>1, <2>2, <2>3, <2>4, <2>5, HandleMakes
  <2> QED
    BY <2>5, <2>6
<1>12. Return(r, made)
  <2>1. Return(r, Unless(noA, a) \o (IF ~Double THEN <<>> ELSE
                     Unless(noB, b) \o Unless(noX, x) \o Unless(noY, y)) \o <<z>>)
    BY <1>3 DEF Handle
  <2>2. CASE Double
    BY <1>11, <2>1, <2>2 DEF Made
  <2>3. CASE ~Double
    <3>1. Unless(noB, b) = <<>> /\ Unless(noX, x) = <<>> /\ Unless(noY, y) = <<>>
      BY <2>3 DEF Unless
    <3>2. <<>> \o <<>> = <<>>
      OBVIOUS
    <3> QED
      BY <1>11, <2>1, <2>3, <3>1, <3>2 DEF Made
  <2> QED
    BY <2>2, <2>3
<1>13. \A e \in On(made) : CallOK(e) /\ Follows(e, Top(r))
  <2>1. (~noA => CallOK(a) /\ Follows(a, c)) /\ CallOK(x) /\ (~noX => Follows(x, c))
    BY <1>7, <1>9
  <2>2. (~noB => CallOK(b) /\ Follows(b, c)) /\ CallOK(y) /\ (~noY => Follows(y, c))
    BY <1>8, <1>9
  <2>3. CallOK(z) /\ Follows(z, c)
    BY <1>9
  <2> SUFFICES ASSUME NEW e \in On(made)
               PROVE  CallOK(e) /\ Follows(e, Top(r))
    OBVIOUS
  <2>4. CASE e = a /\ ~noA
    BY <2>1, <2>4
  <2>5. CASE e = b /\ ~noB
    BY <2>2, <2>5
  <2>6. CASE e = x /\ ~noX
    BY <2>1, <2>6
  <2>7. CASE e = y /\ ~noY
    BY <2>2, <2>7
  <2>8. CASE e = z
    BY <2>3, <2>8
  <2>9. (e = a /\ ~noA) \/ (e = b /\ ~noB) \/ (e = x /\ ~noX) \/ (e = y /\ ~noY) \/ e = z
    BY <1>11
  <2> QED
    BY <2>4, <2>5, <2>6, <2>7, <2>8, <2>9
<1>14. ASSUME NEW d \in Fed, m \in Feeders(d)
       PROVE  \/ d = Next[m] /\ ~noA /\ Delivers(m, d) = w
              \/ d = LoserNext[m] /\ ~noY /\ Delivers(m, d) = l
  <2>1. d # NoMatch
    <3>1. d \in Match /\ NoMatch \notin Match
      BY FedMatches, WiringAssumption
    <3> QED
      BY <3>1
  <2>2. CASE Next[m] = d
    BY <1>3, <2>1, <2>2 DEF Delivers
  <2>3. CASE Next[m] # d /\ LoserNext[m] = d
    <3>1. Double
      BY <1>2, <2>1, <2>3, Links
    <3> QED
      BY <1>3, <2>1, <2>3, <3>1 DEF Delivers
  <2>4. Next[m] = d \/ LoserNext[m] = d
    BY <1>14 DEF Feeders
  <2> QED
    BY <2>2, <2>3, <2>4
<1>15. ASSUME NEW d \in Fed, NEW f \in Feeders(d), Owes(Top(r), f, d)
       PROVE  Brought(On(made), f, d)
  <2> SUFFICES ASSUME Delivers(f, d) # NoPlayer
               PROVE  \E e \in On(made) : Owes(e, f, d)
    BY DEF Brought
  <2>1. f = m
    BY <1>1, <1>15 DEF Owes, Moves
  <2>2. CASE d = Next[m] /\ ~noA /\ Delivers(m, d) = w
    <3>1. a \in On(made)
      BY <1>11, <2>2
    <3>2. Owes(a, f, d)
      BY <1>5, <2>1, <2>2 DEF Owes, Moves
    <3> QED
      BY <3>1, <3>2
  <2>3. CASE d = LoserNext[m] /\ ~noY /\ Delivers(m, d) = l
    <3>1. ~noB
      BY <2>1, <2>3
    <3>2. b \in On(made)
      BY <1>11, <3>1
    <3>3. Owes(b, f, d)
      BY <1>5, <2>1, <2>3 DEF Owes, Moves
    <3> QED
      BY <3>2, <3>3
  <2> QED
    BY <1>14, <2>1, <2>2, <2>3
<1>16. ASSUME NEW d \in Fed, Tends(Top(r), d)
       PROVE  Tended(On(made), d)
  <2> SUFFICES \E e \in On(made) : Tends(e, d)
    BY DEF Tended
  <2>1. m \in Feeders(d)
    BY <1>1, <1>16 DEF Tends, Moves
  <2>2. CASE d = Next[m] /\ ~noA
    <3>1. a \in On(made)
      BY <1>11, <2>2
    <3>2. Tends(a, d)
      BY <1>5, <2>2 DEF Tends, Moves
    <3> QED
      BY <3>1, <3>2
  <2>3. CASE d = LoserNext[m] /\ ~noY
    <3>1. y \in On(made)
      BY <1>11, <2>3
    <3>2. Tends(y, d)
      BY <1>5, <2>3 DEF Tends
    <3> QED
      BY <3>1, <3>2
  <2> QED
    BY <1>14, <2>1, <2>2, <2>3
<1>17. Stack(calls[r])' /\ Rows' /\ DeciderRow'
  BY <1>1, <1>11, <1>12, <1>13, <1>15, <1>16, ReadOn
<1> QED
  BY <1>1, <1>17, SameRows DEF Table, Cascade

---------------------------------------------------------------------------
(* What is recorded of the grand final stays so.                           *)
LEMMA ResetCallStays ==
    ASSUME LosersBracket, Rows, Stands, Double, Done(GrandFinal)
    PROVE  CallsForReset' = CallsForReset
<1>1. PICK f \in Feeders(GrandFinal) \cap Winners :
         Next[f] = GrandFinal /\ \A g \in Winners : Next[g] = GrandFinal => g = f
  BY Finalists
<1>2. (CHOOSE g \in Winners : Next[g] = GrandFinal) = f
  BY <1>1
<1>3. GrandFinal \in Fed /\ GrandFinal \in Match /\ f \in Match
  BY <1>1, Finalists, FedMatches
<1>4. Done(f)
  BY <1>1, <1>3 DEF Rows, FedRow, Ready, Done
<1>5. winner'[f] = winner[f] /\ winner'[GrandFinal] = winner[GrandFinal] /\ Done(GrandFinal)'
  BY <1>3, <1>4 DEF Stands, Done
<1>6. WinnersFinalist' = WinnersFinalist
  BY <1>2, <1>5 DEF WinnersFinalist
<1> QED
  BY <1>5, <1>6 DEF CallsForReset

LEMMA DeciderStays ==
    ASSUME LosersBracket, Rows, Stands, DeciderRow,
           Double => /\ status'[Decider] = "ABSENT" <=> status[Decider] = "ABSENT"
                     /\ slots'[Decider] = slots[Decider]
    PROVE  DeciderRow' /\ \A p : Decisive(p) => Decisive(p)'
<1>1. ASSUME Double, status'[Decider] # "ABSENT"
      PROVE  CallsForReset' /\ \A i \in 1..2 : slots'[Decider][i] = slots'[GrandFinal][i]
  <2>1. CallsForReset /\ \A i \in 1..2 : slots[Decider][i] = slots[GrandFinal][i]
    BY <1>1 DEF DeciderRow
  <2>2. Done(GrandFinal) /\ GrandFinal \in Match
    BY <1>1, <2>1, Finalists, FedMatches DEF CallsForReset
  <2>3. slots'[GrandFinal] = slots[GrandFinal]
    BY <2>2 DEF Stands
  <2>4. CallsForReset'
    BY <1>1, <2>1, <2>2, ResetCallStays
  <2> QED
    BY <1>1, <2>1, <2>3, <2>4
<1>2. ASSUME NEW p, Decisive(p)
      PROVE  Decisive(p)'
  <2>1. CASE ~Double
    <3>1. PICK m \in Match : Next[m] = NoMatch /\ Done(m) /\ winner[m] = p
      BY <1>2, <2>1 DEF Decisive
    <3>2. Done(m)' /\ winner'[m] = p
      BY <3>1 DEF Stands, Done
    <3> QED
      BY <1>2, <2>1, <3>1, <3>2 DEF Decisive
  <2>2. CASE Double /\ status[Decider] = "ABSENT"
    <3>1. Done(GrandFinal) /\ winner[GrandFinal] = p /\ ~CallsForReset /\ GrandFinal \in Match
      BY <1>2, <2>2, Finalists, FedMatches DEF Decisive
    <3>2. Done(GrandFinal)' /\ winner'[GrandFinal] = p /\ ~CallsForReset'
      BY <2>2, <3>1, ResetCallStays DEF Stands, Done
    <3> QED
      BY <1>2, <2>2, <3>2 DEF Decisive
  <2>3. CASE Double /\ status[Decider] # "ABSENT"
    <3>1. Done(Decider) /\ winner[Decider] = p /\ Decider \in Match
      BY <1>2, <2>3, Finalists DEF Decisive
    <3>2. Done(Decider)' /\ winner'[Decider] = p
      BY <3>1 DEF Stands, Done
    <3> QED
      BY <1>2, <2>3, <3>2 DEF Decisive
  <2> QED
    BY <2>1, <2>2, <2>3
<1> QED
  BY <1>1, <1>2 DEF DeciderRow

(* A match a call is about to write is open.                               *)
LEMMA WriteOpen ==
    ASSUME NEW r, Cascade(r), ~Idle(r), Top(r).op \in Writes
    PROVE  ~Done(Top(r).m)
<1>1. calls[r] \in Seq(Calls) /\ calls[r] # <<>> /\ Fresh(calls[r])
  BY CascadeFacts DEF IInv, TypeOK, Idle
<1>2. calls[r][1] = Top(r)
  BY <1>1 DEF Top
<1> QED
  BY <1>1, <1>2 DEF Fresh

(* Before a match is played, nothing has happened to what it feeds.        *)
LEMMA PendingAhead ==
    ASSUME Rows, NEW m \in Match, ~Done(m), NEW d \in Fed, m \in Feeders(d)
    PROVE  status[d] = "PENDING"
  BY DEF Rows, FedRow, Ready

(* Nobody else's delivery changes when one match is completed or filled.   *)
LEMMA DeliversSame ==
    ASSUME NEW f, NEW d,
           \/ ~Done(f) /\ ~Done(f)'
           \/ status'[f] = status[f] /\ winner'[f] = winner[f] /\ slots'[f] = slots[f]
    PROVE  Delivers(f, d)' = Delivers(f, d)
  BY DEF Delivers, Done, Opponent

---------------------------------------------------------------------------
(* The completion of a match.                                              *)
Completed(m, p) ==
    /\ status' = [status EXCEPT ![m] = "COMPLETED"]
    /\ winner' = [winner EXCEPT ![m] = p]
    /\ \A x \in Match : x # m => bye'[x] = bye[x]
    /\ UNCHANGED slots

LEMMA CompletedRows ==
    ASSUME IInv, LosersBracket, Rows, DeciderRow, Stands, NEW m \in Match, NEW p,
           ~Done(m), status[m] # "ABSENT", Ready(m),
           p \in Present(m) \cup {NoPlayer}, p = NoPlayer => Present(m) = {},
           Completed(m, p)
    PROVE  Rows' /\ DeciderRow' /\ (\A q : Decisive(q) => Decisive(q)') /\ Onward(m)
<1>1. /\ \A x \in Match : x # m => status'[x] = status[x] /\ winner'[x] = winner[x]
                                     /\ bye'[x] = bye[x]
      /\ status'[m] = "COMPLETED" /\ winner'[m] = p
      /\ UNCHANGED slots
  BY DEF Completed, IInv, TypeOK
<1>2. \A x : Present(x)' = Present(x) /\ Full(x)' = Full(x)
  BY <1>1 DEF Present, Full
<1>3. Onward(m)
  BY <1>1, <1>2 DEF Onward
<1>4. ASSUME NEW d \in Fed
      PROVE  FedRow(d)'
  <2>1. FedRow(d) /\ d \in Match
    BY FedMatches DEF Rows
  <2>2. Present(d)' \subseteq DeliveredTo(d)'
    BY <1>2, <2>1, DeliveredGrows DEF FedRow
  <2>3. Full(d)' => slots'[d][1] # slots'[d][2]
    BY <1>1, <1>2, <2>1 DEF FedRow
  <2>4. status'[d] # "PENDING" => Ready(d)
    BY <1>1, <2>1 DEF FedRow
  <2>5. status'[d] # "PENDING" => Ready(d)'
    BY <2>4, ReadyStays
  <2>6. bye'[d] => status'[d] # "PENDING"
    BY <1>1, <2>1 DEF FedRow
  <2> QED
    BY <2>2, <2>3, <2>5, <2>6 DEF FedRow
<1>5. ASSUME NEW x \in Match
      PROVE  PlayedRow(x)'
  <2>1. PlayedRow(x)
    BY DEF Rows
  <2>2. CASE x = m
    BY <1>1, <1>2, <2>1, <2>2 DEF PlayedRow, Done, FirstRound
  <2>3. CASE x # m
    BY <1>1, <1>2, <2>1, <2>3 DEF PlayedRow, Done, FirstRound
  <2> QED
    BY <2>2, <2>3
<1>6. Rows'
  <2>1. Fed' = Fed
    BY DEF Fed, FirstRound
  <2> QED
    BY <1>4, <1>5, <2>1 DEF Rows
<1>7. Double => /\ status'[Decider] = "ABSENT" <=> status[Decider] = "ABSENT"
                /\ slots'[Decider] = slots[Decider]
  BY <1>1, Finalists
<1>8. DeciderRow' /\ \A q : Decisive(q) => Decisive(q)'
  BY <1>7, DeciderStays
<1> QED
  BY <1>3, <1>6, <1>8

LEMMA CompletedTakesOver ==
    ASSUME IInv, LosersBracket, Rows, Stands, NEW m \in Match, NEW p, ~Done(m), Completed(m, p),
           NEW c, c.op \in {"Complete", "CompleteBye"}, c.m = m, NEW S,
           \/ \E h \in S : h.op = "Handle" /\ h.m = m
           \/ /\ p = NoPlayer
              /\ \A d \in Fed : m \in Feeders(d) => \E h \in S : h.op = "Settle" /\ h.m = d
    PROVE  TakesOver(S, c)
<1>1. /\ \A x \in Match : x # m => status'[x] = status[x] /\ winner'[x] = winner[x]
      /\ status'[m] = "COMPLETED" /\ winner'[m] = p
      /\ UNCHANGED slots
  BY DEF Completed, IInv, TypeOK
<1>2. \A x : Present(x)' = Present(x)
  BY <1>1 DEF Present
<1>3. ASSUME NEW d \in Fed, NEW f \in Feeders(d),
             Delivers(f, d) \in Present(d) \cup {NoPlayer} \/ Owes(c, f, d)
      PROVE  Brought(S, f, d)'
  <2>1. f \in Match
    BY FedMatches
  <2>2. CASE f # m
    <3>1. Delivers(f, d)' = Delivers(f, d)
      BY <1>1, <2>1, <2>2, DeliversSame
    <3>2. ~Owes(c, f, d)
      BY DEF Owes, Moves
    <3> QED
      BY <1>2, <1>3, <3>1, <3>2 DEF Brought
  <2>3. CASE f = m /\ p = NoPlayer
    BY <1>1, <2>3 DEF Brought, Delivers
  <2>4. CASE f = m /\ \E h \in S : h.op = "Handle" /\ h.m = m
    BY <2>4 DEF Brought, Owes
  <2> QED
    BY <2>2, <2>3, <2>4
<1>4. ASSUME NEW d \in Fed, Tends(c, d) \/ ~Ready(d), Ready(d)'
      PROVE  Done(d)' \/ \E h \in S : Tends(h, d)'
  <2>1. CASE Tends(c, d)
    <3>1. d = m
      BY <2>1 DEF Tends, Moves
    <3> QED
      BY <1>1, <3>1 DEF Done
  <2>2. CASE ~Ready(d)
    <3>1. PICK f \in Feeders(d) : ~Done(f)
      BY <2>2 DEF Ready
    <3>2. Done(f)' /\ f \in Match
      BY <1>4, <3>1, FedMatches DEF Ready, Fed, FirstRound, Feeders
    <3>3. f = m
      BY <1>1, <3>1, <3>2 DEF Done
    <3>4. \E h \in S : Tends(h, d)
      BY <3>1, <3>3 DEF Tends
    <3> QED
      BY <3>4 DEF Tends, Feeders
  <2> QED
    BY <1>4, <2>1, <2>2
<1> QED
  BY <1>3, <1>4 DEF TakesOver, Tended

LEMMA CompleteGoesOn ==
    ASSUME NEW r, Cascade(r), Complete(r)
    PROVE  Stack(calls[r])' /\ Table'
<1>1. /\ ~Idle(r) /\ Top(r).op \in {"Complete", "CompleteBye"} /\ UNCHANGED <<over, champion>>
      /\ UNCHANGED slots
  BY DEF Complete, Running
<1>2. /\ Top(r) \in SafeCalls /\ CallOK(Top(r)) /\ LosersBracket /\ IInv /\ r \in Request
      /\ Rows /\ Fresh(calls[r]) /\ ~Done(Top(r).m)
  BY <1>1, CascadeFacts, WriteOpen DEF Writes
<1>3. DeciderRow /\ (over => Decisive(champion))
  BY DEF Cascade, Table
<1>4. Stands
  BY <1>2, CompleteStands
<1>5. PICK c \in SafeCalls : c = Top(r)
  BY <1>2
<1>6. PICK m \in Match : m = c.m
  BY <1>1, <1>2, <1>5 DEF SafeCalls, Quits
<1>7. PICK p : p = c.p
  OBVIOUS
<1>8. WinnerOK(c)
  BY <1>1, <1>2, <1>5 DEF CallOK, Completes
<1>9. /\ Ready(m) /\ status[m] # "ABSENT" /\ ~Done(m)
      /\ p \in Present(m) \cup {NoPlayer} /\ (p = NoPlayer => Present(m) = {})
  BY <1>2, <1>5, <1>6, <1>7, <1>8 DEF WinnerOK
<1>10. Completed(m, p)
  <2>1. winner[m] = NoPlayer
    BY <1>2, <1>9 DEF Rows, PlayedRow
  <2>2. /\ status' = [status EXCEPT ![m] = "COMPLETED"]
        /\ winner' = IF p = NoPlayer THEN winner ELSE [winner EXCEPT ![m] = p]
        /\ bye' = bye \/ bye' = [bye EXCEPT ![m] = TRUE]
    BY <1>5, <1>6, <1>7 DEF Complete
  <2>3. winner' = [winner EXCEPT ![m] = p]
    BY <1>2, <2>1, <2>2 DEF IInv, TypeOK
  <2>4. \A x \in Match : x # m => bye'[x] = bye[x]
    BY <1>2, <2>2 DEF IInv, TypeOK
  <2> QED
    BY <1>1, <2>2, <2>3, <2>4 DEF Completed
<1>11. Rows' /\ DeciderRow' /\ (\A q : Decisive(q) => Decisive(q)') /\ Onward(m)
  BY <1>2, <1>3, <1>4, <1>9, <1>10, CompletedRows
<1>12. Table'
  <2>1. over' = over /\ champion' = champion
    BY <1>1
  <2>2. PICK q : q = champion
    OBVIOUS
  <2>3. over => Decisive(q)'
    BY <1>3, <1>11, <2>2
  <2>4. over' => Decisive(champion)'
    BY <2>1, <2>2, <2>3 DEF Decisive
  <2> QED
    BY <1>11, <2>4 DEF Table
<1>13. /\ status'[m] = "COMPLETED" /\ winner'[m] = p
       /\ \A x \in Match : x # m => status'[x] = status[x]
  BY <1>2, <1>10 DEF Completed, IInv, TypeOK
<1>14. CASE p # NoPlayer
  <2>1. PICK h : h = Call("Handle", m, NoPlayer)
    OBVIOUS
  <2>2. h \in SafeCalls /\ h.op = "Handle" /\ h.m = m
    BY <2>1, CallSafe, CallFields DEF Op
  <2>3. PICK no : no = FALSE
    OBVIOUS
  <2>4. PICK made \in Seq(SafeCalls) :
           /\ made = Unless(no, h) /\ Ordered(made)
           /\ (\A e \in On(made) : e = h /\ ~no) /\ (~no => h \in On(made))
    BY <2>2, SomeCall
  <2>5. Return(r, made)
    <3>1. Return(r, <<h>>)
      BY <1>5, <1>6, <1>7, <1>14, <2>1 DEF Complete
    <3> QED
      BY <2>3, <2>4, <3>1 DEF Unless
  <2>6. CallOK(h)'
    <3>1. \A d \in Destinations(m) : status'[d] = "PENDING"
      <4> SUFFICES ASSUME NEW d \in Destinations(m)
                   PROVE  status'[d] = "PENDING"
        OBVIOUS
      <4>1. d \in Fed /\ m \in Feeders(d) /\ Rank[m] < Rank[d]
        BY <1>2, Links DEF Destinations
      <4>2. status[d] = "PENDING"
        BY <1>2, <1>9, <4>1, PendingAhead
      <4>3. d # m /\ d \in Match
        BY <4>1, FedMatches, ShapeAssumption
      <4> QED
        BY <1>13, <4>2, <4>3
    <3> QED
      BY <1>13, <1>14, <2>2, <3>1 DEF CallOK, Done, Moves, Completes, Destinations
  <2>7. Follows(h, c)
    BY <1>1, <1>5, <1>6, <2>2, SameRank DEF Follows, Verdicts, Quits
  <2>8. \A e \in On(made) : CallOK(e)' /\ Follows(e, c)
    BY <2>4, <2>6, <2>7
  <2>9. PICK S : S = On(made)
    OBVIOUS
  <2>10. TakesOver(S, c)
    <3>1. \E e \in S : e.op = "Handle" /\ e.m = m
      BY <2>2, <2>3, <2>4, <2>9
    <3>2. c.op \in {"Complete", "CompleteBye"}
      BY <1>1, <1>5
    <3> QED
      BY <1>2, <1>4, <1>6, <1>9, <1>10, <3>1, <3>2, CompletedTakesOver
  <2>11. Stack(calls[r])'
    BY <1>1, <1>5, <1>6, <1>11, <2>4, <2>5, <2>8, <2>9, <2>10, ReturnAfter DEF Verdicts, Quits
  <2> QED
    BY <1>12, <2>11
<1>15. CASE p = NoPlayer
  <2>1. PICK x, y : x = Call("Settle", Next[m], NoPlayer) /\ y = Call("Settle", LoserNext[m], NoPlayer)
    OBVIOUS
  <2>2. PICK noX, noY : noX = (Next[m] = NoMatch) /\ noY = (LoserNext[m] = NoMatch)
    OBVIOUS
  <2>3. x.op = "Settle" /\ x.m = Next[m] /\ y.op = "Settle" /\ y.m = LoserNext[m]
    BY <2>1, CallFields
  <2>4. (~noX => x \in SafeCalls) /\ (~noY => y \in SafeCalls)
    BY <2>1, <2>2, AlongLinks, CallSafe DEF Op
  <2>5. PICK below \in Seq(SafeCalls) :
           /\ below = Unless(noX, x) /\ Ordered(below)
           /\ (\A e \in On(below) : e = x /\ ~noX) /\ (~noX => x \in On(below))
    BY <2>4, SomeCall
  <2>6. PICK side \in Seq(SafeCalls) :
           /\ side = Unless(noY, y) /\ Ordered(side)
           /\ (\A e \in On(side) : e = y /\ ~noY) /\ (~noY => y \in On(side))
    BY <2>4, SomeCall
  <2>7. PICK made \in Seq(SafeCalls) :
           made = below \o side /\ Ordered(made) /\ On(made) = On(below) \cup On(side)
    <3>1. \A e \in On(below), g \in On(side) : Above(e, g)
      BY <2>3, <2>6 DEF Above
    <3> QED
      BY <2>5, <2>6, <3>1, Joined
  <2>8. Return(r, made)
    BY <1>5, <1>6, <1>7, <1>15, <2>1, <2>2, <2>5, <2>6, <2>7 DEF Complete
  <2>9. \A e \in On(made) : CallOK(e)' /\ Follows(e, c)
    <3>1. CallOK(x)' /\ CallOK(y)'
      BY <2>3 DEF CallOK, Moves, Completes
    <3>2. ~noX => Follows(x, c)
      <4> SUFFICES ASSUME ~noX
                   PROVE  Follows(x, c)
        OBVIOUS
      <4>1. Next[m] \in Fed /\ Rank[m] < Rank[Next[m]]
        BY <1>2, <2>2, Links
      <4>2. Rank[m] \in Nat /\ Rank[Next[m]] \in Nat
        BY <4>1, FedMatches, ShapeAssumption
      <4>3. Rank[c.m] <= Rank[x.m]
        BY <1>6, <2>3, <4>1, <4>2
      <4> QED
        BY <1>1, <1>5, <2>3, <4>3 DEF Follows, Verdicts, Quits
    <3>3. ~noY => Follows(y, c)
      <4> SUFFICES ASSUME ~noY
                   PROVE  Follows(y, c)
        OBVIOUS
      <4>1. LoserNext[m] \in Fed /\ Rank[m] < Rank[LoserNext[m]]
        BY <1>2, <2>2, Links
      <4>2. Rank[m] \in Nat /\ Rank[LoserNext[m]] \in Nat
        BY <4>1, FedMatches, ShapeAssumption
      <4>3. Rank[c.m] <= Rank[y.m]
        BY <1>6, <2>3, <4>1, <4>2
      <4> QED
        BY <1>1, <1>5, <2>3, <4>3 DEF Follows, Verdicts, Quits
    <3> QED
      BY <2>5, <2>6, <2>7, <3>1, <3>2, <3>3
  <2>10. PICK S : S = On(made)
    OBVIOUS
  <2>11. \A d \in Fed : m \in Feeders(d) => \E h \in S : h.op = "Settle" /\ h.m = d
    <3> SUFFICES ASSUME NEW d \in Fed, m \in Feeders(d)
                 PROVE  \E h \in S : h.op = "Settle" /\ h.m = d
      OBVIOUS
    <3>1. d \in Match /\ d # NoMatch
      BY FedMatches, WiringAssumption
    <3>2. Next[m] = d \/ LoserNext[m] = d
      BY DEF Feeders
    <3>3. Next[m] = d => x \in S /\ x.m = d
      BY <2>2, <2>3, <2>5, <2>7, <2>10, <3>1
    <3>4. LoserNext[m] = d => y \in S /\ y.m = d
      BY <2>2, <2>3, <2>6, <2>7, <2>10, <3>1
    <3> QED
      BY <2>3, <3>2, <3>3, <3>4
  <2>12. TakesOver(S, c)
    <3>1. c.op \in {"Complete", "CompleteBye"}
      BY <1>1, <1>5
    <3> QED
      BY <1>2, <1>4, <1>6, <1>9, <1>10, <1>15, <2>11, <3>1, CompletedTakesOver
  <2>13. Stack(calls[r])'
    BY <1>1, <1>5, <1>6, <1>11, <2>7, <2>8, <2>9, <2>10, <2>12, ReturnAfter DEF Verdicts, Quits
  <2> QED
    BY <1>12, <2>13
<1> QED
  BY <1>14, <1>15

---------------------------------------------------------------------------
(* What a tournament that is over has been decided by stays.               *)
LEMMA OverStays ==
    ASSUME over => Decisive(champion), \A q : Decisive(q) => Decisive(q)',
           UNCHANGED <<over, champion>>
    PROVE  over' => Decisive(champion)'
<1>1. PICK q : q = champion
  OBVIOUS
<1>2. over => Decisive(q)'
  BY <1>1
<1>3. champion' = q /\ over' = over
  BY <1>1
<1> QED
  BY <1>2, <1>3 DEF Decisive

(* The player who is moved comes to the match he was delivered to.         *)
LEMMA FillGoesOn ==
    ASSUME NEW r, Cascade(r), Fill(r)
    PROVE  Stack(calls[r])' /\ Table'
<1>1. /\ ~Idle(r) /\ Top(r).op \in {"Fill1", "Fill2"}
      /\ UNCHANGED <<status, winner, bye, over, champion>>
  BY DEF Fill, Running
<1>2. /\ Top(r) \in SafeCalls /\ CallOK(Top(r)) /\ LosersBracket /\ IInv /\ r \in Request
      /\ Rows /\ Fresh(calls[r])
  BY <1>1, CascadeFacts
<1>3. DeciderRow /\ (over => Decisive(champion))
  BY DEF Cascade, Table
<1>4. Stands
  BY <1>2, FillStands
<1>5. PICK c \in SafeCalls : c = Top(r)
  BY <1>2
<1>6. MoveOK(c)
  BY <1>1, <1>2, <1>5 DEF CallOK, Moves
<1>7. PICK d \in Fed : d = c.m
  BY <1>6 DEF MoveOK
<1>8. PICK p \in DeliveredTo(d) : p = c.p
  BY <1>6, <1>7 DEF MoveOK
<1>9. PICK i \in 1..2 : i = IF c.op = "Fill1" THEN 1 ELSE 2
  OBVIOUS
<1>10. /\ d \in Match /\ p # NoPlayer /\ p \notin Present(d) /\ status[d] = "PENDING"
       /\ slots[d][i] = NoPlayer /\ d \notin FirstRound /\ d # Decider
  BY <1>1, <1>5, <1>6, <1>7, <1>8, <1>9, FedMatches DEF MoveOK, DeliveredTo, Fed
<1>11. PICK now \in [1..2 -> Seat] :
          /\ now = [slots[d] EXCEPT ![i] = p] /\ slots' = [slots EXCEPT ![d] = now]
          /\ now[i] = p /\ \A j \in 1..2 : j # i => now[j] = slots[d][j]
  <2>1. slots[d] \in [1..2 -> Seat] /\ p \in Seat
    BY <1>2, <1>5, <1>8, <1>10 DEF IInv, TypeOK, SafeCalls, Calls
  <2>2. [slots[d] EXCEPT ![i] = p] \in [1..2 -> Seat]
    BY <2>1
  <2>3. slots' = [slots EXCEPT ![d] = [slots[d] EXCEPT ![i] = p]]
    BY <1>5, <1>7, <1>8, <1>9 DEF Fill
  <2> QED
    BY <2>1, <2>2, <2>3
<1>12. slots'[d] = now /\ \A x \in Match : x # d => slots'[x] = slots[x]
  BY <1>2, <1>10, <1>11 DEF IInv, TypeOK
<1>13. /\ Present(d)' = Present(d) \cup {p}
       /\ \A x \in Match : x # d => Present(x)' = Present(x) /\ Full(x)' = Full(x)
  <2>1. Present(d)' = {now[1], now[2]} \ {NoPlayer}
    BY <1>12 DEF Present
  <2>4. \A x \in Match : x # d => Present(x)' = Present(x) /\ Full(x)' = Full(x)
    BY <1>12 DEF Present, Full
  <2>2. CASE i = 1
    <3>1. now[1] = p /\ now[2] = slots[d][2] /\ slots[d][1] = NoPlayer /\ p # NoPlayer
      BY <1>10, <1>11, <2>2
    <3>2. {now[1], now[2]} \ {NoPlayer} = ({slots[d][1], slots[d][2]} \ {NoPlayer}) \cup {p}
      BY <3>1
    <3>3. Present(d) = {slots[d][1], slots[d][2]} \ {NoPlayer}
      BY DEF Present
    <3> QED
      BY <2>1, <2>4, <3>2, <3>3
  <2>3. CASE i = 2
    <3>1. now[2] = p /\ now[1] = slots[d][1] /\ slots[d][2] = NoPlayer /\ p # NoPlayer
      BY <1>10, <1>11, <2>3
    <3>2. {now[1], now[2]} \ {NoPlayer} = ({slots[d][1], slots[d][2]} \ {NoPlayer}) \cup {p}
      BY <3>1
    <3>3. Present(d) = {slots[d][1], slots[d][2]} \ {NoPlayer}
      BY DEF Present
    <3> QED
      BY <2>1, <2>4, <3>2, <3>3
  <2> QED
    BY <2>2, <2>3
<1>14. ~Done(d) /\ \A x : Done(x)' = Done(x)
  BY <1>1, <1>10 DEF Done
<1>15. \A x : Ready(x)' = Ready(x)
  BY <1>14 DEF Ready, Fed, FirstRound, Feeders
<1>16. Onward(d)
  <2>1. ~Full(d)
    BY <1>9, <1>10 DEF Full
  <2> QED
    BY <1>1, <1>4, <1>12, <1>13, <2>1, FedMatches DEF Onward
<1>17. ASSUME NEW e \in Fed
       PROVE  FedRow(e)'
  <2>1. FedRow(e) /\ e \in Match /\ DeliveredTo(e) \subseteq DeliveredTo(e)'
    BY <1>2, <1>4, FedMatches, DeliveredGrows DEF Rows
  <2>2. CASE e # d
    BY <1>1, <1>12, <1>13, <1>15, <2>1, <2>2 DEF FedRow
  <2>3. CASE e = d
    <3>1. Present(d)' \subseteq DeliveredTo(d)'
      BY <1>8, <1>13, <2>1, <2>3 DEF FedRow
    <3>2. Full(d)' => slots'[d][1] # slots'[d][2]
      <4>1. \A j \in 1..2 : j # i => slots[d][j] # p
        BY <1>10 DEF Present
      <4> QED
        BY <1>9, <1>11, <1>12, <4>1
    <3> QED
      BY <1>1, <1>10, <2>1, <2>3, <3>1, <3>2 DEF FedRow
  <2> QED
    BY <2>2, <2>3
<1>18. ASSUME NEW x \in Match
       PROVE  PlayedRow(x)'
  <2>1. PlayedRow(x)
    BY <1>2 DEF Rows
  <2>2. CASE x # d
    BY <1>1, <1>12, <1>13, <1>14, <2>1, <2>2 DEF PlayedRow, FirstRound
  <2>3. CASE x = d
    BY <1>1, <1>10, <1>14, <2>1, <2>3 DEF PlayedRow, FirstRound
  <2> QED
    BY <2>2, <2>3
<1>19. Rows'
  <2>1. Fed' = Fed
    BY DEF Fed, FirstRound
  <2> QED
    BY <1>17, <1>18, <2>1 DEF Rows
<1>20. DeciderRow' /\ \A q : Decisive(q) => Decisive(q)'
  <2>1. Double => /\ status'[Decider] = "ABSENT" <=> status[Decider] = "ABSENT"
                  /\ slots'[Decider] = slots[Decider]
    BY <1>1, <1>2, <1>10, <1>12, Finalists
  <2> QED
    BY <1>2, <1>3, <1>4, <2>1, DeciderStays
<1>21. Table'
  BY <1>1, <1>3, <1>19, <1>20, OverStays DEF Table
<1>22. PICK x : x = Call("Resolve", d, NoPlayer)
  OBVIOUS
<1>23. x \in SafeCalls /\ x.op = "Resolve" /\ x.m = d
  BY <1>10, <1>22, CallSafe, CallFields DEF Op
<1>24. PICK none : none = ~(now[1] # NoPlayer /\ now[2] # NoPlayer)
  OBVIOUS
<1>25. PICK made \in Seq(SafeCalls) :
          /\ made = Unless(none, x) /\ Ordered(made)
          /\ \A e \in On(made) : e = x /\ ~none
  BY <1>23, SomeCall
<1>26. Return(r, made)
  <2>1. ~bye[d]
    BY <1>2, <1>10 DEF Rows, FedRow
  <2>2. Return(r, IF now[1] # NoPlayer /\ now[2] # NoPlayer THEN <<x>>
                  ELSE Unless(~bye[d], Call("Complete", d, p)))
    BY <1>5, <1>7, <1>8, <1>9, <1>11, <1>22 DEF Fill
  <2> QED
    BY <1>24, <1>25, <2>1, <2>2 DEF Unless
<1>27. \A e \in On(made) : CallOK(e)' /\ Follows(e, c)
  <2>1. CallOK(x)'
    BY <1>1, <1>10, <1>23 DEF CallOK, Moves, Completes
  <2>2. Follows(x, c)
    BY <1>1, <1>5, <1>7, <1>10, <1>23, SameRank DEF Follows, Verdicts, Quits
  <2> QED
    BY <1>25, <2>1, <2>2
<1>28. PICK S : S = On(made)
  OBVIOUS
<1>29. TakesOver(S, c)
  <2>1. ASSUME NEW e \in Fed, NEW f \in Feeders(e),
               Delivers(f, e) \in Present(e) \cup {NoPlayer} \/ Owes(c, f, e)
        PROVE  Brought(S, f, e)'
    <3>1. f \in Match /\ e \in Match
      BY FedMatches
    <3>2. Delivers(f, e)' = Delivers(f, e)
      BY <1>1, <1>12, <1>14, <3>1, DeliversSame
    <3>3. CASE Delivers(f, e) \in Present(e) \cup {NoPlayer}
      BY <1>13, <3>1, <3>2, <3>3 DEF Brought
    <3>4. CASE Owes(c, f, e)
      <4>1. e = d /\ Delivers(f, e) = p
        BY <1>1, <1>5, <1>7, <1>8, <3>4 DEF Owes
      <4> QED
        BY <1>13, <3>2, <4>1 DEF Brought
    <3> QED
      BY <2>1, <3>3, <3>4
  <2>2. ASSUME NEW e \in Fed, Tends(c, e) \/ ~Ready(e)
        PROVE  Tended(S, e)'
    <3>1. CASE ~Ready(e)
      BY <1>15, <3>1 DEF Tended
    <3>2. CASE Tends(c, e)
      <4>1. e = d
        BY <1>1, <1>5, <1>7, <3>2 DEF Tends
      <4>2. Present(d)' # {}
        BY <1>13
      <4> QED
        BY <4>1, <4>2 DEF Tended
    <3> QED
      BY <2>2, <3>1, <3>2
  <2> QED
    BY <2>1, <2>2 DEF TakesOver
<1>30. Stack(calls[r])'
  BY <1>1, <1>5, <1>7, <1>16, <1>25, <1>26, <1>27, <1>28, <1>29, ReturnAfter DEF Verdicts, Quits
<1> QED
  BY <1>21, <1>30

(* A match is started by both its players, whose feeders are done.         *)
LEMMA StartGoesOn ==
    ASSUME NEW r, Cascade(r), Start(r)
    PROVE  Stack(calls[r])' /\ Table'
<1>1. /\ ~Idle(r) /\ Top(r).op = "Start" /\ Return(r, <<>>)
      /\ UNCHANGED <<slots, winner, bye, over, champion>>
  BY DEF Start, Running
<1>2. /\ Top(r) \in SafeCalls /\ CallOK(Top(r)) /\ LosersBracket /\ IInv /\ r \in Request
      /\ Rows /\ Fresh(calls[r]) /\ ~Done(Top(r).m)
  BY <1>1, CascadeFacts, WriteOpen DEF Writes
<1>3. DeciderRow /\ (over => Decisive(champion))
  BY DEF Cascade, Table
<1>4. Stands
  BY <1>2, StartStands
<1>5. PICK c \in SafeCalls : c = Top(r)
  BY <1>2
<1>6. PICK m \in Match : m = c.m
  BY <1>1, <1>2, <1>5 DEF SafeCalls, Quits
<1>7. Ready(m) /\ status[m] # "ABSENT" /\ ~Done(m)
  BY <1>1, <1>2, <1>5, <1>6 DEF CallOK
<1>8. status'[m] = "ONGOING" /\ \A x \in Match : x # m => status'[x] = status[x]
  BY <1>2, <1>5, <1>6 DEF Start, IInv, TypeOK
<1>9. \A x : Present(x)' = Present(x) /\ Full(x)' = Full(x)
  BY <1>1 DEF Present, Full
<1>10. \A x \in Match : Done(x)' = Done(x)
  BY <1>7, <1>8 DEF Done
<1>11. \A x : Ready(x)' = Ready(x)
  BY <1>10, FedMatches DEF Ready, Fed, FirstRound, Feeders
<1>12. Onward(m)
  BY <1>1, <1>4, <1>8, <1>9 DEF Onward
<1>13. ASSUME NEW e \in Fed
       PROVE  FedRow(e)'
  <2>1. FedRow(e) /\ e \in Match /\ DeliveredTo(e) \subseteq DeliveredTo(e)'
    BY <1>2, <1>4, FedMatches, DeliveredGrows DEF Rows
  <2>2. Present(e)' \subseteq DeliveredTo(e)'
    BY <1>9, <2>1 DEF FedRow
  <2>3. Full(e)' => slots'[e][1] # slots'[e][2]
    BY <1>1, <1>9, <2>1 DEF FedRow
  <2>4. status'[e] # "PENDING" => Ready(e)'
    BY <1>7, <1>8, <1>11, <2>1 DEF FedRow
  <2>5. bye'[e] => status'[e] # "PENDING"
    BY <1>1, <1>8, <2>1 DEF FedRow
  <2> QED
    BY <2>2, <2>3, <2>4, <2>5 DEF FedRow
<1>14. ASSUME NEW x \in Match
       PROVE  PlayedRow(x)'
  <2>1. PlayedRow(x)
    BY <1>2 DEF Rows
  <2>2. status'[x] = "ABSENT" => status[x] = "ABSENT"
    BY <1>8
  <2> QED
    BY <1>1, <1>9, <1>10, <2>1, <2>2 DEF PlayedRow, FirstRound
<1>15. Rows'
  <2>1. Fed' = Fed
    BY DEF Fed, FirstRound
  <2> QED
    BY <1>13, <1>14, <2>1 DEF Rows
<1>16. DeciderRow' /\ \A q : Decisive(q) => Decisive(q)'
  <2>1. Double => /\ status'[Decider] = "ABSENT" <=> status[Decider] = "ABSENT"
                  /\ slots'[Decider] = slots[Decider]
    BY <1>1, <1>2, <1>7, <1>8, Finalists
  <2> QED
    BY <1>2, <1>3, <1>4, <2>1, DeciderStays
<1>17. Table'
  BY <1>1, <1>3, <1>15, <1>16, OverStays DEF Table
<1>18. PICK none : none = TRUE
  OBVIOUS
<1>19. PICK made \in Seq(SafeCalls) :
          /\ made = Unless(none, c) /\ Ordered(made)
          /\ \A e \in On(made) : e = c /\ ~none
  BY SomeCall
<1>20. Return(r, made)
  BY <1>1, <1>18, <1>19 DEF Unless
<1>21. PICK S : S = On(made)
  OBVIOUS
<1>22. TakesOver(S, c)
  <2>1. ASSUME NEW e \in Fed, NEW f \in Feeders(e),
               Delivers(f, e) \in Present(e) \cup {NoPlayer} \/ Owes(c, f, e)
        PROVE  Brought(S, f, e)'
    <3>1. f \in Match
      BY FedMatches
    <3>2. Delivers(f, e)' = Delivers(f, e)
      BY <1>1, <1>7, <1>8, <1>10, <3>1, DeliversSame
    <3>3. ~Owes(c, f, e)
      BY <1>1, <1>5 DEF Owes, Moves
    <3> QED
      BY <1>9, <2>1, <3>2, <3>3 DEF Brought
  <2>2. ASSUME NEW e \in Fed, Tends(c, e) \/ ~Ready(e)
        PROVE  Tended(S, e)'
    <3>1. ~Tends(c, e)
      BY <1>1, <1>5 DEF Tends, Moves
    <3> QED
      BY <1>11, <2>2, <3>1 DEF Tended
  <2> QED
    BY <2>1, <2>2 DEF TakesOver
<1>23. \A e \in On(made) : CallOK(e)' /\ Follows(e, c)
  BY <1>18, <1>19
<1>24. Stack(calls[r])'
  BY <1>1, <1>5, <1>6, <1>12, <1>19, <1>20, <1>21, <1>22, <1>23, ReturnAfter DEF Verdicts, Quits
<1> QED
  BY <1>17, <1>24

---------------------------------------------------------------------------
(* The reset match gets the two players of the grand final.                *)
LEMMA CreateDeciderGoesOn ==
    ASSUME NEW r, Cascade(r), CreateDecider(r)
    PROVE  Stack(calls[r])' /\ Table'
<1>1. ~Idle(r) /\ Top(r).op = "CreateDecider" /\ UNCHANGED <<winner, bye, over, champion>>
  BY DEF CreateDecider, Running
<1>2. /\ Top(r) \in SafeCalls /\ CallOK(Top(r)) /\ LosersBracket /\ IInv /\ r \in Request
      /\ Rows /\ Fresh(calls[r])
  BY <1>1, CascadeFacts
<1>3. over => Decisive(champion)
  BY DEF Cascade, Table
<1>4. Stands
  BY <1>2, CreateDeciderStands
<1>5. PICK c \in SafeCalls : c = Top(r)
  BY <1>2
<1>6. /\ status[Decider] = "ABSENT" /\ CallsForReset
      /\ c.p = slots[GrandFinal][1] /\ c.q = slots[GrandFinal][2]
  BY <1>1, <1>2, <1>5 DEF CallOK
<1>7. Double /\ Done(GrandFinal)
  BY <1>6 DEF CallsForReset
<1>8. GrandFinal \in Fed /\ GrandFinal \in Match /\ Decider \in Match /\ Decider \notin Fed
          /\ Decider \notin FirstRound
  BY <1>2, <1>7, Finalists, FedMatches, WiringAssumption
<1>9. /\ status' = [status EXCEPT ![Decider] = "PENDING"]
      /\ slots' = [slots EXCEPT ![Decider] = <<c.p, c.q>>]
      /\ Return(r, <<>>)
  BY <1>5, <1>6 DEF CreateDecider
<1>10. /\ status'[Decider] = "PENDING"
       /\ slots'[Decider] = <<c.p, c.q>>
       /\ \A x \in Match : x # Decider => status'[x] = status[x] /\ slots'[x] = slots[x]
  BY <1>2, <1>8, <1>9 DEF IInv, TypeOK
<1>11. \A x \in Match : Done(x)' = Done(x)
  BY <1>6, <1>10 DEF Done
<1>12. \A x : Ready(x)' = Ready(x)
  BY <1>11, FedMatches DEF Ready, Fed, FirstRound, Feeders
<1>13. \A x \in Match : x # Decider => Present(x)' = Present(x) /\ Full(x)' = Full(x)
  BY <1>10 DEF Present, Full
<1>14. Onward(Decider)
  BY <1>1, <1>4, <1>6, <1>8, <1>10, <1>13, FedMatches DEF Onward
<1>15. ASSUME NEW e \in Fed
       PROVE  FedRow(e)'
  <2>1. FedRow(e) /\ e \in Match /\ e # Decider /\ DeliveredTo(e) \subseteq DeliveredTo(e)'
    BY <1>2, <1>4, <1>8, FedMatches, DeliveredGrows DEF Rows
  <2> QED
    BY <1>1, <1>10, <1>12, <1>13, <2>1 DEF FedRow
<1>16. ASSUME NEW x \in Match
       PROVE  PlayedRow(x)'
  <2>1. PlayedRow(x)
    BY <1>2 DEF Rows
  <2>2. CASE x # Decider
    BY <1>1, <1>10, <1>11, <1>13, <2>1, <2>2 DEF PlayedRow, FirstRound
  <2>3. CASE x = Decider
    <3>1. ~Done(x) /\ ~Done(x)'
      BY <1>6, <1>11, <2>3 DEF Done
    <3> QED
      BY <1>1, <1>8, <1>10, <2>1, <2>3, <3>1 DEF PlayedRow, FirstRound
  <2> QED
    BY <2>2, <2>3
<1>17. Rows'
  <2>1. Fed' = Fed
    BY DEF Fed, FirstRound
  <2> QED
    BY <1>15, <1>16, <2>1 DEF Rows
<1>18. DeciderRow'
  <2>1. CallsForReset'
    BY <1>2, <1>4, <1>6, <1>7, ResetCallStays
  <2>2. GrandFinal # Decider
    BY <1>8
  <2>3. slots'[GrandFinal] = slots[GrandFinal]
    BY <1>8, <1>10, <2>2
  <2>4. slots'[Decider][1] = slots'[GrandFinal][1] /\ slots'[Decider][2] = slots'[GrandFinal][2]
    BY <1>6, <1>10, <2>3
  <2>5. \A i \in 1..2 : i = 1 \/ i = 2
    OBVIOUS
  <2> QED
    BY <2>1, <2>4, <2>5 DEF DeciderRow
<1>19. ~over
  BY <1>3, <1>6, <1>7 DEF Decisive
<1>20. Table'
  BY <1>1, <1>17, <1>18, <1>19 DEF Table
<1>21. PICK none : none = TRUE
  OBVIOUS
<1>22. PICK made \in Seq(SafeCalls) :
          /\ made = Unless(none, c) /\ Ordered(made)
          /\ \A e \in On(made) : e = c /\ ~none
  BY SomeCall
<1>23. Return(r, made)
  BY <1>9, <1>21, <1>22 DEF Unless
<1>24. PICK S : S = On(made)
  OBVIOUS
<1>25. TakesOver(S, c)
  <2>1. ASSUME NEW e \in Fed, NEW f \in Feeders(e),
               Delivers(f, e) \in Present(e) \cup {NoPlayer} \/ Owes(c, f, e)
        PROVE  Brought(S, f, e)'
    <3>1. f \in Match /\ e \in Match /\ e # Decider
      BY <1>8, FedMatches
    <3>2. f = Decider => ~Done(f) /\ ~Done(f)'
      BY <1>6, <1>10 DEF Done
    <3>3. Delivers(f, e)' = Delivers(f, e)
      BY <1>1, <1>10, <3>1, <3>2, DeliversSame
    <3>4. ~Owes(c, f, e)
      BY <1>1, <1>5 DEF Owes, Moves
    <3> QED
      BY <1>13, <2>1, <3>1, <3>3, <3>4 DEF Brought
  <2>2. ASSUME NEW e \in Fed, Tends(c, e) \/ ~Ready(e)
        PROVE  Tended(S, e)'
    <3>1. ~Tends(c, e)
      BY <1>1, <1>5 DEF Tends, Moves
    <3> QED
      BY <1>12, <2>2, <3>1 DEF Tended
  <2> QED
    BY <2>1, <2>2 DEF TakesOver
<1>26. \A e \in On(made) : CallOK(e)' /\ Follows(e, c)
  BY <1>21, <1>22
<1>27. Stack(calls[r])'
  BY <1>1, <1>5, <1>8, <1>14, <1>22, <1>23, <1>24, <1>25, <1>26, ReturnAfter
<1> QED
  BY <1>20, <1>27

(* Between requests nothing is owed; a request begins with a call that     *)
(* may rely on what it read.                                               *)
LEMMA NothingOn == On(<<>>) = {} /\ Ordered(<<>>)
<1>1. Unless(TRUE, 0) = <<>>
  BY DEF Unless
<1> QED
  BY <1>1, OnUnless

LEMMA BeginGoesOn ==
    ASSUME NEW r, Cascade(r), Idle(r), UNCHANGED bracket, UNCHANGED <<over, champion>>,
           NEW c, Begin(r, c), CallOK(c)
    PROVE  Stack(calls[r])' /\ Table'
<1>1. r \in Request /\ IInv /\ Rows /\ Stack(calls[r]) /\ calls[r] = <<>>
  BY CascadeFacts DEF Idle
<1>2. DeciderRow /\ (over => Decisive(champion))
  BY DEF Cascade, Table
<1>3. PICK s : s = <<>>
  OBVIOUS
<1>4. Stack(s) /\ On(s) = {}
  BY <1>1, <1>3, NothingOn
<1>5. PICK no : no = FALSE
  OBVIOUS
<1>6. PICK t : t = Unless(no, c)
  OBVIOUS
<1>7. On(t) = {c} /\ Ordered(t)
  BY <1>5, <1>6, OnUnless
<1>8. calls'[r] = t
  BY <1>1, <1>5, <1>6 DEF IInv, TypeOK, Begin, Unless
<1>9. Table'
  <2>1. Rows' /\ DeciderRow' /\ \A q : Decisive(q) => Decisive(q)'
    BY <1>1, <1>2, SameRows
  <2> QED
    BY <1>2, <2>1, OverStays DEF Table
<1>10. Stack(t)'
  <2>1. Ordered(t)'
    BY <1>7 DEF Ordered, Above
  <2>2. On(t)' = On(t)
    BY DEF On
  <2>3. CallOK(c)'
    BY SameRows
  <2>4. \A a \in On(t) : CallOK(a)'
    BY <1>7, <2>3
  <2>5. \A d \in Fed : \A f \in Feeders(d) : Brought(On(t), f, d)'
    <3> SUFFICES ASSUME NEW d \in Fed, NEW f \in Feeders(d)
                 PROVE  Brought(On(t), f, d)'
      OBVIOUS
    <3>1. PICK S : S = On(t)
      OBVIOUS
    <3>2. Brought({}, f, d)
      BY <1>4 DEF Stack
    <3>3. Brought(S, f, d)
      BY <3>2 DEF Brought
    <3>4. Brought(S, f, d)'
      BY <3>3, SameRows
    <3> QED
      BY <2>2, <3>1, <3>4
  <2>6. ASSUME MaxResets = 0
        PROVE  \A d \in Fed : Tended(On(t), d)'
    <3> SUFFICES ASSUME NEW d \in Fed
                 PROVE  Tended(On(t), d)'
      OBVIOUS
    <3>1. PICK S : S = On(t)
      OBVIOUS
    <3>2. Tended({}, d)
      BY <1>4, <2>6 DEF Stack
    <3>3. Tended(S, d)
      BY <3>2 DEF Tended
    <3>4. Tended(S, d)'
      BY <3>3, SameRows
    <3> QED
      BY <2>2, <3>1, <3>4
  <2>7. Fed' = Fed /\ \A d : Feeders(d)' = Feeders(d)
    BY DEF Fed, Feeders, FirstRound
  <2> QED
    BY <2>1, <2>2, <2>4, <2>5, <2>6, <2>7 DEF Stack
<1> QED
  BY <1>8, <1>9, <1>10

LEMMA SubmitResultGoesOn ==
    ASSUME NEW r, Cascade(r), NEW m \in Match, NEW w \in Player, SubmitResult(r, m, w)
    PROVE  Stack(calls[r])' /\ Table'
<1>1. PICK c : c = Call("Complete", m, w)
  OBVIOUS
<1>2. /\ Idle(r) /\ UNCHANGED bracket /\ UNCHANGED <<over, champion>> /\ Begin(r, c)
      /\ status[m] \in {"PENDING", "ONGOING"} /\ w \in Present(m) /\ (Full(m) \/ bye[m])
  BY <1>1, CascadeFacts DEF SubmitResult
<1>3. c.op = "Complete" /\ c.m = m /\ c.p = w
  BY <1>1, CallFields
<1>4. Ready(m)
  <2>1. Rows
    BY CascadeFacts
  <2>2. CASE Full(m)
    BY <2>1, <2>2, FullReady
  <2>3. CASE bye[m]
    BY <2>1, <2>3 DEF Rows, FedRow, Ready
  <2> QED
    BY <1>2, <2>2, <2>3
<1>5. w # NoPlayer
  BY <1>2 DEF Present
<1>6. WinnerOK(c)
  BY <1>2, <1>3, <1>4, <1>5 DEF WinnerOK
<1>7. CallOK(c)
  BY <1>3, <1>6 DEF CallOK, Moves, Completes
<1> QED
  BY <1>2, <1>7, BeginGoesOn

LEMMA StartMatchGoesOn ==
    ASSUME NEW r, Cascade(r), NEW m \in Match, StartMatch(r, m)
    PROVE  Stack(calls[r])' /\ Table'
<1>1. PICK c : c = Call("Start", m, NoPlayer)
  OBVIOUS
<1>2. /\ Idle(r) /\ UNCHANGED bracket /\ UNCHANGED <<over, champion>> /\ Begin(r, c)
      /\ status[m] = "PENDING" /\ Full(m)
  BY <1>1 DEF StartMatch
<1>3. c.op = "Start" /\ c.m = m
  BY <1>1, CallFields
<1>4. Ready(m)
  BY <1>2, CascadeFacts, FullReady
<1>5. CallOK(c)
  BY <1>2, <1>3, <1>4 DEF CallOK, Moves, Completes
<1> QED
  BY <1>2, <1>5, BeginGoesOn

LEMMA ForfeitGoesOn ==
    ASSUME NEW r, Cascade(r), NEW p \in Player, ForfeitParticipant(r, p)
    PROVE  Stack(calls[r])' /\ Table'
<1>1. PICK c : c = Call("List", NoMatch, p)
  OBVIOUS
<1>2. Idle(r) /\ UNCHANGED bracket /\ UNCHANGED <<over, champion>> /\ Begin(r, c)
  BY <1>1 DEF ForfeitParticipant
<1>3. c.op = "List"
  BY <1>1, CallFields
<1>4. CallOK(c)
  BY <1>3 DEF CallOK, Moves, Completes
<1> QED
  BY <1>2, <1>4, BeginGoesOn

---------------------------------------------------------------------------
(* A reset takes back what its match has delivered, and nothing else: what *)
(* the match feeds has not been played.                                    *)
LEMMA ResetRows ==
    ASSUME NEW r, Cascade(r), NEW m \in Match, Reset(r, m)
    PROVE  /\ status'[m] = "ONGOING" /\ winner'[m] = NoPlayer
           /\ slots'[m] = slots[m]
           /\ \A x \in Match : x # m => status'[x] = status[x] /\ winner'[x] = winner[x]
           /\ \A x \in Match : m \notin Feeders(x) => slots'[x] = slots[x]
           /\ \A d : \A f \in Match : f # m => Delivers(f, d)' = Delivers(f, d)
           /\ \A d : Delivers(m, d)' = NoPlayer
           /\ \A d \in Fed : m \in Feeders(d) =>
                 /\ status[d] = "PENDING"
                 /\ Present(d)' = DeliveredTo(d)'
                 /\ Full(d)' => slots'[d][1] # slots'[d][2]
<1>1. LosersBracket /\ IInv /\ Rows
  BY CascadeFacts
<1>2. /\ Done(m)
      /\ \A d \in Destinations(m) : status[d] = "PENDING"
      /\ status' = [status EXCEPT ![m] = "ONGOING"]
      /\ winner' = [winner EXCEPT ![m] = NoPlayer]
  BY DEF Reset
<1>3. /\ status'[m] = "ONGOING" /\ winner'[m] = NoPlayer
      /\ \A x \in Match : x # m => status'[x] = status[x] /\ winner'[x] = winner[x]
  BY <1>1, <1>2 DEF IInv, TypeOK
<1>4. PICK new : /\ \A d \in Destinations(m) : new[d] \in Reseated(d, m)
                 /\ slots' = [d \in Match |-> IF d \in Destinations(m) THEN new[d]
                                                                      ELSE slots[d]]
  BY DEF Reset
<1>5. \A d \in Match : d \in Destinations(m) <=> m \in Feeders(d)
  BY WiringAssumption DEF Destinations, Feeders
<1>6. \A x \in Match : m \notin Feeders(x) => slots'[x] = slots[x]
  BY <1>4, <1>5
<1>7. m \notin Destinations(m)
  BY <1>2 DEF Done
<1>8. slots'[m] = slots[m]
  BY <1>5, <1>6, <1>7
<1>9. ASSUME NEW f \in Match, NEW d, f # m
      PROVE  Delivers(f, d)' = Delivers(f, d)
  <2>1. CASE f \in Destinations(m)
    <3>1. ~Done(f) /\ ~Done(f)'
      BY <1>2, <1>3, <1>9, <2>1 DEF Done
    <3> QED
      BY <3>1, DeliversSame
  <2>2. CASE f \notin Destinations(m)
    <3>1. slots'[f] = slots[f]
      BY <1>5, <1>6, <2>2
    <3> QED
      BY <1>3, <1>9, <3>1, DeliversSame
  <2> QED
    BY <2>1, <2>2
<1>10. \A d : Delivers(m, d)' = NoPlayer
  BY <1>3 DEF Delivers, Done
<1>11. ASSUME NEW d \in Fed, m \in Feeders(d)
       PROVE  /\ status[d] = "PENDING"
              /\ Present(d)' = DeliveredTo(d)'
              /\ Full(d)' => slots'[d][1] # slots'[d][2]
  <2>1. d \in Match /\ d \in Destinations(m)
    BY <1>5, <1>11, FedMatches
  <2>2. PICK s : s = new[d]
    OBVIOUS
  <2>3. s \in Reseated(d, m) /\ slots'[d] = s
    BY <1>4, <2>1, <2>2
  <2>4. PICK given : given = {Delivers(f, d) : f \in Feeders(d) \ {m}} \ {NoPlayer}
    OBVIOUS
  <2>5. {s[1], s[2]} \ {NoPlayer} = given /\ (s[1] = s[2] => s[1] = NoPlayer)
    BY <2>3, <2>4 DEF Reseated
  <2>6. DeliveredTo(d)' = given
    <3>1. \A f \in Feeders(d) \ {m} : Delivers(f, d)' = Delivers(f, d)
      BY <1>9, FedMatches
    <3>2. Feeders(d)' = Feeders(d)
      BY DEF Feeders
    <3>3. DeliveredTo(d)' = {Delivers(f, d)' : f \in Feeders(d)} \ {NoPlayer}
      BY <3>2 DEF DeliveredTo
    <3>4. PICK gone : gone = Delivers(m, d)' /\ gone = NoPlayer
      BY <1>10
    <3> QED
      BY <2>4, <3>1, <3>3, <3>4
  <2>7. Present(d)' = given
    BY <2>3, <2>5 DEF Present
  <2>8. Full(d)' => slots'[d][1] # slots'[d][2]
    BY <2>3, <2>5 DEF Full
  <2> QED
    BY <1>2, <2>1, <2>6, <2>7, <2>8
<1> QED
  BY <1>3, <1>6, <1>8, <1>9, <1>10, <1>11

LEMMA ResetGoesOn ==
    ASSUME NEW r, Cascade(r), NEW m \in Match, Reset(r, m)
    PROVE  Stack(calls[r])' /\ Table'
<1>1. LosersBracket /\ IInv /\ Rows /\ r \in Request /\ Stack(calls[r]) /\ calls[r] = <<>>
  BY CascadeFacts DEF Reset, Idle
<1>2. DeciderRow
  BY DEF Cascade, Table
<1>3. /\ Done(m) /\ over' = FALSE /\ bye' = bye /\ calls' = calls
      /\ (Double /\ m = GrandFinal) => status[Decider] = "ABSENT"
      /\ resets < MaxResets
  BY DEF Reset
<1>4. /\ status'[m] = "ONGOING" /\ winner'[m] = NoPlayer /\ slots'[m] = slots[m]
      /\ \A x \in Match : x # m => status'[x] = status[x] /\ winner'[x] = winner[x]
      /\ \A x \in Match : m \notin Feeders(x) => slots'[x] = slots[x]
  BY ResetRows
<1>5. /\ \A d : \A f \in Match : f # m => Delivers(f, d)' = Delivers(f, d)
      /\ \A d : Delivers(m, d)' = NoPlayer
  BY ResetRows
<1>6. \A d \in Fed : m \in Feeders(d) =>
         /\ status[d] = "PENDING"
         /\ Present(d)' = DeliveredTo(d)'
         /\ Full(d)' => slots'[d][1] # slots'[d][2]
  BY ResetRows
<1>7. Fed' = Fed /\ FirstRound' = FirstRound /\ \A d : Feeders(d)' = Feeders(d)
  BY DEF Fed, FirstRound, Feeders
<1>8. \A d \in Fed : m \notin Feeders(d) =>
         /\ slots'[d] = slots[d] /\ Present(d)' = Present(d) /\ Full(d)' = Full(d)
         /\ DeliveredTo(d)' = DeliveredTo(d)
  <2> SUFFICES ASSUME NEW d \in Fed, m \notin Feeders(d)
               PROVE  /\ slots'[d] = slots[d] /\ Present(d)' = Present(d) /\ Full(d)' = Full(d)
                      /\ DeliveredTo(d)' = DeliveredTo(d)
    OBVIOUS
  <2>1. slots'[d] = slots[d]
    BY <1>4, FedMatches
  <2>2. \A f \in Feeders(d) : Delivers(f, d)' = Delivers(f, d)
    BY <1>5, FedMatches
  <2>3. DeliveredTo(d)' = DeliveredTo(d)
    BY <1>7, <2>2 DEF DeliveredTo
  <2> QED
    BY <2>1, <2>3 DEF Present, Full
<1>9. ASSUME NEW d \in Fed
      PROVE  FedRow(d)'
  <2>1. FedRow(d) /\ d \in Match
    BY <1>1, FedMatches DEF Rows
  <2>2. Present(d)' \subseteq DeliveredTo(d)' /\ (Full(d)' => slots'[d][1] # slots'[d][2])
    BY <1>6, <1>8, <2>1 DEF FedRow
  <2>3. bye'[d] => status'[d] # "PENDING"
    BY <1>3, <1>4, <2>1 DEF FedRow
  <2>4. ASSUME status'[d] # "PENDING"
        PROVE  Ready(d)'
    <3>1. status[d] # "PENDING"
      BY <1>3, <1>4, <2>1, <2>4 DEF Done
    <3>2. m \notin Feeders(d) /\ \A f \in Feeders(d) : Done(f) /\ f \in Match
      BY <1>6, <2>1, <3>1, FedMatches DEF FedRow, Ready
    <3>3. \A f \in Feeders(d) : Done(f)'
      BY <1>4, <3>2 DEF Done
    <3> QED
      BY <1>7, <3>3 DEF Ready
  <2> QED
    BY <2>2, <2>3, <2>4 DEF FedRow
<1>10. ASSUME NEW x \in Match
       PROVE  PlayedRow(x)'
  <2>1. PlayedRow(x)
    BY <1>1 DEF Rows
  <2>2. CASE x = m
    BY <1>4, <1>7, <2>1, <2>2 DEF PlayedRow, Done
  <2>3. CASE x # m /\ m \notin Feeders(x)
    <3>1. slots'[x] = slots[x] /\ status'[x] = status[x] /\ winner'[x] = winner[x]
      BY <1>4, <2>3
    <3> QED
      BY <1>7, <2>1, <3>1 DEF PlayedRow, Done, Present
  <2>4. CASE x # m /\ m \in Feeders(x)
    <3>1. x \in Fed
      BY <1>1, <2>4, Links, WiringAssumption DEF Feeders
    <3>2. status[x] = "PENDING" /\ status'[x] = "PENDING" /\ winner'[x] = winner[x]
      BY <1>4, <1>6, <2>4, <3>1
    <3>3. x \notin FirstRound
      BY <3>1 DEF Fed
    <3> QED
      BY <1>7, <2>1, <3>2, <3>3 DEF PlayedRow, Done
  <2> QED
    BY <2>2, <2>3, <2>4
<1>11. Rows'
  BY <1>7, <1>9, <1>10 DEF Rows
<1>12. ASSUME Double, status'[Decider] # "ABSENT"
       PROVE  CallsForReset' /\ \A i \in 1..2 : slots'[Decider][i] = slots'[GrandFinal][i]
  <2>1. GrandFinal \in Fed /\ GrandFinal \in Match /\ Decider \in Match /\ Decider \notin Fed
    BY <1>1, <1>12, Finalists, FedMatches
  <2>2. status[Decider] # "ABSENT"
    BY <1>3, <1>4, <1>12, <2>1 DEF Done
  <2>3. CallsForReset /\ \A i \in 1..2 : slots[Decider][i] = slots[GrandFinal][i]
    BY <1>2, <1>12, <2>2 DEF DeciderRow
  <2>4. Done(GrandFinal) /\ m # GrandFinal
    BY <1>3, <1>12, <2>2, <2>3 DEF CallsForReset
  <2>5. m \notin Feeders(GrandFinal)
    BY <1>6, <2>1, <2>4 DEF Done
  <2>6. m \notin Feeders(Decider)
    <3>1. \A d \in Match : m \in Feeders(d) => d \in Fed
      BY <1>1, Links, WiringAssumption DEF Feeders
    <3> QED
      BY <2>1, <3>1
  <2>7. slots'[GrandFinal] = slots[GrandFinal] /\ slots'[Decider] = slots[Decider]
    BY <1>4, <2>1, <2>5, <2>6
  <2>8. Done(GrandFinal)' /\ winner'[GrandFinal] = winner[GrandFinal]
    BY <1>4, <2>1, <2>4 DEF Done
  <2>9. PICK f \in Feeders(GrandFinal) \cap Winners :
           Next[f] = GrandFinal /\ \A g \in Winners : Next[g] = GrandFinal => g = f
    BY <1>1, <1>12, Finalists
  <2>10. (CHOOSE g \in Winners : Next[g] = GrandFinal) = f
    BY <2>9
  <2>11. f # m /\ f \in Match
    BY <2>5, <2>9, FedMatches
  <2>12. WinnersFinalist' = WinnersFinalist
    BY <1>4, <2>10, <2>11 DEF WinnersFinalist
  <2> QED
    BY <2>3, <2>7, <2>8, <2>12 DEF CallsForReset
<1>13. Table'
  BY <1>3, <1>11, <1>12 DEF Table, DeciderRow
<1>14. PICK s : s = <<>>
  OBVIOUS
<1>15. Stack(s) /\ On(s) = {}
  BY <1>1, <1>14, NothingOn
<1>16. Stack(s)'
  <2>1. Ordered(s)'
    BY <1>14, NothingOn DEF Ordered, Above
  <2>2. On(s)' = {}
    <3>1. On(s)' = On(s)
      BY DEF On
    <3> QED
      BY <1>15, <3>1
  <2>3. \A d \in Fed : \A f \in Feeders(d) : Brought({}, f, d)'
    <3> SUFFICES ASSUME NEW d \in Fed, NEW f \in Feeders(d)
                 PROVE  Delivers(f, d)' \in Present(d)' \cup {NoPlayer}
      BY DEF Brought
    <3>1. f \in Match
      BY FedMatches
    <3>2. CASE f = m
      BY <1>5, <3>2
    <3>3. CASE f # m /\ m \in Feeders(d)
      <4>1. PICK p : p = Delivers(f, d)'
        OBVIOUS
      <4>2. p # NoPlayer => p \in DeliveredTo(d)'
        BY <1>7, <4>1 DEF DeliveredTo
      <4> QED
        BY <1>6, <3>3, <4>1, <4>2
    <3>4. CASE f # m /\ m \notin Feeders(d)
      <4>1. Brought({}, f, d)
        BY <1>15 DEF Stack
      <4>2. Delivers(f, d) \in Present(d) \cup {NoPlayer}
        BY <4>1 DEF Brought
      <4> QED
        BY <1>5, <1>8, <3>1, <3>4, <4>2
    <3> QED
      BY <3>2, <3>3, <3>4
  <2>4. MaxResets # 0
    <3>1. resets \in Nat
      BY <1>1 DEF IInv, TypeOK
    <3> QED
      BY <1>3, <3>1
  <2> QED
    BY <1>7, <2>1, <2>2, <2>3, <2>4 DEF Stack
<1>17. Stack(calls[r])'
  BY <1>1, <1>3, <1>14, <1>16
<1> QED
  BY <1>13, <1>17

---------------------------------------------------------------------------
(* The bracket as it is drawn, with the byes to complete.                  *)
LEMMA InitCascade ==
    ASSUME Init, NEW r, Request = {r}, OneByOne
    PROVE  Cascade(r)
<1>1. Settled(r)
  BY InitSafe, InitFresh DEF Settled
<1>2. LosersBracket /\ IInv /\ r \in Request
  BY <1>1 DEF Settled, OneByOne
<1>3. /\ \A x \in Match : /\ status[x] = IF Double /\ x = Decider THEN "ABSENT" ELSE "PENDING"
                          /\ winner[x] = NoPlayer /\ bye[x] = HasBye(x)
                          /\ \A i \in 1..2 : x \notin FirstRound => slots[x][i] = NoPlayer
                          /\ x \in FirstRound => slots[x] = Entrants[x]
      /\ over = FALSE
  BY DEF Init
<1>4. \A x \in Match : ~Done(x)
  BY <1>3 DEF Done
<1>5. \A d : \A f \in Match : Delivers(f, d) = NoPlayer
  BY <1>4 DEF Delivers
<1>6. \A d \in Fed : Present(d) = {} /\ ~Full(d) /\ ~bye[d] /\ status[d] = "PENDING"
  <2> SUFFICES ASSUME NEW d \in Fed
               PROVE  Present(d) = {} /\ ~Full(d) /\ ~bye[d] /\ status[d] = "PENDING"
    OBVIOUS
  <2>1. d \in Match /\ d \notin FirstRound /\ d # Decider
    BY FedMatches DEF Fed
  <2>2. slots[d][1] = NoPlayer /\ slots[d][2] = NoPlayer
    BY <1>3, <2>1
  <2>3. ~bye[d] /\ status[d] = "PENDING"
    BY <1>3, <2>1 DEF HasBye
  <2> QED
    BY <2>2, <2>3 DEF Present, Full
<1>7. Rows
  <2>1. \A d \in Fed : FedRow(d)
    BY <1>6 DEF FedRow
  <2>2. \A x \in Match : PlayedRow(x)
    BY <1>3, <1>4 DEF PlayedRow
  <2> QED
    BY <2>1, <2>2 DEF Rows
<1>8. DeciderRow
  BY <1>2, <1>3, Finalists DEF DeciderRow
<1>9. PICK ms \in Orders({x \in FirstRound : HasBye(x)}) : calls[r] = ByeCalls(ms)
  BY <1>2 DEF Init
<1>10. PICK s \in Seq(SafeCalls) : s = calls[r]
  BY <1>2 DEF IInv
<1>11. \A e \in On(s) : \E x \in FirstRound : HasBye(x) /\ e = Call("Complete", x,
             IF Entrants[x][1] # NoPlayer THEN Entrants[x][1] ELSE Entrants[x][2])
  <2> DEFINE Byes == {x \in FirstRound : HasBye(x)}
             N == Cardinality(Byes)
  <2>1. N \in Nat
    <3>1. Byes \subseteq Match
      BY WiringAssumption
    <3> QED
      BY <3>1, WiringAssumption, FS_Subset, FS_CardinalityType
  <2>2. ms \in [1..N -> Byes]
    BY DEF Orders
  <2>3. ms \in Seq(Byes) /\ Len(ms) = N
    <3> HIDE DEF N, Byes
    <3> QED
      BY <2>1, <2>2, SequenceOf
  <2>4. s = [i \in 1..N |-> Call("Complete", ms[i],
             IF Entrants[ms[i]][1] # NoPlayer THEN Entrants[ms[i]][1] ELSE Entrants[ms[i]][2])]
    BY <1>9, <1>10, <2>3 DEF ByeCalls
  <2>5. DOMAIN s = 1..Len(s) /\ DOMAIN s = 1..N
    <3> HIDE DEF N, Byes
    <3>1. DOMAIN s = 1..Len(s)
      OBVIOUS
    <3>2. DOMAIN s = 1..N
      BY <2>4
    <3> QED
      BY <3>1, <3>2
  <2> SUFFICES ASSUME NEW e \in On(s)
               PROVE  \E x \in FirstRound : HasBye(x) /\ e = Call("Complete", x,
                         IF Entrants[x][1] # NoPlayer THEN Entrants[x][1] ELSE Entrants[x][2])
    OBVIOUS
  <2>6. PICK i \in 1..N : e = s[i]
    <3> HIDE DEF N
    <3>1. 1..Len(s) = 1..N
      BY <2>5
    <3>2. PICK i \in 1..Len(s) : e = s[i]
      BY DEF On
    <3> QED
      BY <3>1, <3>2
  <2>7. ms[i] \in Byes
    BY <2>2
  <2>8. e = Call("Complete", ms[i],
             IF Entrants[ms[i]][1] # NoPlayer THEN Entrants[ms[i]][1] ELSE Entrants[ms[i]][2])
    BY <2>4, <2>6
  <2> HIDE DEF N
  <2> QED
    BY <2>7, <2>8
<1>12. \A e \in On(s) : e.op = "Complete" /\ CallOK(e)
  <2> SUFFICES ASSUME NEW e \in On(s)
               PROVE  e.op = "Complete" /\ CallOK(e)
    OBVIOUS
  <2>1. PICK x \in FirstRound : HasBye(x) /\ e = Call("Complete", x,
             IF Entrants[x][1] # NoPlayer THEN Entrants[x][1] ELSE Entrants[x][2])
    BY <1>11
  <2>2. PICK p : p = IF Entrants[x][1] # NoPlayer THEN Entrants[x][1] ELSE Entrants[x][2]
    OBVIOUS
  <2>3. e.op = "Complete" /\ e.m = x /\ e.p = p
    BY <2>1, <2>2, CallFields
  <2>4. x \in Match /\ x \notin Fed /\ status[x] # "ABSENT" /\ slots[x] = Entrants[x]
    BY <1>3, WiringAssumption DEF Fed
  <2>5. p \in Present(x) \cup {NoPlayer} /\ (p = NoPlayer => Present(x) = {})
    BY <2>2, <2>4 DEF Present
  <2>6. WinnerOK(e)
    BY <2>3, <2>4, <2>5 DEF WinnerOK, Ready
  <2> QED
    BY <2>3, <2>6 DEF CallOK, Moves, Completes
<1>13. Stack(s)
  <2>1. Ordered(s)
    BY <1>12 DEF Ordered, Above, On
  <2>2. \A d \in Fed : \A f \in Feeders(d) : Brought(On(s), f, d)
    BY <1>5, FedMatches DEF Brought
  <2>3. \A d \in Fed : Tended(On(s), d)
    <3> SUFFICES ASSUME NEW d \in Fed, Ready(d)
                 PROVE  FALSE
      BY DEF Tended
    <3>1. d \in Match \ FirstRound /\ d # Decider
      BY FedMatches DEF Fed
    <3>2. PICK f : f \in Feeders(d)
      BY <3>1, ShapeAssumption
    <3> QED
      BY <1>4, <3>2, FedMatches DEF Ready
  <2> QED
    BY <1>12, <2>1, <2>2, <2>3 DEF Stack
<1> QED
  BY <1>1, <1>3, <1>7, <1>8, <1>10, <1>13 DEF Cascade, Table

LEMMA CascadeStep ==
    ASSUME NEW r, Cascade(r), [NextStep]_vars
    PROVE  Cascade(r)'
<1>1. Settled(r) /\ (\A q \in Request : q = r) /\ OneByOne
  BY DEF Cascade, Settled
<1>2. Settled(r)'
  BY <1>1, ResultStep
<1>3. ASSUME Step(r)
      PROVE  Stack(calls[r])' /\ Table'
  BY <1>3, CompleteGoesOn, HandleGoesOn, AdvanceGoesOn, FillGoesOn, ResolveGoesOn,
     WalkoverGoesOn, SettleGoesOn, CheckGoesOn, CreateDeciderGoesOn, CrownGoesOn,
     StartGoesOn, ListGoesOn, AwardGoesOn DEF Step
<1>4. ASSUME UNCHANGED vars
      PROVE  Stack(calls[r])' /\ Table'
  <2>1. UNCHANGED bracket /\ UNCHANGED <<over, champion>> /\ calls' = calls
    BY <1>4 DEF vars, bracket
  <2>2. /\ Rows /\ DeciderRow /\ (over => Decisive(champion)) /\ Stack(calls[r])
    BY DEF Cascade, Table
  <2>3. Table'
    <3>1. Rows' /\ DeciderRow' /\ \A q : Decisive(q) => Decisive(q)'
      BY <2>1, <2>2, SameRows
    <3> QED
      BY <2>1, <2>2, <3>1, OverStays DEF Table
  <2>4. PICK s : s = calls[r]
    OBVIOUS
  <2>5. PICK S : S = On(s)
    OBVIOUS
  <2>6. Ordered(s)' /\ On(s)' = S /\ Fed' = Fed /\ \A d : Feeders(d)' = Feeders(d)
    BY <2>2, <2>4, <2>5 DEF Stack, Ordered, Above, On, Fed, FirstRound, Feeders
  <2>7. \A c \in S : CallOK(c)'
    BY <2>1, <2>2, <2>4, <2>5, SameRows DEF Stack
  <2>8. \A d \in Fed : \A f \in Feeders(d) : Brought(S, f, d)'
    BY <2>1, <2>2, <2>4, <2>5, SameRows DEF Stack
  <2>9. MaxResets = 0 => \A d \in Fed : Tended(S, d)'
    BY <2>1, <2>2, <2>4, <2>5, SameRows DEF Stack
  <2>10. Stack(s)'
    BY <2>6, <2>7, <2>8, <2>9 DEF Stack
  <2>11. calls'[r] = s
    BY <2>1, <2>4
  <2> QED
    BY <2>3, <2>10, <2>11
<1>5. OneByOne'
  BY <1>1 DEF OneByOne, LosersBracket
<1>6. Stack(calls[r])' /\ Table'
  BY <1>1, <1>3, <1>4, SubmitResultGoesOn, StartMatchGoesOn, ForfeitGoesOn, ResetGoesOn
  DEF NextStep
<1> QED
  BY <1>2, <1>5, <1>6 DEF Cascade

---------------------------------------------------------------------------
(* What the invariant says between two requests.                           *)
LEMMA AtRest ==
    ASSUME NEW r, Cascade(r), Quiet
    PROVE  /\ \A d \in Fed : Present(d) = DeliveredTo(d)
           /\ MaxResets = 0 => \A d \in Fed : Ready(d) => Done(d) \/ Present(d) # {}
<1>1. r \in Request /\ Rows /\ Stack(calls[r]) /\ calls[r] = <<>>
  BY CascadeFacts DEF Quiet, Idle
<1>2. PICK s : s = <<>>
  OBVIOUS
<1>3. Stack(s) /\ On(s) = {}
  BY <1>1, <1>2, NothingOn
<1>4. ASSUME NEW d \in Fed
      PROVE  Present(d) = DeliveredTo(d)
  <2>1. Present(d) \subseteq DeliveredTo(d)
    BY <1>1 DEF Rows, FedRow
  <2>2. \A f \in Feeders(d) : Delivers(f, d) \in Present(d) \cup {NoPlayer}
    BY <1>3 DEF Stack, Brought
  <2>3. DeliveredTo(d) \subseteq Present(d)
    BY <2>2 DEF DeliveredTo
  <2> QED
    BY <2>1, <2>3
<1>5. MaxResets = 0 => \A d \in Fed : Ready(d) => Done(d) \/ Present(d) # {}
  BY <1>3 DEF Stack, Tended
<1> QED
  BY <1>4, <1>5

(* One request at a time, forfeits, starts and resets on the way: between  *)
(* requests the players of a match are those its feeders have delivered    *)
(* (advanceWinner, advanceLoser, and the rebuilding of slots by            *)
(* resetMatch).                                                            *)
THEOREM SlotsAreWhatFeedersDelivered ==
    ASSUME NEW r, Request = {r}, ~HalfFilled, LosersBracket
    PROVE  Spec => []SlotsMatchFeeders
<1>1. OneByOne
  BY DEF OneByOne
<1>2. Init => Cascade(r)
  BY <1>1, InitCascade
<1>3. Cascade(r) /\ [NextStep]_vars => Cascade(r)'
  BY CascadeStep
<1>4. Cascade(r) => SlotsMatchFeeders
  BY AtRest DEF SlotsMatchFeeders, Fed
<1> QED
  BY <1>2, <1>3, <1>4, PTL DEF Spec

(* Where moreover nothing is reset: a match all of whose feeders have      *)
(* completed is completed itself or has somebody in it who can win         *)
(* (settleLosersStarvation, completeAsWalkover, createGrandFinalReset).    *)
THEOREM SomebodyCanWin ==
    ASSUME NEW r, Request = {r}, ~HalfFilled, LosersBracket, MaxResets = 0
    PROVE  Spec => []NoUnplayableMatch
<1>1. OneByOne
  BY DEF OneByOne
<1>2. Init => Cascade(r)
  BY <1>1, InitCascade
<1>3. Cascade(r) /\ [NextStep]_vars => Cascade(r)'
  BY CascadeStep
<1>4. Cascade(r) => NoUnplayableMatch
  <2> SUFFICES ASSUME Cascade(r), Quiet, NEW m \in Match \ FirstRound,
                      \A f \in Feeders(m) : Done(f), status[m] # "ABSENT"
               PROVE  Done(m) \/ Present(m) # {}
    BY DEF NoUnplayableMatch
  <2>1. CASE m # Decider
    <3>1. m \in Fed /\ Ready(m)
      BY <2>1 DEF Fed, Ready
    <3> QED
      BY <3>1, AtRest
  <2>2. CASE m = Decider
    <3>1. Double
      BY <2>2, ShapeAssumption
    <3>2. CallsForReset /\ \A i \in 1..2 : slots[Decider][i] = slots[GrandFinal][i]
      BY <2>2, <3>1 DEF Cascade, Table, DeciderRow
    <3>3. winner[GrandFinal] # NoPlayer /\ winner[GrandFinal] \in Present(GrandFinal) \cup {NoPlayer}
      BY <3>1, <3>2, WiringAssumption DEF CallsForReset, Cascade, Table, Rows, PlayedRow
    <3>4. slots[Decider][1] = slots[GrandFinal][1] /\ slots[Decider][2] = slots[GrandFinal][2]
      BY <3>2
    <3> QED
      BY <2>2, <3>3, <3>4 DEF Present
  <2> QED
    BY <2>1, <2>2
<1> QED
  BY <1>2, <1>3, <1>4, PTL DEF Spec

---------------------------------------------------------------------------
(* From here on: a tournament that is over, between two requests.          *)

LEMMA Least ==
    ASSUME NEW S, S \subseteq Nat, S # {}
    PROVE  \E x \in S : \A y \in S : x <= y
<1> DEFINE R == OpToRel(<, Nat)
<1>1. \E x \in S : \A y \in S : <<y, x>> \notin R
  BY NatLessThanWellFounded, WFMin
<1>2. \A x, y \in S : <<y, x>> \notin R => x <= y
  BY DEF OpToRel
<1> HIDE DEF R
<1> QED BY <1>1, <1>2

(* Of some matches one comes first, and one last.                          *)
LEMMA Lowest ==
    ASSUME NEW S, S \subseteq Match, S # {}
    PROVE  \E m \in S : \A x \in S : Rank[m] <= Rank[x]
<1>1. \A x \in S : Rank[x] \in Nat
  BY ShapeAssumption
<1>2. PICK ranks : ranks = {Rank[x] : x \in S}
  OBVIOUS
<1>3. ranks \subseteq Nat /\ ranks # {}
  BY <1>1, <1>2
<1>4. PICK k \in ranks : \A j \in ranks : k <= j
  BY <1>3, Least
<1> QED
  BY <1>2, <1>4

LEMMA Highest ==
    ASSUME NEW S, S \subseteq Match, S # {}
    PROVE  \E m \in S : \A x \in S : Rank[x] <= Rank[m]
<1>1. \A x \in S : Rank[x] \in Nat
  BY ShapeAssumption
<1>2. IsFiniteSet(S)
  BY WiringAssumption, FS_Subset
<1> DEFINE above(m) == {x \in S : Rank[m] < Rank[x]}
<1>3. \A m \in S : above(m) \in SUBSET S
  OBVIOUS
<1>4. \A m \in S : IsFiniteSet(above(m)) /\ Cardinality(above(m)) \in Nat
  <2> SUFFICES ASSUME NEW m \in S
               PROVE  IsFiniteSet(above(m)) /\ Cardinality(above(m)) \in Nat
    OBVIOUS
  <2> PICK T \in SUBSET S : T = above(m)
    BY <1>3
  <2>1. IsFiniteSet(T) /\ Cardinality(T) \in Nat
    BY <1>2, FS_Subset, FS_CardinalityType
  <2> QED
    BY <2>1
<1> HIDE DEF above
<1>5. PICK sizes : sizes = {Cardinality(above(m)) : m \in S}
  OBVIOUS
<1>6. sizes \subseteq Nat /\ sizes # {}
  BY <1>4, <1>5
<1>7. PICK k \in sizes : \A j \in sizes : k <= j
  BY <1>6, Least
<1>8. PICK m \in S : k = Cardinality(above(m))
  BY <1>5
<1>9. above(m) = {}
  <2> SUFFICES ASSUME NEW n \in above(m)
               PROVE  FALSE
    OBVIOUS
  <2>1. n \in S /\ Rank[m] < Rank[n] /\ Rank[n] \in Nat
    BY <1>1 DEF above
  <2>2. above(n) \subseteq above(m)
    BY <1>1, <2>1 DEF above
  <2>3. n \notin above(n)
    BY <2>1 DEF above
  <2>4. PICK T \in SUBSET above(m) : T = above(n)
    BY <2>2
  <2>5. Cardinality(T) <= Cardinality(above(m)) /\ (Cardinality(above(m)) = Cardinality(T) => above(m) = T)
    BY <1>4, FS_Subset
  <2>6. Cardinality(T) < Cardinality(above(m))
    BY <1>4, <2>1, <2>3, <2>4, <2>5
  <2>7. Cardinality(T) \in sizes
    BY <1>5, <2>1, <2>4
  <2> QED
    BY <1>4, <1>7, <1>8, <2>1, <2>4, <2>6, <2>7
<1>10. \A x \in S : Rank[x] <= Rank[m]
  BY <1>1, <1>9 DEF above
<1> QED
  BY <1>10

(* Everything has been played, and everybody sits where he was delivered.  *)
Played ==
    /\ IInv /\ LosersBracket /\ Rows
    /\ \A m \in Match \ {Decider} : Done(m)
    /\ \A d \in Fed : Present(d) = DeliveredTo(d)

Final(m) == m # Decider /\ Next[m] = NoMatch

LEMMA OneFinal ==
    ASSUME LosersBracket, NEW m \in Match, NEW n \in Match, Final(m), Final(n)
    PROVE  m = n /\ (Double => m = GrandFinal)
<1>1. CASE ~Double
  BY <1>1, ShapeAssumption DEF Final
<1>2. CASE Double
  <2>1. \A x \in Match : Final(x) => x = GrandFinal
    <3> SUFFICES ASSUME NEW x \in Match, Final(x)
                 PROVE  x = GrandFinal
      OBVIOUS
    <3>1. x \in Winners => Next[x] # NoMatch
      BY <1>2, WiringAssumption, ShapeAssumption
    <3>2. x \in Losers => Next[x] # NoMatch
      <4>1. x \in Losers => Next[x] \in Losers \cup {GrandFinal}
        BY <1>2, ShapeAssumption
      <4>2. NoMatch \notin Losers \cup {GrandFinal}
        BY <1>2, WiringAssumption DEF Losers
      <4> QED
        BY <4>1, <4>2
    <3> QED
      BY <3>1, <3>2 DEF Final, Losers
  <2> QED
    BY <1>2, <2>1
<1> QED
  BY <1>1, <1>2

LEMMA AllPlayed ==
    ASSUME NEW r, Cascade(r), Quiet, over
    PROVE  Played /\ Decisive(champion)
<1>1. IInv /\ LosersBracket /\ Rows /\ Decisive(champion) /\ \A d \in Fed : Present(d) = DeliveredTo(d)
  BY CascadeFacts, AtRest DEF Cascade, Table
<1>2. \E x \in Match : Final(x) /\ Done(x)
  <2>1. CASE ~Double
    <3>1. PICK x \in Match : Next[x] = NoMatch /\ Done(x)
      BY <1>1, <2>1 DEF Decisive
    <3>2. x # Decider
      BY <2>1, ShapeAssumption
    <3> QED
      BY <3>1, <3>2 DEF Final
  <2>2. CASE Double
    <3>1. GrandFinal \in Match /\ GrandFinal # Decider /\ Next[GrandFinal] = NoMatch
      BY <1>1, <2>2, WiringAssumption, ShapeAssumption
    <3>2. Done(GrandFinal)
      <4>1. status[Decider] # "ABSENT" => CallsForReset
        BY <2>2 DEF Cascade, Table, DeciderRow
      <4> QED
        BY <1>1, <2>2, <4>1 DEF Decisive, CallsForReset
    <3> QED
      BY <3>1, <3>2 DEF Final
  <2> QED
    BY <2>1, <2>2
<1>3. \A m \in Match \ {Decider} : Done(m)
  <2> DEFINE open == {m \in Match \ {Decider} : ~Done(m)}
  <2> SUFFICES ASSUME open # {}
               PROVE  FALSE
    OBVIOUS
  <2>1. PICK m \in open : \A x \in open : Rank[x] <= Rank[m]
    <3>1. open \subseteq Match
      OBVIOUS
    <3> HIDE DEF open
    <3> QED
      BY <3>1, Highest
  <2>2. m \in Match /\ m # Decider /\ ~Done(m)
    OBVIOUS
  <2>3. CASE Next[m] = NoMatch
    BY <1>1, <1>2, <2>2, <2>3, OneFinal DEF Final
  <2>4. CASE Next[m] # NoMatch
    <3>1. PICK d \in Fed : d = Next[m] /\ m \in Feeders(d) /\ Rank[m] < Rank[d]
      BY <1>1, <2>2, <2>4, Links
    <3>2. d \in Match /\ d # Decider
      BY FedMatches DEF Fed
    <3>3. Rank[d] \in Nat /\ Rank[m] \in Nat
      BY <2>2, <3>2, ShapeAssumption
    <3>4. Done(d)
      BY <2>1, <3>1, <3>2, <3>3
    <3> QED
      BY <1>1, <2>2, <3>1, <3>4 DEF Rows, FedRow, Ready, Done
  <2> QED
    BY <2>3, <2>4
<1> QED
  BY <1>1, <1>3 DEF Played

---------------------------------------------------------------------------
(* The way of one player through the bracket.                              *)
Seen(p) == {m \in Match \ {Decider} : p \in Present(m)}

Goes(m, p) == IF winner[m] = p THEN Next[m] ELSE LoserNext[m]

LEMMA TwoPlayers ==
    ASSUME Played, NEW m \in Match, m # Decider, Full(m)
    PROVE  slots[m][1] # slots[m][2]
<1>1. CASE m \in Fed
  BY <1>1 DEF Played, Rows, FedRow
<1>2. CASE m \in FirstRound
  <2>1. slots[m] = Entrants[m]
    BY <1>2 DEF Played, Rows, PlayedRow
  <2>2. Entrants[m][1] \in Player /\ Entrants[m][2] \in Player
    BY <1>2, <2>1, WiringAssumption DEF Full
  <2>3. PICK n \in FirstRound, i \in 1..2 :
           \A x \in FirstRound, j \in 1..2 : Entrants[x][j] = Entrants[m][1] <=> x = n /\ j = i
    BY <2>2, ShapeAssumption
  <2>4. Entrants[m][1] # Entrants[m][2]
    <3>1. i = 1
      BY <1>2, <2>3
    <3> QED
      BY <1>2, <2>3, <3>1
  <2> QED
    BY <2>1, <2>4
<1> QED
  BY <1>1, <1>2 DEF Fed

(* Somebody who did not win a match he sat in has lost it.                 *)
LEMMA LostIsBeaten ==
    ASSUME Played, NEW p, NEW m \in Seen(p), winner[m] # p
    PROVE  /\ m \in Beaten(p)
           /\ winner[m] # NoPlayer /\ winner[m] \in Present(m)
           /\ Opponent(m, winner[m]) = p /\ p # NoPlayer
<1>1. m \in Match /\ m # Decider /\ Done(m) /\ p \in Present(m)
  BY DEF Seen, Played
<1>2. winner[m] # NoPlayer /\ winner[m] \in Present(m)
  BY <1>1 DEF Played, Rows, PlayedRow
<1>3. Full(m)
  BY <1>1, <1>2 DEF Present, Full
<1>4. Opponent(m, winner[m]) = p /\ p # NoPlayer
  BY <1>1, <1>2 DEF Present, Opponent
<1> QED
  BY <1>1, <1>2, <1>3, <1>4 DEF Beaten

LEMMA GoesOn ==
    ASSUME Played, NEW p, NEW m \in Seen(p), Goes(m, p) # NoMatch
    PROVE  /\ Goes(m, p) \in Seen(p) /\ Goes(m, p) \in Fed
           /\ Rank[m] < Rank[Goes(m, p)]
<1>1. LosersBracket /\ m \in Match /\ m # Decider /\ Done(m) /\ p \in Present(m) /\ p # NoPlayer
  BY DEF Played, Seen, Present
<1>2. PICK d : d = Goes(m, p)
  OBVIOUS
<1>3. d \in Fed /\ m \in Feeders(d) /\ Rank[m] < Rank[d]
  BY <1>1, <1>2, Links DEF Goes
<1>4. Delivers(m, d) = p
  <2>1. CASE winner[m] = p
    BY <1>1, <1>2, <2>1 DEF Goes, Delivers
  <2>2. CASE winner[m] # p
    <3>1. d = LoserNext[m] /\ winner[m] # NoPlayer /\ Opponent(m, winner[m]) = p
      BY <1>2, <2>2, LostIsBeaten DEF Goes
    <3>2. Next[m] # NoMatch /\ Rank[d] < Rank[Next[m]]
      BY <1>1, <1>2, <3>1, Links
    <3>3. Rank[d] \in Nat
      BY <1>3, FedMatches, ShapeAssumption
    <3>4. Next[m] # d
      BY <3>2, <3>3
    <3> QED
      BY <1>1, <3>1, <3>4 DEF Delivers
  <2> QED
    BY <2>1, <2>2
<1>5. p \in Present(d)
  BY <1>1, <1>3, <1>4 DEF Played, DeliveredTo
<1>6. d \in Seen(p)
  BY <1>3, <1>5, FedMatches DEF Seen, Fed
<1> QED
  BY <1>2, <1>3, <1>6

LEMMA ComesFrom ==
    ASSUME Played, NEW p, NEW d \in Seen(p), d \notin FirstRound
    PROVE  \E f \in Seen(p) : Goes(f, p) = d
<1>1. d \in Match /\ d # Decider /\ p \in Present(d) /\ p # NoPlayer /\ d # NoMatch /\ LosersBracket
  BY WiringAssumption DEF Seen, Present, Played
<1>2. d \in Fed
  BY <1>1 DEF Fed
<1>3. PICK f \in Feeders(d) : p = Delivers(f, d)
  BY <1>1, <1>2 DEF Played, DeliveredTo
<1>4. f \in Match
  BY FedMatches
<1>5. Done(f) /\ winner[f] # NoPlayer
  BY <1>1, <1>3 DEF Delivers
<1>6. winner[f] \in Present(f)
  BY <1>4, <1>5 DEF Played, Rows, PlayedRow
<1>7. f # Decider
  <2> SUFFICES ASSUME f = Decider
               PROVE  FALSE
    OBVIOUS
  <2>1. Double
    BY <1>4, ShapeAssumption
  <2>2. Next[f] = NoMatch /\ LoserNext[f] = NoMatch
    BY <1>1, <2>1, ShapeAssumption
  <2> QED
    BY <1>1, <2>2 DEF Feeders
<1>8. CASE Next[f] = d
  <2>1. p = winner[f]
    BY <1>3, <1>5, <1>8 DEF Delivers
  <2>2. f \in Seen(p) /\ Goes(f, p) = d
    BY <1>4, <1>6, <1>7, <1>8, <2>1 DEF Seen, Goes
  <2> QED
    BY <2>2
<1>9. CASE Next[f] # d /\ LoserNext[f] = d
  <2>1. p = Opponent(f, winner[f])
    BY <1>3, <1>5, <1>9 DEF Delivers
  <2>2. Full(f)
    BY <1>1, <1>5, <1>6, <2>1 DEF Present, Opponent, Full
  <2>3. slots[f][1] # slots[f][2]
    BY <1>4, <1>7, <2>2, TwoPlayers
  <2>4. p # winner[f] /\ p \in Present(f)
    BY <1>1, <1>6, <2>1, <2>3 DEF Present, Opponent
  <2>5. f \in Seen(p) /\ Goes(f, p) = d
    BY <1>4, <1>7, <1>9, <2>4 DEF Seen, Goes
  <2> QED
    BY <2>5
<1> QED
  BY <1>8, <1>9 DEF Feeders

(* Where he was drawn.                                                     *)
LEMMA DrawnOnce ==
    ASSUME Played, NEW p \in Player
    PROVE  \E m \in Seen(p) \cap FirstRound : \A n \in Seen(p) \cap FirstRound : n = m
<1>1. PICK m \in FirstRound, i \in 1..2 :
         \A n \in FirstRound, j \in 1..2 : Entrants[n][j] = p <=> n = m /\ j = i
  BY ShapeAssumption
<1>2. p # NoPlayer
  BY WiringAssumption
<1>3. \A n \in FirstRound : n \in Match /\ n # Decider /\ slots[n] = Entrants[n]
  <2> SUFFICES ASSUME NEW n \in FirstRound
               PROVE  n \in Match /\ n # Decider /\ slots[n] = Entrants[n]
    OBVIOUS
  <2>1. n \in Match /\ n \in Winners
    BY WiringAssumption
  <2>2. n # Decider
    BY <2>1, WiringAssumption, ShapeAssumption
  <2> QED
    BY <2>1, <2>2 DEF Played, Rows, PlayedRow
<1>4. Entrants[m][i] = p
  BY <1>1
<1>5. m \in Seen(p)
  BY <1>2, <1>3, <1>4 DEF Seen, Present
<1>6. \A n \in Seen(p) \cap FirstRound : n = m
  BY <1>1, <1>3 DEF Seen, Present
<1> QED
  BY <1>5, <1>6

(* All he plays later is played later.                                     *)
LEMMA DrawnFirst ==
    ASSUME Played, NEW p \in Player, NEW m \in Seen(p) \cap FirstRound, NEW x \in Seen(p)
    PROVE  x = m \/ Rank[m] < Rank[x]
<1>1. Seen(p) \subseteq Match
  BY DEF Seen
<1>2. \A y \in Seen(p) : Rank[y] \in Nat
  BY <1>1, ShapeAssumption
<1>3. PICK low \in Seen(p) : \A y \in Seen(p) : Rank[low] <= Rank[y]
  BY <1>1, Lowest
<1>4. \A y \in Seen(p) : y \in FirstRound <=> y = m
  BY DrawnOnce
<1>5. \A y \in Seen(p) : y # m => \E f \in Seen(p) : Rank[f] < Rank[y]
  <2> SUFFICES ASSUME NEW y \in Seen(p), y # m
               PROVE  \E f \in Seen(p) : Rank[f] < Rank[y]
    OBVIOUS
  <2>1. PICK f \in Seen(p) : Goes(f, p) = y
    BY <1>4, ComesFrom
  <2>2. y # NoMatch
    BY <1>1, WiringAssumption
  <2> QED
    BY <2>1, <2>2, GoesOn
<1>6. low = m
  BY <1>2, <1>3, <1>5
<1>7. x # m => \E f \in Seen(p) : Rank[f] < Rank[x]
  BY <1>5
<1> QED
  BY <1>2, <1>3, <1>6, <1>7

---------------------------------------------------------------------------
(* He goes from one match straight to the next one he sits in.             *)
Straight(x, y, p) == x = y \/ (Goes(x, p) # NoMatch /\ Rank[Goes(x, p)] <= Rank[y])

LEMMA Path ==
    ASSUME Played, NEW p \in Player, NEW a \in Seen(p), NEW b \in Seen(p), Rank[a] <= Rank[b]
    PROVE  a = b \/ (Goes(a, p) # NoMatch /\ Rank[Goes(a, p)] <= Rank[b])
<1>1. PICK bads : bads = {y \in Seen(p) :
                             \E x \in Seen(p) : Rank[x] <= Rank[y] /\ ~Straight(x, y, p)}
  OBVIOUS
<1>2. Seen(p) \subseteq Match
  BY DEF Seen
<1>3. \A y \in Seen(p) : Rank[y] \in Nat
  BY <1>2, ShapeAssumption
<1>4. \A y \in Seen(p) : y \in FirstRound \/ \E f \in Seen(p) : Goes(f, p) = y /\ Rank[f] < Rank[y]
  <2> SUFFICES ASSUME NEW y \in Seen(p), y \notin FirstRound
               PROVE  \E f \in Seen(p) : Goes(f, p) = y /\ Rank[f] < Rank[y]
    OBVIOUS
  <2>1. PICK f \in Seen(p) : Goes(f, p) = y
    BY ComesFrom
  <2>2. y # NoMatch
    BY <1>2, WiringAssumption
  <2> QED
    BY <2>1, <2>2, GoesOn
<1>5. \A m \in Seen(p), x \in Seen(p) : m \in FirstRound => x = m \/ Rank[m] < Rank[x]
  BY DrawnFirst
<1>6. bads = {}
  <2> SUFFICES ASSUME bads # {}
               PROVE  FALSE
    OBVIOUS
  <2>1. bads \subseteq Match
    BY <1>1, <1>2
  <2>2. PICK d \in bads : \A y \in bads : Rank[d] <= Rank[y]
    BY <2>1, Lowest
  <2>3. d \in Seen(p)
    BY <1>1
  <2>4. PICK c \in Seen(p) : /\ Rank[c] <= Rank[d] /\ c # d
                             /\ ~(Goes(c, p) # NoMatch /\ Rank[Goes(c, p)] <= Rank[d])
    <3>1. \E x \in Seen(p) : Rank[x] <= Rank[d] /\ ~Straight(x, d, p)
      BY <1>1
    <3> QED
      BY <3>1 DEF Straight
  <2>5. d \notin FirstRound
    BY <1>3, <1>5, <2>3, <2>4
  <2>6. PICK f \in Seen(p) : Goes(f, p) = d /\ Rank[f] < Rank[d]
    BY <1>4, <2>3, <2>5
  <2>7. f \notin bads
    BY <1>3, <2>2, <2>3, <2>6
  <2>8. \A x \in Seen(p) : Rank[x] <= Rank[f] =>
           x = f \/ (Goes(x, p) # NoMatch /\ Rank[Goes(x, p)] <= Rank[f])
    <3>1. \A x \in Seen(p) : Rank[x] <= Rank[f] => Straight(x, f, p)
      BY <1>1, <2>7
    <3> QED
      BY <3>1 DEF Straight
  <2>9. CASE Rank[c] <= Rank[f]
    <3>1. c # f
      BY <1>2, <1>3, <2>3, <2>4, <2>6, WiringAssumption
    <3>2. Goes(c, p) # NoMatch /\ Rank[Goes(c, p)] <= Rank[f]
      BY <2>8, <2>9, <3>1
    <3>3. Goes(c, p) \in Seen(p)
      BY <3>2, GoesOn
    <3>4. Rank[Goes(c, p)] <= Rank[d]
      BY <1>3, <2>3, <2>6, <3>2, <3>3
    <3> QED
      BY <2>4, <3>2, <3>4
  <2>10. CASE ~(Rank[c] <= Rank[f])
    <3>1. PICK highs : highs = {x \in Seen(p) : Rank[f] < Rank[x] /\ Rank[x] <= Rank[d] /\ x # d}
      OBVIOUS
    <3>2. c \in highs
      BY <1>3, <2>4, <2>10, <3>1
    <3>3. highs \subseteq Match
      BY <1>2, <3>1
    <3>4. PICK x \in highs : \A y \in highs : Rank[x] <= Rank[y]
      BY <3>2, <3>3, Lowest
    <3>5. x \in Seen(p) /\ Rank[f] < Rank[x] /\ Rank[x] <= Rank[d] /\ x # d
      BY <3>1
    <3>6. x \notin FirstRound
      BY <1>3, <1>5, <3>5
    <3>7. PICK g \in Seen(p) : Goes(g, p) = x /\ Rank[g] < Rank[x]
      BY <1>4, <3>5, <3>6
    <3>8. CASE Rank[g] <= Rank[f]
      <4>1. g # f
        BY <2>6, <3>5, <3>7
      <4>2. Rank[x] <= Rank[f]
        BY <2>8, <3>7, <3>8, <4>1
      <4> QED
        BY <1>3, <3>5, <4>2
    <3>9. CASE ~(Rank[g] <= Rank[f])
      <4>1. g \in highs
        BY <1>3, <2>3, <3>1, <3>5, <3>7, <3>9
      <4> QED
        BY <1>3, <3>4, <3>5, <3>7, <4>1
    <3> QED
      BY <3>8, <3>9
  <2> QED
    BY <2>9, <2>10
<1>7. Straight(a, b, p)
  BY <1>1, <1>6
<1> QED
  BY <1>7 DEF Straight

(* And his way ends in one match, the last he sits in.                     *)
LEMMA OneEnd ==
    ASSUME Played, NEW p \in Player, NEW a \in Seen(p), NEW b \in Seen(p),
           Goes(a, p) = NoMatch, Goes(b, p) = NoMatch
    PROVE  a = b
<1>1. Rank[a] \in Nat /\ Rank[b] \in Nat
  BY ShapeAssumption DEF Seen
<1>2. Rank[a] <= Rank[b] => a = b
  BY Path
<1>3. Rank[b] <= Rank[a] => a = b
  BY Path
<1> QED
  BY <1>1, <1>2, <1>3

LEMMA AnEnd ==
    ASSUME Played, NEW p \in Player
    PROVE  \E t \in Seen(p) : Goes(t, p) = NoMatch
<1>1. Seen(p) \subseteq Match
  BY DEF Seen
<1>2. Seen(p) # {}
  BY DrawnOnce
<1>3. PICK t \in Seen(p) : \A y \in Seen(p) : Rank[y] <= Rank[t]
  BY <1>1, <1>2, Highest
<1>4. \A y \in Seen(p) : Rank[y] \in Nat
  BY <1>1, ShapeAssumption
<1>5. Goes(t, p) # NoMatch => Goes(t, p) \in Seen(p) /\ Rank[t] < Rank[Goes(t, p)]
  BY GoesOn
<1> QED
  BY <1>3, <1>4, <1>5

(* Whoever has lost a match before the reset match was seen in it.         *)
LEMMA BeatenSeen ==
    ASSUME NEW p, NEW m \in Beaten(p), m # Decider
    PROVE  m \in Seen(p) /\ winner[m] # p /\ Goes(m, p) = LoserNext[m]
BY DEF Beaten, Seen, Goes

LEMMA ChampionPlays ==
    ASSUME Played, Decisive(champion)
    PROVE  champion \in Player
BY DEF Played, IInv, TypeOK, Seat, Decisive

LEMMA SingleTitle ==
    ASSUME Played, Decisive(champion), ~Double
    PROVE  /\ Beaten(champion) = {}
           /\ \A p \in Player \ {champion} : Beaten(p) # {}
<1>1. champion \in Player /\ champion # NoPlayer
  BY ChampionPlays DEF Decisive
<1>2. Decider \notin Match /\ \A m \in Match : LoserNext[m] = NoMatch
  BY ShapeAssumption
<1>3. PICK u \in Match : Next[u] = NoMatch /\ Done(u) /\ winner[u] = champion
  BY DEF Decisive
<1>4. champion \in Present(u)
  BY <1>1, <1>3 DEF Played, Rows, PlayedRow
<1>5. u \in Seen(champion) /\ Goes(u, champion) = NoMatch
  BY <1>2, <1>3, <1>4 DEF Seen, Goes
<1>6. Beaten(champion) = {}
  <2> SUFFICES ASSUME NEW m \in Beaten(champion)
               PROVE  FALSE
    OBVIOUS
  <2>1. m \in Match /\ m # Decider
    BY <1>2 DEF Beaten
  <2>2. m \in Seen(champion) /\ winner[m] # champion /\ Goes(m, champion) = NoMatch
    BY <1>2, <2>1, BeatenSeen
  <2>3. m = u
    BY <1>1, <1>5, <2>2, OneEnd
  <2> QED
    BY <1>3, <2>2, <2>3
<1>7. ASSUME NEW p \in Player, p # champion
      PROVE  Beaten(p) # {}
  <2>1. PICK t \in Seen(p) : Goes(t, p) = NoMatch
    BY AnEnd
  <2>2. t \in Match
    BY DEF Seen
  <2>3. winner[t] # p
    <3> SUFFICES ASSUME winner[t] = p
                 PROVE  FALSE
      OBVIOUS
    <3>1. Final(t) /\ Final(u)
      BY <1>2, <1>3, <2>1, <2>2 DEF Final, Goes
    <3>2. t = u
      BY <2>2, <3>1, OneFinal DEF Played
    <3> QED
      BY <1>3, <1>7, <3>2
  <2> QED
    BY <2>3, LostIsBeaten
<1> QED
  BY <1>6, <1>7

---------------------------------------------------------------------------
(* Double elimination: down to the losers bracket once, then out.          *)
LEMMA TwoBrackets ==
    ASSUME LosersBracket, Double
    PROVE  /\ GrandFinal \in Match /\ GrandFinal \notin Winners /\ GrandFinal \notin Losers
           /\ GrandFinal # Decider /\ GrandFinal \in Fed
           /\ Next[GrandFinal] = NoMatch /\ LoserNext[GrandFinal] = NoMatch
           /\ NoMatch \notin Losers \cup Winners \cup {GrandFinal}
           /\ Match = Winners \cup Losers \cup {GrandFinal, Decider}
           /\ Winners \cap Losers = {} /\ FirstRound \subseteq Winners
           /\ \A m \in Winners : Next[m] \in Winners \cup {GrandFinal} /\ LoserNext[m] \in Losers
           /\ \A m \in Losers : Next[m] \in Losers \cup {GrandFinal} /\ LoserNext[m] = NoMatch
<1>1. FirstRound \subseteq Winners /\ Winners \subseteq Match /\ NoMatch \notin Match
  BY WiringAssumption
<1>2. GrandFinal \in Match \ Winners /\ Decider \in Match
  BY WiringAssumption
<1>3. GrandFinal # Decider /\ Next[GrandFinal] = NoMatch /\ LoserNext[GrandFinal] = NoMatch
  BY ShapeAssumption
<1>4. \A m \in Winners : Next[m] \in Winners \cup {GrandFinal} /\ LoserNext[m] \in Losers
  BY ShapeAssumption
<1>5. \A m \in Losers : Next[m] \in Losers \cup {GrandFinal} /\ LoserNext[m] = NoMatch
  BY ShapeAssumption
<1> QED
  BY <1>1, <1>2, <1>3, <1>4, <1>5 DEF Losers, Fed

LEMMA Finalist ==
    ASSUME LosersBracket, Double
    PROVE  \E f \in Winners : /\ \A g \in Winners : Next[g] = GrandFinal <=> g = f
                              /\ WinnersFinalist = winner[f]
<1>1. PICK f \in Winners : \A g \in Winners : Next[g] = GrandFinal <=> g = f
  BY ShapeAssumption
<1>2. f = CHOOSE g \in Winners : Next[g] = GrandFinal
  BY <1>1
<1> QED
  BY <1>1, <1>2 DEF WinnersFinalist

LEMMA Dropped ==
    ASSUME Played, Double, NEW p \in Player, Seen(p) \cap Losers # {}
    PROVE  \E a \in Seen(p) \cap Winners : winner[a] # p
<1>1. LosersBracket /\ Seen(p) \subseteq Match \ {Decider}
  BY DEF Played, Seen
<1>2. PICK S : S = Seen(p) \cap Losers
  OBVIOUS
<1>3. S \subseteq Match /\ S # {}
  BY <1>1, <1>2
<1>4. PICK m \in S : \A y \in S : Rank[m] <= Rank[y]
  BY <1>3, Lowest
<1>5. m \in Seen(p) /\ m \in Losers /\ m \notin FirstRound /\ m # NoMatch
  BY <1>1, <1>2, TwoBrackets
<1>6. PICK f \in Seen(p) : Goes(f, p) = m
  BY <1>5, ComesFrom
<1>7. Rank[f] < Rank[m]
  BY <1>5, <1>6, GoesOn
<1>8. Rank[f] \in Nat /\ Rank[m] \in Nat
  BY <1>1, <1>5, ShapeAssumption
<1>9. f \notin Losers
  BY <1>2, <1>4, <1>7, <1>8
<1>10. f # GrandFinal
  BY <1>1, <1>5, <1>6, TwoBrackets DEF Goes
<1>11. f \in Winners
  BY <1>1, <1>9, <1>10, TwoBrackets
<1>12. winner[f] # p
  BY <1>1, <1>5, <1>6, <1>11, TwoBrackets DEF Goes
<1> QED
  BY <1>11, <1>12

(* Who has lost in the winners bracket is not seen there again.            *)
LEMMA NeverBack ==
    ASSUME Played, Double, NEW p \in Player, NEW a \in Seen(p) \cap Winners, winner[a] # p,
           NEW b \in Seen(p) \cap Winners, Rank[a] <= Rank[b]
    PROVE  a = b
<1> SUFFICES ASSUME a # b
             PROVE  FALSE
  OBVIOUS
<1>1. LosersBracket /\ Seen(p) \subseteq Match \ {Decider}
  BY DEF Played, Seen
<1>2. Goes(a, p) # NoMatch /\ Rank[Goes(a, p)] <= Rank[b]
  BY Path
<1>3. Goes(a, p) \in Losers /\ Goes(a, p) \in Seen(p)
  BY <1>1, <1>2, GoesOn, TwoBrackets DEF Goes
<1>4. PICK S : S = {x \in Seen(p) : x \in Losers \cup {GrandFinal} /\ Rank[x] <= Rank[b]}
  OBVIOUS
<1>5. S \subseteq Match /\ S # {}
  BY <1>1, <1>2, <1>3, <1>4
<1>6. PICK x \in S : \A y \in S : Rank[y] <= Rank[x]
  BY <1>5, Highest
<1>7. x \in Seen(p) /\ x \in Losers \cup {GrandFinal} /\ Rank[x] <= Rank[b]
  BY <1>4
<1>8. x # b
  BY <1>1, <1>7, TwoBrackets
<1>9. Goes(x, p) # NoMatch /\ Rank[Goes(x, p)] <= Rank[b]
  BY <1>7, <1>8, Path
<1>10. Goes(x, p) \in Seen(p) /\ Rank[x] < Rank[Goes(x, p)]
  BY <1>7, <1>9, GoesOn
<1>11. Goes(x, p) \in Losers \cup {GrandFinal}
  BY <1>1, <1>7, <1>9, TwoBrackets DEF Goes
<1>12. Goes(x, p) \in S
  BY <1>4, <1>9, <1>10, <1>11
<1>13. Rank[x] \in Nat /\ Rank[Goes(x, p)] \in Nat
  BY <1>1, <1>7, <1>10, ShapeAssumption
<1> QED
  BY <1>6, <1>10, <1>12, <1>13

(* So he has lost there once at most, and once at most outside it.         *)
LEMMA TwoLosses ==
    ASSUME Played, Double, NEW p \in Player,
           NEW a \in Beaten(p), NEW b \in Beaten(p), a # Decider, b # Decider,
           a \in Winners <=> b \in Winners
    PROVE  a = b
<1>1. LosersBracket /\ Seen(p) \subseteq Match \ {Decider}
  BY DEF Played, Seen
<1>2. a \in Seen(p) /\ winner[a] # p /\ Goes(a, p) = LoserNext[a]
  BY BeatenSeen
<1>3. b \in Seen(p) /\ winner[b] # p /\ Goes(b, p) = LoserNext[b]
  BY BeatenSeen
<1>4. CASE a \in Winners
  <2>1. Rank[a] \in Nat /\ Rank[b] \in Nat
    BY <1>1, <1>2, <1>3, ShapeAssumption
  <2>2. Rank[a] <= Rank[b] => a = b
    BY <1>2, <1>3, <1>4, NeverBack
  <2>3. Rank[b] <= Rank[a] => a = b
    BY <1>2, <1>3, <1>4, NeverBack
  <2> QED
    BY <2>1, <2>2, <2>3
<1>5. CASE a \notin Winners
  <2>1. LoserNext[a] = NoMatch
    BY <1>1, <1>2, <1>5, TwoBrackets
  <2>2. LoserNext[b] = NoMatch
    BY <1>1, <1>3, <1>5, TwoBrackets
  <2> QED
    BY <1>2, <1>3, <2>1, <2>2, OneEnd
<1> QED
  BY <1>4, <1>5

(* Into the grand final: undefeated, or back from the losers bracket.      *)
LEMMA IntoTheGrandFinal ==
    ASSUME Played, Double, NEW p \in Player, GrandFinal \in Seen(p)
    PROVE  p = WinnersFinalist \/ \E a \in Seen(p) \cap Winners : winner[a] # p
<1>1. LosersBracket /\ Seen(p) \subseteq Match \ {Decider}
  BY DEF Played, Seen
<1>2. GrandFinal \notin FirstRound
  BY <1>1, TwoBrackets
<1>3. PICK x \in Seen(p) : Goes(x, p) = GrandFinal
  BY <1>2, ComesFrom
<1>4. x # GrandFinal
  BY <1>1, <1>3, TwoBrackets DEF Goes
<1>5. CASE x \in Losers
  BY <1>5, Dropped
<1>6. CASE x \in Winners
  <2>1. winner[x] = p /\ Next[x] = GrandFinal
    BY <1>1, <1>3, <1>6, TwoBrackets DEF Goes
  <2>2. PICK f \in Winners : /\ \A g \in Winners : Next[g] = GrandFinal <=> g = f
                             /\ WinnersFinalist = winner[f]
    BY <1>1, Finalist
  <2>3. x = f
    BY <1>6, <2>1, <2>2
  <2> QED
    BY <2>1, <2>2, <2>3
<1> QED
  BY <1>1, <1>4, <1>5, <1>6, TwoBrackets

(* The winners finalist comes into the grand final without a loss.         *)
LEMMA Undefeated ==
    ASSUME Played, Double, NEW p \in Player, p = WinnersFinalist
    PROVE  /\ GrandFinal \in Seen(p)
           /\ \A a \in Beaten(p) : a \in {GrandFinal, Decider}
<1>1. LosersBracket /\ Seen(p) \subseteq Match \ {Decider} /\ p # NoPlayer
  BY WiringAssumption DEF Played, Seen
<1>2. PICK f \in Winners : /\ \A g \in Winners : Next[g] = GrandFinal <=> g = f
                           /\ WinnersFinalist = winner[f]
  BY <1>1, Finalist
<1>3. f \in Match /\ f # Decider /\ Next[f] = GrandFinal /\ winner[f] = p
  BY <1>2, WiringAssumption
<1>4. p \in Present(f)
  BY <1>1, <1>3 DEF Played, Rows, PlayedRow
<1>5. f \in Seen(p) /\ Goes(f, p) = GrandFinal
  BY <1>3, <1>4 DEF Seen, Goes
<1>6. GrandFinal # NoMatch
  BY <1>1, TwoBrackets
<1>7. GrandFinal \in Seen(p)
  BY <1>5, <1>6, GoesOn
<1>8. Goes(GrandFinal, p) = NoMatch
  BY <1>1, TwoBrackets DEF Goes
<1>9. \A a \in Seen(p) \cap Winners : winner[a] = p
  <2> SUFFICES ASSUME NEW a \in Seen(p) \cap Winners, winner[a] # p
               PROVE  FALSE
    OBVIOUS
  <2>1. Rank[a] \in Nat /\ Rank[f] \in Nat /\ Rank[GrandFinal] \in Nat
    BY <1>1, <1>5, <1>7, ShapeAssumption
  <2>2. a # f /\ a # GrandFinal
    BY <1>1, <1>3, TwoBrackets
  <2>3. ~(Rank[a] <= Rank[f])
    BY <1>5, <2>2, NeverBack
  <2>4. Rank[f] <= Rank[a]
    BY <2>1, <2>3
  <2>5. Rank[GrandFinal] <= Rank[a]
    BY <1>5, <2>2, <2>4, Path
  <2> QED
    BY <1>7, <1>8, <2>2, <2>5, Path
<1>10. Seen(p) \cap Losers = {}
  BY <1>9, Dropped
<1>11. ASSUME NEW a \in Beaten(p), a # Decider
       PROVE  a = GrandFinal
  <2>1. a \in Seen(p) /\ winner[a] # p
    BY <1>11, BeatenSeen
  <2> QED
    BY <1>1, <1>9, <1>10, <1>11, <2>1, TwoBrackets
<1> QED
  BY <1>7, <1>11

(* Who won the grand final has lost before it at most.                     *)
LEMMA WonTheGrandFinal ==
    ASSUME Played, Double, NEW p \in Player, winner[GrandFinal] = p,
           NEW a \in Beaten(p), a # Decider
    PROVE  a \in Winners
<1>1. LosersBracket /\ GrandFinal \in Match /\ GrandFinal # Decider /\ p # NoPlayer
  BY WiringAssumption, TwoBrackets DEF Played
<1>2. GrandFinal \in Seen(p)
  BY <1>1 DEF Seen, Played, Rows, PlayedRow
<1>3. Goes(GrandFinal, p) = NoMatch
  BY <1>1, TwoBrackets DEF Goes
<1>4. a \in Seen(p) /\ winner[a] # p /\ Goes(a, p) = LoserNext[a]
  BY BeatenSeen
<1>5. a # GrandFinal
  BY <1>4
<1>6. LoserNext[a] # NoMatch
  BY <1>2, <1>3, <1>4, <1>5, OneEnd
<1> QED
  BY <1>1, <1>4, <1>5, <1>6, TwoBrackets DEF Seen

(* The grand final with its reset match.                                   *)
LEMMA ResetMatch ==
    ASSUME Played, Double, DeciderRow, Decisive(champion), status[Decider] # "ABSENT"
    PROVE  /\ champion \in Present(GrandFinal) /\ Done(Decider) /\ Full(Decider)
           /\ winner[Decider] = champion /\ Present(Decider) = Present(GrandFinal)
           /\ \A p \in Present(GrandFinal) : p = winner[GrandFinal] \/ p = WinnersFinalist
           /\ winner[GrandFinal] # WinnersFinalist
<1>1. LosersBracket /\ GrandFinal \in Match /\ GrandFinal # Decider
  BY TwoBrackets DEF Played
<1>2. CallsForReset /\ slots[Decider][1] = slots[GrandFinal][1]
                    /\ slots[Decider][2] = slots[GrandFinal][2]
  BY DEF DeciderRow
<1>3. Done(Decider) /\ winner[Decider] = champion /\ champion # NoPlayer
  BY DEF Decisive
<1>4. Present(Decider) = Present(GrandFinal) /\ Full(Decider) = Full(GrandFinal)
  BY <1>2 DEF Present, Full
<1>5. Decider \in Match
  BY WiringAssumption
<1>6. champion \in Present(GrandFinal)
  BY <1>3, <1>4, <1>5 DEF Played, Rows, PlayedRow
<1>7. winner[GrandFinal] \in Present(GrandFinal) /\ winner[GrandFinal] # WinnersFinalist
  BY <1>1, <1>2 DEF CallsForReset, Played, Rows, PlayedRow
<1>8. WinnersFinalist \in Player
  <2>1. PICK f \in Winners : WinnersFinalist = winner[f]
    BY <1>1, Finalist
  <2>2. f \in Match
    BY WiringAssumption
  <2> QED
    BY <1>2, <2>1, <2>2 DEF CallsForReset, Played, IInv, TypeOK, Seat
<1>9. WinnersFinalist \in Present(GrandFinal)
  BY <1>8, Undefeated DEF Seen
<1>10. \A p \in Present(GrandFinal) : p = winner[GrandFinal] \/ p = WinnersFinalist
  BY <1>7, <1>9 DEF Present
<1>11. Full(GrandFinal)
  BY <1>7, <1>9 DEF Present, Full
<1> QED
  BY <1>3, <1>4, <1>6, <1>7, <1>10, <1>11

LEMMA DoubleChampion ==
    ASSUME Played, Double, DeciderRow, Decisive(champion),
           NEW a \in Beaten(champion), NEW b \in Beaten(champion)
    PROVE  a = b
<1>1. champion \in Player
  BY ChampionPlays
<1>2. Decider \notin Beaten(champion)
  BY DEF Beaten, Decisive, Done
<1>3. CASE winner[GrandFinal] = champion
  <2>1. a \in Winners /\ b \in Winners
    BY <1>1, <1>2, <1>3, WonTheGrandFinal
  <2> QED
    BY <1>1, <1>2, <2>1, TwoLosses
<1>4. CASE winner[GrandFinal] # champion
  <2>1. status[Decider] # "ABSENT"
    BY <1>4 DEF Decisive
  <2>2. champion = WinnersFinalist
    BY <1>4, <2>1, ResetMatch
  <2>3. \A x \in Beaten(champion) : x \in {GrandFinal, Decider}
    BY <1>1, <2>2, Undefeated
  <2> QED
    BY <1>2, <2>3
<1> QED
  BY <1>3, <1>4

LEMMA DoubleField ==
    ASSUME Played, Double, DeciderRow, Decisive(champion),
           NEW p \in Player, p # champion
    PROVE  /\ Beaten(p) # {}
           /\ GrandFinalReset => \E a, b \in Beaten(p) : a # b
<1>1. LosersBracket /\ Seen(p) \subseteq Match \ {Decider} /\ p # NoPlayer
  BY WiringAssumption DEF Played, Seen
<1>2. PICK t \in Seen(p) : Goes(t, p) = NoMatch
  BY AnEnd
<1>3. t \notin Winners
  BY <1>1, <1>2, TwoBrackets DEF Goes
<1>4. ASSUME \E a \in Seen(p) \cap Winners : winner[a] # p
      PROVE  \E a \in Beaten(p) : a \in Winners
  BY <1>4, LostIsBeaten
<1>5. CASE t \in Losers
  <2>1. winner[t] # p
    BY <1>1, <1>2, <1>5, TwoBrackets DEF Goes
  <2>2. t \in Beaten(p)
    BY <2>1, LostIsBeaten
  <2>3. \E a \in Seen(p) \cap Winners : winner[a] # p
    BY <1>5, Dropped
  <2> QED
    BY <1>3, <1>4, <2>2, <2>3
<1>6. CASE t = GrandFinal
  <2>1. GrandFinal \in Seen(p) /\ GrandFinal # Decider /\ GrandFinal \notin Winners
    BY <1>1, <1>6, TwoBrackets
  <2>2. CASE status[Decider] = "ABSENT"
    <3>1. Done(GrandFinal) /\ winner[GrandFinal] = champion /\ ~CallsForReset /\ champion # NoPlayer
      BY <2>2 DEF Decisive
    <3>2. GrandFinal \in Beaten(p)
      BY <2>1, <3>1, LostIsBeaten
    <3>3. GrandFinalReset => p # WinnersFinalist
      BY <1>1, <3>1 DEF CallsForReset
    <3>4. GrandFinalReset => \E a \in Beaten(p) : a \in Winners
      BY <1>4, <2>1, <3>3, IntoTheGrandFinal
    <3> QED
      BY <2>1, <3>2, <3>4
  <2>3. CASE status[Decider] # "ABSENT"
    <3>1. p \in Present(GrandFinal)
      BY <2>1 DEF Seen
    <3>2. Decider \in Beaten(p)
      BY <2>3, <3>1, ResetMatch, WiringAssumption DEF Beaten
    <3>3. CASE p = WinnersFinalist
      <4>1. winner[GrandFinal] # p
        BY <2>3, <3>3, ResetMatch
      <4>2. GrandFinal \in Beaten(p)
        BY <2>1, <4>1, LostIsBeaten
      <4> QED
        BY <2>1, <3>2, <4>2
    <3>4. CASE p # WinnersFinalist
      <4>1. \E a \in Beaten(p) : a \in Winners
        BY <1>4, <2>1, <3>4, IntoTheGrandFinal
      <4>2. Decider \notin Winners
        BY WiringAssumption
      <4> QED
        BY <3>2, <4>1, <4>2
    <3> QED
      BY <3>3, <3>4
  <2> QED
    BY <2>2, <2>3
<1> QED
  BY <1>1, <1>3, <1>5, <1>6, TwoBrackets

---------------------------------------------------------------------------
LEMMA AtMostOne ==
    ASSUME NEW S, IsFiniteSet(S), \A a, b \in S : a = b
    PROVE  Cardinality(S) < 2
<1>1. CASE S = {}
  BY <1>1, FS_EmptySet
<1>2. CASE S # {}
  <2>1. PICK a \in S : TRUE
    BY <1>2
  <2>2. S = {a}
    BY <2>1
  <2> QED
    BY <2>2, FS_Singleton
<1> QED
  BY <1>1, <1>2

LEMMA AtLeast ==
    ASSUME NEW S, IsFiniteSet(S), S # {}
    PROVE  /\ Cardinality(S) >= 1
           /\ (\E a, b \in S : a # b) => Cardinality(S) >= 2
<1>1. Cardinality(S) \in Nat /\ Cardinality(S) # 0
  BY FS_CardinalityType, FS_EmptySet
<1>2. ASSUME Cardinality(S) = 1
      PROVE  \A a, b \in S : a = b
  <2>1. PICK a \in S : S = {a}
    BY <1>2, FS_Singleton
  <2> QED
    BY <2>1
<1> QED
  BY <1>1, <1>2

(* One request at a time: when the tournament is over, the champion has    *)
(* won it. Everybody else has lost twice where the grand final is reset,   *)
(* once elsewhere, and he himself less often than the format puts a player *)
(* out for (checkElimination, shouldCreateGrandFinalReset).                *)
THEOREM TitleIsEarned ==
    ASSUME NEW r, Request = {r}, ~HalfFilled, LosersBracket
    PROVE  Spec => []ChampionOutlastsTheField
<1>1. OneByOne
  BY DEF OneByOne
<1>2. Init => Cascade(r)
  BY <1>1, InitCascade
<1>3. Cascade(r) /\ [NextStep]_vars => Cascade(r)'
  BY CascadeStep
<1>4. Cascade(r) => ChampionOutlastsTheField
  <2> SUFFICES ASSUME Cascade(r), over, Quiet
               PROVE  /\ champion # NoPlayer
                      /\ Cardinality(Beaten(champion)) < (IF Double THEN 2 ELSE 1)
                      /\ \A p \in Player \ {champion} : Cardinality(Beaten(p)) >= Lives
    BY DEF ChampionOutlastsTheField
  <2>1. Played /\ Decisive(champion)
    BY AllPlayed
  <2>2. DeciderRow /\ champion # NoPlayer /\ Double \in BOOLEAN
    BY <2>1, WiringAssumption DEF Cascade, Table, Decisive
  <2>3. \A p : IsFiniteSet(Beaten(p))
    <3> SUFFICES ASSUME NEW p
                 PROVE  IsFiniteSet(Beaten(p))
      OBVIOUS
    <3>1. Beaten(p) \in SUBSET Match
      BY DEF Beaten
    <3> QED
      BY <3>1, WiringAssumption, FS_Subset
  <2>4. CASE ~Double
    <3>1. Beaten(champion) = {} /\ \A p \in Player \ {champion} : Beaten(p) # {}
      BY <2>1, <2>4, SingleTitle
    <3>2. Cardinality(Beaten(champion)) = 0
      BY <3>1, FS_EmptySet
    <3>3. \A p \in Player \ {champion} : Cardinality(Beaten(p)) >= 1
      BY <2>3, <3>1, AtLeast
    <3> QED
      BY <2>2, <2>4, <3>2, <3>3 DEF Lives
  <2>5. CASE Double
    <3>1. \A a, b \in Beaten(champion) : a = b
      BY <2>1, <2>2, <2>5, DoubleChampion
    <3>2. Cardinality(Beaten(champion)) < 2
      BY <2>3, <3>1, AtMostOne
    <3>3. ASSUME NEW p \in Player \ {champion}
          PROVE  Cardinality(Beaten(p)) >= Lives
      <4>1. Beaten(p) # {} /\ (GrandFinalReset => \E a, b \in Beaten(p) : a # b)
        BY <2>1, <2>2, <2>5, DoubleField
      <4>2. Cardinality(Beaten(p)) >= 1 /\ (GrandFinalReset => Cardinality(Beaten(p)) >= 2)
        BY <2>3, <4>1, AtLeast
      <4> QED
        BY <4>2 DEF Lives
    <3> QED
      BY <2>2, <2>5, <3>2, <3>3
  <2> QED
    BY <2>4, <2>5
<1> QED
  BY <1>2, <1>3, <1>4, PTL DEF Spec
=============================================================================
