---------------------------- MODULE Elimination ----------------------------
(***************************************************************************)
(* A started elimination bracket: match.service.ts completes matches and   *)
(* formats.service.ts moves players on, from the first result to the       *)
(* crowning of the champion, with forfeits and resets on the way.          *)
(*                                                                         *)
(* Every HTTP request runs as a chain of awaited database calls with no    *)
(* transaction around the chain (resetMatch alone has one), so a request   *)
(* is a stack of calls, calls[r], whose top one runs in one step: it reads *)
(* some rows, or writes one, and is replaced by the calls it makes.  With  *)
(* one request in flight the handlers run to their end one after another,  *)
(* with two they interleave between any two calls.                         *)
(*                                                                         *)
(* Left out here: statistics, scores, notifications, realtime events.      *)
(***************************************************************************)
EXTENDS Integers, Sequences, FiniteSets

CONSTANTS
    Player, NoPlayer,
    Match, NoMatch,
    Entrants,        \* [first-round matches -> their two slots]
    Winners,         \* the matches of the winners bracket (all, in single)
    Next, LoserNext, \* nextMatchId, loserNextMatchId
    Draw,            \* [Match -> the entrants whose path leads through it]
    Double,          \* double elimination?
    GrandFinal,      \* round 200 (double elimination only)
    Decider,         \* round 201, the grand-final reset match
    GrandFinalReset, \* config.grandFinalReset
    Rank,            \* [Match -> Nat], growing along the links
    Request,         \* the requests that may be in flight at once
    HalfFilled,      \* may staff submit a result while a slot is still open?
    Quitters,        \* the players who may forfeit
    MaxResets, MaxStarts   \* bounds on those requests

FirstRound == DOMAIN Entrants
Feeders(m) == {f \in Match : Next[f] = m \/ LoserNext[f] = m}

(* Everybody drawn to f is drawn to d, and others are.                     *)
Below(f, d) == Draw[f] \subseteq Draw[d] /\ Draw[f] # Draw[d]
Apart(f, d) == Draw[f] \cap Draw[d] = {}

ASSUME WiringAssumption ==
    /\ NoPlayer \notin Player
    /\ NoMatch \notin Match /\ IsFiniteSet(Match)
    /\ FirstRound \subseteq Winners /\ Winners \subseteq Match
    /\ Entrants \in [FirstRound -> [1..2 -> Player \cup {NoPlayer}]]
    /\ Next \in [Match -> Match \cup {NoMatch}]
    /\ LoserNext \in [Match -> Match \cup {NoMatch}]
    /\ Draw \in [Match -> SUBSET Player]
    /\ \A m \in FirstRound, i \in 1..2 : Entrants[m][i] \in Draw[m] \cup {NoPlayer}
    /\ \A m \in Match : Next[m] # NoMatch => Draw[m] \subseteq Draw[Next[m]]
    /\ \A m \in Match : LoserNext[m] # NoMatch => Draw[m] \subseteq Draw[LoserNext[m]]
    /\ Double \in BOOLEAN /\ GrandFinalReset \in BOOLEAN /\ HalfFilled \in BOOLEAN
    /\ Double => {GrandFinal, Decider} \subseteq Match \ Winners
                    /\ Draw[GrandFinal] \subseteq Draw[Decider]
    /\ \A m \in FirstRound : Feeders(m) = {}
    /\ ~Double =>            \* a tree: nothing lies between m and Next[m]
          /\ \A m \in FirstRound, f \in Match : ~Below(f, m)
          /\ \A f, m \in Match :
                /\ f = m \/ Apart(f, m) \/ Below(f, m) \/ Below(m, f)
                /\ Next[m] # NoMatch /\ Below(f, Next[m]) =>
                      f = m \/ Apart(f, m) \/ Below(f, m)
    /\ Quitters \subseteq Player /\ MaxResets \in Nat /\ MaxStarts \in Nat

Losers == Match \ (Winners \cup {GrandFinal, Decider})

(* Of all double eliminations only that of two players has no losers       *)
(* bracket: both players of its first match go on to the grand final.      *)
LosersBracket == Double => \A m \in Winners : LoserNext[m] # GrandFinal

(* Everybody is drawn once, the links lead upwards to one final, and a     *)
(* match is fed by two at most.                                            *)
ASSUME ShapeAssumption ==
    /\ Rank \in [Match -> Nat]
    /\ \A p \in Player : \E m \in FirstRound, i \in 1..2 :
          \A n \in FirstRound, j \in 1..2 : Entrants[n][j] = p <=> n = m /\ j = i
    /\ \A m \in Match \ FirstRound : m # Decider => Feeders(m) # {}
    /\ \A m \in Match : \A f, g, h \in Feeders(m) : f = g \/ g = h \/ f = h
    /\ \A m \in Match : Next[m] # NoMatch => Rank[m] < Rank[Next[m]]
    /\ ~Double =>
          /\ Winners = Match /\ Decider \notin Match
          /\ \A m \in Match : LoserNext[m] = NoMatch
          /\ \A m, n \in Match : Next[m] = NoMatch /\ Next[n] = NoMatch => m = n
    /\ Double /\ LosersBracket =>
          /\ GrandFinal # Decider
          /\ \A m \in Winners :
                /\ Next[m] \in Winners \cup {GrandFinal}
                /\ LoserNext[m] \in Losers
                /\ Rank[m] < Rank[LoserNext[m]] /\ Rank[LoserNext[m]] < Rank[Next[m]]
          /\ \A m \in Losers : Next[m] \in Losers \cup {GrandFinal}
                                  /\ LoserNext[m] = NoMatch
          /\ \A m \in {GrandFinal, Decider} : Next[m] = NoMatch /\ LoserNext[m] = NoMatch
          /\ \E f \in Winners : \A g \in Winners : Next[g] = GrandFinal <=> g = f

VARIABLES
    status,     \* Match.status, "ABSENT" until the row exists
    slots,      \* <<player1Id, player2Id>>
    winner,     \* Match.winnerId
    bye,        \* Match.isBye
    started,    \* Match.startedAt is set
    out,        \* participants with status FORFEITED
    over,       \* Tournament.status = COMPLETED
    champion,   \* Tournament.winnerId
    calls,      \* the call stack of each request
    resets      \* resets so far, to bound them

bracket == <<status, slots, winner, bye, started>>
vars == <<status, slots, winner, bye, started, out, over, champion, calls, resets>>

Seat == Player \cup {NoPlayer}

Op == {"Complete", "CompleteBye", "Handle", "Advance", "Fill1", "Fill2",
       "Resolve", "Walkover", "Settle", "Check", "CreateDecider", "Crown",
       "Start", "List", "Forfeit"}

(* A pending call: the operation, its match, its player, and for the       *)
(* reset match its second player, for a forfeit the matches still to award.*)
Call(op, m, p) == [op |-> op, m |-> m, p |-> p, q |-> NoPlayer, todo |-> {}]

Calls == [op : Op, m : Match \cup {NoMatch}, p : Seat, q : Seat,
          todo : SUBSET (Match \X Player)]

TypeOK ==
    /\ status \in [Match -> {"ABSENT", "PENDING", "ONGOING", "COMPLETED"}]
    /\ slots \in [Match -> [1..2 -> Seat]]
    /\ winner \in [Match -> Seat]
    /\ bye \in [Match -> BOOLEAN]
    /\ started \in [Match -> BOOLEAN]
    /\ out \subseteq Player
    /\ over \in BOOLEAN
    /\ champion \in Seat
    /\ calls \in [Request -> Seq(Calls)]
    /\ resets \in Nat

---------------------------------------------------------------------------
Done(m)    == status[m] = "COMPLETED"
Present(m) == {slots[m][1], slots[m][2]} \ {NoPlayer}
Full(m)    == slots[m][1] # NoPlayer /\ slots[m][2] # NoPlayer
Opponent(m, p) == IF slots[m][1] = p THEN slots[m][2] ELSE slots[m][1]

(* The player a completed match hands to the match d it feeds.             *)
Delivers(f, d) ==
    IF ~Done(f) \/ winner[f] = NoPlayer THEN NoPlayer
    ELSE IF Next[f] = d THEN winner[f] ELSE Opponent(f, winner[f])

DeliveredTo(d) == {Delivers(f, d) : f \in Feeders(d)} \ {NoPlayer}

HasBye(m) == m \in FirstRound /\ \E i \in 1..2 : Entrants[m][i] = NoPlayer

Idle(r) == calls[r] = <<>>
Quiet   == \A r \in Request : Idle(r)

(* startTournament has drawn the bracket, left every match PENDING, and is *)
(* about to complete the byes, one after the other, in some order.         *)
Orders(S) == {s \in [1..Cardinality(S) -> S] :
                \A i, j \in 1..Cardinality(S) : s[i] = s[j] => i = j}

ByeCalls(ms) ==
    [i \in 1..Len(ms) |->
        Call("Complete", ms[i],
             IF Entrants[ms[i]][1] # NoPlayer THEN Entrants[ms[i]][1]
                                              ELSE Entrants[ms[i]][2])]

Init ==
    /\ status = [m \in Match |->
                    IF Double /\ m = Decider THEN "ABSENT" ELSE "PENDING"]
    /\ slots = [m \in Match |->
                    IF m \in FirstRound THEN Entrants[m]
                                        ELSE [i \in 1..2 |-> NoPlayer]]
    /\ winner = [m \in Match |-> NoPlayer]
    /\ bye = [m \in Match |-> HasBye(m)]
    /\ started = [m \in Match |-> FALSE]
    /\ out = {}
    /\ over = FALSE
    /\ champion = NoPlayer
    /\ resets = 0
    /\ \E r \in Request, ms \in Orders({m \in FirstRound : HasBye(m)}) :
          calls = [s \in Request |-> IF s = r THEN ByeCalls(ms) ELSE <<>>]

---------------------------------------------------------------------------
(* The calls a running request makes.                                      *)

Top(r)     == Head(calls[r])
Running(r, op) == ~Idle(r) /\ Top(r).op = op
Return(r, made) == calls' = [calls EXCEPT ![r] = made \o Tail(calls[r])]
Throw(r)   == calls' = [calls EXCEPT ![r] = <<>>]
Unless(none, made) == IF none THEN <<>> ELSE <<made>>

(* The write every completion makes, and what is awaited after it: a match *)
(* that ended without a winner is dead and only starves what it fed.       *)
Complete(r) ==
    /\ Running(r, "Complete") \/ Running(r, "CompleteBye")
    /\ LET m == Top(r).m
           p == Top(r).p
       IN  /\ status' = [status EXCEPT ![m] = "COMPLETED"]
           /\ winner' = IF p = NoPlayer THEN winner ELSE [winner EXCEPT ![m] = p]
           /\ bye' = IF Top(r).op = "CompleteBye" THEN [bye EXCEPT ![m] = TRUE]
                                                  ELSE bye
           /\ Return(r, IF p # NoPlayer THEN <<Call("Handle", m, NoPlayer)>>
                        ELSE Unless(Next[m] = NoMatch, Call("Settle", Next[m], NoPlayer))
                          \o Unless(LoserNext[m] = NoMatch,
                                    Call("Settle", LoserNext[m], NoPlayer)))
    /\ UNCHANGED <<slots, started, out, over, champion, resets>>

(* handleMatchCompletion: advance the winner, drop the loser, look for     *)
(* starved matches, then ask whether the tournament is over.               *)
Handle(r) ==
    /\ Running(r, "Handle")
    /\ LET m == Top(r).m
           w == winner[m]
           l == Opponent(m, w)
       IN  Return(r,
             Unless(Next[m] = NoMatch \/ w = NoPlayer, Call("Advance", Next[m], w))
               \o (IF ~Double THEN <<>> ELSE
                     Unless(LoserNext[m] = NoMatch \/ l = NoPlayer,
                            Call("Advance", LoserNext[m], l))
                  \o Unless(Next[m] = NoMatch, Call("Settle", Next[m], NoPlayer))
                  \o Unless(LoserNext[m] = NoMatch,
                            Call("Settle", LoserNext[m], NoPlayer)))
               \o <<Call("Check", m, NoPlayer)>>)
    /\ UNCHANGED <<bracket, out, over, champion, resets>>

(* advanceWinner and advanceLoser: choose the slot from one read ...       *)
Advance(r) ==
    /\ Running(r, "Advance")
    /\ LET d == Top(r).m
           p == Top(r).p
       IN  IF p \in Present(d) THEN Return(r, <<>>)
           ELSE IF status[d] # "PENDING" \/ Full(d) THEN Throw(r)
           ELSE Return(r, <<Call(IF slots[d][1] = NoPlayer THEN "Fill1" ELSE "Fill2",
                                 d, p)>>)
    /\ UNCHANGED <<bracket, out, over, champion, resets>>

(* Mutants of Fill: a player still waiting for the other feeder is passed  *)
(* on; an opponent who has forfeited is not noticed.                       *)
FillRushing(r) ==
    /\ Running(r, "Fill1") \/ Running(r, "Fill2")
    /\ LET d   == Top(r).m
           p   == Top(r).p
           now == [slots[d] EXCEPT ![IF Top(r).op = "Fill1" THEN 1 ELSE 2] = p]
       IN  /\ slots' = [slots EXCEPT ![d] = now]
           /\ Return(r, IF now[1] # NoPlayer /\ now[2] # NoPlayer
                        THEN <<Call("Resolve", d, NoPlayer)>>
                        ELSE <<Call("Complete", d, p)>>)
    /\ UNCHANGED <<status, winner, bye, started, out, over, champion, resets>>

FillUnresolved(r) ==
    /\ Running(r, "Fill1") \/ Running(r, "Fill2")
    /\ LET d   == Top(r).m
           p   == Top(r).p
           now == [slots[d] EXCEPT ![IF Top(r).op = "Fill1" THEN 1 ELSE 2] = p]
       IN  /\ slots' = [slots EXCEPT ![d] = now]
           /\ Return(r, Unless(~bye[d] \/ (now[1] # NoPlayer /\ now[2] # NoPlayer),
                               Call("Complete", d, p)))
    /\ UNCHANGED <<status, winner, bye, started, out, over, champion, resets>>

(* ... and write it with another.                                          *)
Fill(r) ==
    /\ Running(r, "Fill1") \/ Running(r, "Fill2")
    /\ LET d   == Top(r).m
           p   == Top(r).p
           now == [slots[d] EXCEPT ![IF Top(r).op = "Fill1" THEN 1 ELSE 2] = p]
       IN  /\ slots' = [slots EXCEPT ![d] = now]
           /\ Return(r, IF now[1] # NoPlayer /\ now[2] # NoPlayer
                        THEN <<Call("Resolve", d, NoPlayer)>>
                        ELSE Unless(~bye[d], Call("Complete", d, p)))
    /\ UNCHANGED <<status, winner, bye, started, out, over, champion, resets>>

(* resolveForfeitedPairing: exactly one of the two has forfeited.          *)
Resolve(r) ==
    /\ Running(r, "Resolve")
    /\ LET m == Top(r).m
           lost(i) == slots[m][i] \in out
       IN  Return(r, Unless(Done(m) \/ ~Full(m) \/ (lost(1) <=> lost(2)),
                            Call("Walkover", m, slots[m][IF lost(1) THEN 2 ELSE 1])))
    /\ UNCHANGED <<bracket, out, over, champion, resets>>

(* completeAsWalkover.                                                     *)
Walkover(r) ==
    /\ Running(r, "Walkover")
    /\ Return(r, Unless(Done(Top(r).m), Call("Complete", Top(r).m, Top(r).p)))
    /\ UNCHANGED <<bracket, out, over, champion, resets>>

(* Mutant of Settle: a match nobody will ever reach is left open.          *)
SettleOccupied(r) ==
    /\ Running(r, "Settle")
    /\ LET m == Top(r).m
       IN  Return(r, Unless(Done(m) \/ Full(m) \/ Present(m) = {} \/ Feeders(m) = {}
                                \/ \E f \in Feeders(m) : ~Done(f),
                            Call("CompleteBye", m,
                                 IF slots[m][1] # NoPlayer THEN slots[m][1]
                                                           ELSE slots[m][2])))
    /\ UNCHANGED <<bracket, out, over, champion, resets>>

(* settleLosersStarvation: only once every feeder has completed.           *)
Settle(r) ==
    /\ Running(r, "Settle")
    /\ LET m == Top(r).m
       IN  Return(r, Unless(Done(m) \/ Full(m) \/ Feeders(m) = {}
                                \/ \E f \in Feeders(m) : ~Done(f),
                            Call("CompleteBye", m,
                                 IF slots[m][1] # NoPlayer THEN slots[m][1]
                                                           ELSE slots[m][2])))
    /\ UNCHANGED <<bracket, out, over, champion, resets>>

(* winnersFinalistId: who came into the grand final undefeated.            *)
WinnersFinalist == winner[CHOOSE f \in Winners : Next[f] = GrandFinal]

(* Mutants of Verdict: the grand final always decides; the result of the   *)
(* reset match is not looked at.                                           *)
VerdictWithoutReset(m) ==
    LET crown(d) == Unless(~Done(d) \/ winner[d] = NoPlayer,
                           Call("Crown", d, winner[d]))
    IN  IF ~Double THEN IF Next[m] = NoMatch THEN crown(m) ELSE <<>>
        ELSE crown(GrandFinal)

VerdictWithoutDecider(m) ==
    LET crown(d) == Unless(~Done(d) \/ winner[d] = NoPlayer,
                           Call("Crown", d, winner[d]))
    IN  IF ~Double THEN IF Next[m] = NoMatch THEN crown(m) ELSE <<>>
        ELSE IF ~Done(GrandFinal) \/ winner[GrandFinal] = NoPlayer THEN <<>>
        ELSE IF status[Decider] # "ABSENT" THEN <<>>
        ELSE IF GrandFinalReset /\ WinnersFinalist # NoPlayer
                    /\ winner[GrandFinal] # WinnersFinalist
        THEN <<[Call("CreateDecider", Decider, slots[GrandFinal][1])
                    EXCEPT !.q = slots[GrandFinal][2]]>>
        ELSE crown(GrandFinal)

(* checkSingleEliminationComplete, checkDoubleEliminationComplete.         *)
Verdict(m) ==
    LET crown(d) == Unless(~Done(d) \/ winner[d] = NoPlayer,
                           Call("Crown", d, winner[d]))
    IN  IF ~Double THEN IF Next[m] = NoMatch THEN crown(m) ELSE <<>>
        ELSE IF ~Done(GrandFinal) \/ winner[GrandFinal] = NoPlayer THEN <<>>
        ELSE IF status[Decider] # "ABSENT" THEN crown(Decider)
        ELSE IF GrandFinalReset /\ WinnersFinalist # NoPlayer
                    /\ winner[GrandFinal] # WinnersFinalist
        THEN <<[Call("CreateDecider", Decider, slots[GrandFinal][1])
                    EXCEPT !.q = slots[GrandFinal][2]]>>
        ELSE crown(GrandFinal)

Check(r) ==
    /\ Running(r, "Check")
    /\ Return(r, Verdict(Top(r).m))
    /\ UNCHANGED <<bracket, out, over, champion, resets>>

(* createGrandFinalReset; a second round 201 violates a unique index.      *)
CreateDecider(r) ==
    /\ Running(r, "CreateDecider")
    /\ IF status[Decider] # "ABSENT"
       THEN Throw(r) /\ UNCHANGED <<status, slots>>
       ELSE /\ status' = [status EXCEPT ![Decider] = "PENDING"]
            /\ slots' = [slots EXCEPT ![Decider] = <<Top(r).p, Top(r).q>>]
            /\ Return(r, <<>>)
    /\ UNCHANGED <<winner, bye, started, out, over, champion, resets>>

(* Tournament.winnerId is written, then completeTournament closes it.      *)
Crown(r) ==
    /\ Running(r, "Crown")
    /\ champion' = Top(r).p
    /\ over' = TRUE
    /\ Return(r, <<>>)
    /\ UNCHANGED <<bracket, out, resets>>

Start(r) ==
    /\ Running(r, "Start")
    /\ status' = [status EXCEPT ![Top(r).m] = "ONGOING"]
    /\ started' = [started EXCEPT ![Top(r).m] = TRUE]
    /\ Return(r, <<>>)
    /\ UNCHANGED <<slots, winner, bye, out, over, champion, resets>>

(* forfeitParticipant lists the player's open matches once; every known    *)
(* opponent is then given a walkover, one match after another.             *)
List(r) ==
    /\ Running(r, "List")
    /\ LET p == Top(r).p
           open == {m \in Match : status[m] \in {"PENDING", "ONGOING"}
                                    /\ p \in Present(m)}
       IN  Return(r, <<[Call("Forfeit", NoMatch, p) EXCEPT !.todo =
               {<<m, Opponent(m, p)>> : m \in {o \in open : Opponent(o, p) # NoPlayer}}]>>)
    /\ UNCHANGED <<bracket, out, over, champion, resets>>

Award(r) ==
    /\ Running(r, "Forfeit")
    /\ IF Top(r).todo = {} THEN Return(r, <<>>)
       ELSE \E x \in Top(r).todo :
               Return(r, <<Call("Walkover", x[1], x[2]),
                           [Top(r) EXCEPT !.todo = @ \ {x}]>>)
    /\ UNCHANGED <<bracket, out, over, champion, resets>>

Step(r) ==
    \/ Complete(r) \/ Handle(r) \/ Advance(r) \/ Fill(r) \/ Resolve(r)
    \/ Walkover(r) \/ Settle(r) \/ Check(r) \/ CreateDecider(r) \/ Crown(r)
    \/ Start(r) \/ List(r) \/ Award(r)

---------------------------------------------------------------------------
(* Requests.  Each begins with the read its own guards are decided by.     *)

Begin(r, call) == calls' = [calls EXCEPT ![r] = <<call>>]

(* Mutants of SubmitResult: a completed match is accepted again; the       *)
(* winner need not be in the match.                                        *)
SubmitResultAgain(r, m, w) ==
    /\ Idle(r)
    /\ status[m] # "ABSENT"
    /\ w \in Present(m)
    /\ Full(m) \/ bye[m] \/ HalfFilled
    /\ Begin(r, Call("Complete", m, w))
    /\ UNCHANGED <<bracket, out, over, champion, resets>>

SubmitResultForAnybody(r, m, w) ==
    /\ Idle(r)
    /\ status[m] \in {"PENDING", "ONGOING"}
    /\ Full(m) \/ bye[m] \/ HalfFilled
    /\ Begin(r, Call("Complete", m, w))
    /\ UNCHANGED <<bracket, out, over, champion, resets>>

(* submitResult, with a winner: draws are refused in a bracket.            *)
SubmitResult(r, m, w) ==
    /\ Idle(r)
    /\ status[m] \in {"PENDING", "ONGOING"}
    /\ w \in Present(m)
    /\ Full(m) \/ bye[m] \/ HalfFilled
    /\ Begin(r, Call("Complete", m, w))
    /\ UNCHANGED <<bracket, out, over, champion, resets>>

StartMatch(r, m) ==
    /\ Idle(r)
    /\ Cardinality({d \in Match : started[d]}) < MaxStarts
    /\ status[m] = "PENDING" /\ ~bye[m] /\ Full(m)
    /\ Begin(r, Call("Start", m, NoPlayer))
    /\ UNCHANGED <<bracket, out, over, champion, resets>>

ForfeitParticipant(r, p) ==
    /\ Idle(r)
    /\ ~over
    /\ p \in Quitters \ out
    /\ out' = out \cup {p}
    /\ Begin(r, Call("List", NoMatch, p))
    /\ UNCHANGED <<bracket, over, champion, resets>>

(* Mutant of Reseated: the destination keeps the players it has.           *)
ReseatedStale(d, m) == {slots[d]}

(* The slots resetMatch leaves in a destination: the feeders still         *)
(* completed, in the order of their random ids; refused if they conflict.  *)
Reseated(d, m) ==
    LET left  == Feeders(d) \ {m}
        given == {Delivers(f, d) : f \in left} \ {NoPlayer}
    IN  IF \E f, g \in left : f # g /\ Delivers(f, d) = Delivers(g, d)
                                /\ Delivers(f, d) # NoPlayer
        THEN {}
        ELSE {s \in [1..2 -> given \cup {NoPlayer}] :
                /\ {s[1], s[2]} \ {NoPlayer} = given
                /\ s[1] = NoPlayer => s[2] = NoPlayer
                /\ s[1] = s[2] => s[1] = NoPlayer}

Destinations(m) == {Next[m], LoserNext[m]} \ {NoMatch}

(* resetMatch: one serializable transaction.                               *)
Reset(r, m) ==
    /\ Idle(r)
    /\ resets < MaxResets
    /\ Done(m)
    /\ \A d \in Destinations(m) : status[d] = "PENDING" /\ ~started[d]
    /\ (Double /\ m = GrandFinal) => status[Decider] = "ABSENT"
    /\ status' = [status EXCEPT ![m] = "ONGOING"]
    /\ winner' = [winner EXCEPT ![m] = NoPlayer]
    /\ \E new \in [Destinations(m) -> UNION {Reseated(d, m) : d \in Destinations(m)}] :
          /\ \A d \in Destinations(m) : new[d] \in Reseated(d, m)
          /\ slots' = [d \in Match |-> IF d \in Destinations(m) THEN new[d]
                                                               ELSE slots[d]]
    /\ over' = FALSE
    /\ champion' = IF over THEN NoPlayer ELSE champion
    /\ resets' = resets + 1
    /\ UNCHANGED <<bye, started, out, calls>>

NextStep ==
    \/ \E r \in Request : Step(r)
    \/ \E r \in Request, m \in Match, w \in Player : SubmitResult(r, m, w)
    \/ \E r \in Request, m \in Match : StartMatch(r, m)
    \/ \E r \in Request, p \in Player : ForfeitParticipant(r, p)
    \/ \E r \in Request, m \in Match : Reset(r, m)

(* Awaited calls return, and somebody goes on recording results while a    *)
(* match can still be given one.                                           *)
Progress ==
    \/ \E r \in Request : Step(r)
    \/ \E r \in Request, m \in Match, w \in Player : SubmitResult(r, m, w)

Spec     == Init /\ [][NextStep]_vars
FairSpec == Spec /\ WF_vars(Progress)

---------------------------------------------------------------------------
(* Whatever interleaving of requests, nobody sits in a match that the draw *)
(* does not lead to: winners and losers only move along the links.         *)
SlotsWithinDraw ==
    \A m \in Match : Present(m) \subseteq Draw[m]

(* Between requests, the players of a match are exactly those its feeders  *)
(* have delivered: advanceWinner, advanceLoser and resetMatch's rebuilding *)
(* agree on every slot.                                                    *)
SlotsMatchFeeders ==
    Quiet => \A m \in Match \ (FirstRound \cup {Decider}) :
                Present(m) = DeliveredTo(m)

(* Between requests, a match all of whose feeders have completed is        *)
(* completed or has somebody in it who can be given the win: otherwise the *)
(* bracket below it can never be decided.                                  *)
NoUnplayableMatch ==
    Quiet => \A m \in Match \ FirstRound :
                (\A f \in Feeders(m) : Done(f)) =>
                    Done(m) \/ Present(m) # {} \/ status[m] = "ABSENT"

Beaten(p) ==
    {m \in Match : Done(m) /\ Full(m) /\ p \in Present(m) /\ winner[m] # p}

(* The champion's title is earned: when the tournament closes, every other *)
(* player has lost as often as the format demands, and the champion less.  *)
Lives == IF Double /\ GrandFinalReset THEN 2 ELSE 1
ChampionOutlastsTheField ==
    over /\ Quiet =>
        /\ champion # NoPlayer
        /\ Cardinality(Beaten(champion)) < (IF Double THEN 2 ELSE 1)
        /\ \A p \in Player \ {champion} : Cardinality(Beaten(p)) >= Lives

(* A recorded result stands: only resetMatch changes the winner, the       *)
(* players or the status of a completed match.                             *)
ResultStandsUntilReset ==
    [][resets' = resets =>
          \A m \in Match : Done(m) =>
             status'[m] = "COMPLETED" /\ winner'[m] = winner[m]
                /\ slots'[m] = slots[m]]_vars

(* The bracket is always decided in the end.                               *)
BracketIsDecided == <>over

(* formats.service.ts 165-166, of single elimination: "every non-first     *)
(* round always receives two winners".                                     *)
EveryLaterRoundReceivesTwoWinners ==
    Quiet => \A m \in Match \ FirstRound :
                (\A f \in Feeders(m) : Done(f)) => Full(m)

(* match.service.ts 1016-1019: "This is what lets a forfeit terminate      *)
(* cleanly in every format": between requests no open match pits an active *)
(* player against one who has forfeited.                                   *)
ForfeitsTerminateCleanly ==
    Quiet => \A m \in Match :
                (status[m] \in {"PENDING", "ONGOING"} /\ Full(m)) =>
                    (slots[m][1] \in out <=> slots[m][2] \in out)

(* match.service.ts 1119: startMatch is "PENDING -> ONGOING".              *)
StartOnlyFromPending ==
    [][resets' = resets =>
          \A m \in Match : (status'[m] = "ONGOING" /\ status[m] # "ONGOING")
                               => status[m] = "PENDING"]_vars
===========================================================================
