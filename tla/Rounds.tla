------------------------------- MODULE Rounds -------------------------------
(***************************************************************************)
(* A running Swiss, round robin or hybrid tournament, from its first round *)
(* to its winner: results, walkovers and resets, the pairing of the next   *)
(* round, the top cut, and the organizer's answer to a tie.                *)
(*                                                                         *)
(* A request that completes a match goes on to decide whether the round,   *)
(* and the tournament, are over, and draws what comes next with one        *)
(* statement per row: job[r] is what request r does next, with what it has *)
(* read.  A match is known by its round and its first player.  Players are *)
(* numbered in the shuffled order of the first round.                      *)
(***************************************************************************)
EXTENDS Standings, Sequences

CONSTANTS
    Request,
    Fields       \* the tournaments explored, see Field

(* system; n: the players are 1..n; rounds: config.swissRounds, or the     *)
(* ceiling of log2(n); cut: config.topCutSize; crowd: the requests that    *)
(* may be in flight at once; limits: bounds on the matches drawn and reset,*)
(* the players forfeited and the extra rounds.                             *)
Field(system, n, rounds, cut, crowd, limits) ==
    [system |-> system, n |-> n, rounds |-> rounds, cut |-> cut, crowd |-> crowd,
     limits |-> limits]

ASSUME RoundsAssumption ==
    \A f \in Fields :
        /\ f.n \in Nat \ {0, 1} /\ f.rounds \in Nat /\ NoPlayer \notin 1..f.n
        /\ f.crowd \subseteq Request /\ IsFiniteSet(f.crowd)

ASSUME PointsAssumption == {PointsForWin, PointsForDraw, PointsForLoss} \subseteq Int

VARIABLES
    field,     \* the tournament, fixed
    rounds,    \* the numbers of the Round rows
    matches,   \* the Match rows
    forfeited, \* participants whose status is FORFEITED
    status,    \* Tournament.status
    champion,  \* Tournament.winnerId
    job,       \* what each request does next
    extra,     \* the rounds added by resolveTie
    resets

rows == <<rounds, matches>>
title == <<status, champion>>
vars == <<field, rows, forfeited, title, job, extra, resets>>

Player == 1..field.n
Serial == Cardinality(field.crowd) = 1

Match(n, pair, phase) ==
    [n |-> n, one |-> pair[1], two |-> pair[2], bye |-> pair[2] = NoPlayer,
     phase |-> phase, done |-> FALSE, winner |-> NoPlayer, scored |-> FALSE]
Name(m)    == <<m.n, m.one>>
Named(k)   == {m \in matches : Name(m) = k}
RoundOf(n) == {m \in matches : m.n = n}
AllDone(M) == \A m \in M : m.done
Replace(m, g) == matches' = (matches \ {m}) \cup {g}

(* A bye that is not worth a win has no winner.                            *)
Benched(m) == [m EXCEPT !.done = TRUE, !.winner = IF ByeResult = "WIN" THEN m.one ELSE NoPlayer]

---------------------------------------------------------------------------
(* initSwiss pairs neighbours, the last of an odd field sits out.          *)
Neighbours(n) ==
    {Match(1, <<2 * i - 1, IF 2 * i <= n THEN 2 * i ELSE NoPlayer>>, 1) : i \in 1..((n + 1) \div 2)}

(* initRoundRobin, the circle method: the first player keeps the first     *)
(* place, and the others turn by one place every round.                    *)
Circle(n) ==
    LET size == n + (n % 2)
        seat(r, i) == IF i = 0 THEN 1 ELSE IF i > r THEN i - r + 1 ELSE i - r + size
        who(p) == IF p > n THEN NoPlayer ELSE p
        pair(r, i) == LET p == who(seat(r, i)) q == who(seat(r, size - 1 - i))
                      IN  IF p = NoPlayer THEN <<q, p>> ELSE <<p, q>>
    IN  {Match(r + 1, pair(r, i), 1) : r \in 0..(size - 2), i \in 0..(size \div 2 - 1)}

(* Byes of the draw are completed and credited when they are created.      *)
Drawn(M) == {IF m.bye THEN Benched(m) ELSE m : m \in M}

Job(op, n) == [op |-> op, n |-> n, phase |-> 1, p |-> NoPlayer,
               draw |-> <<>>, todo |-> <<>>, open |-> {}]
Idle == Job("Idle", 0)

Init ==
    /\ field \in Fields
    /\ matches = Drawn(IF field.system = "ROUND_ROBIN" THEN Circle(field.n)
                       ELSE Neighbours(field.n))
    /\ rounds = {m.n : m \in matches}
    /\ forfeited = {} /\ status = "ONGOING" /\ champion = NoPlayer
    /\ job = [r \in Request |-> Idle]
    /\ extra = {} /\ resets = 0

---------------------------------------------------------------------------
Begins(r, j) == r \in field.crowd /\ job[r] = Idle /\ job' = [job EXCEPT ![r] = j]
Runs(r, op)  == job[r].op = op
Then(r, op)  == job' = [job EXCEPT ![r].op = op]
Fails(r)     == job' = [job EXCEPT ![r] = Idle]

(* Staff report the game of a match, or a draw, and the completion goes    *)
(* on.  The bye of a first phase can be open only after a reset, and takes *)
(* a direct result, without a game.                                        *)
Draws == {m \in matches : m.done /\ ~m.bye /\ m.winner = NoPlayer}

Report(r, m, w) ==
    /\ ~m.done
    /\ \/ w \in Sides(m)
       \/ w = NoPlayer /\ ~m.bye /\ m.phase = 1 /\ Cardinality(Draws) < field.limits.draws
    /\ Replace(m, [m EXCEPT !.done = TRUE, !.winner = w, !.scored = w # NoPlayer /\ ~m.bye])
    /\ Begins(r, [Job("Check", 0) EXCEPT !.todo = <<Name(m)>>])
    /\ UNCHANGED <<field, rounds, forfeited, title, extra, resets>>

(* Mutant of Reset: a later round does not keep it from happening.         *)
ResetAnyRound(r, m) ==
    /\ m.done /\ resets < field.limits.resets /\ r \in field.crowd /\ job[r] = Idle
    /\ Replace(m, [m EXCEPT !.done = FALSE, !.winner = NoPlayer, !.scored = FALSE])
    /\ status' = "ONGOING"
    /\ champion' = IF status = "COMPLETED" THEN NoPlayer ELSE champion
    /\ resets' = resets + 1
    /\ UNCHANGED <<field, rounds, forfeited, job, extra>>

(* resetMatch, a serializable transaction: refused once a round depends on *)
(* the result; a completed tournament is reopened.                         *)
Reset(r, m) ==
    /\ m.done /\ resets < field.limits.resets /\ r \in field.crowd /\ job[r] = Idle
    /\ field.system # "ROUND_ROBIN" /\ m.phase = 1 => \A n \in rounds : n <= m.n
    /\ Replace(m, [m EXCEPT !.done = FALSE, !.winner = NoPlayer, !.scored = FALSE])
    /\ status' = "ONGOING"
    /\ champion' = IF status = "COMPLETED" THEN NoPlayer ELSE champion
    /\ resets' = resets + 1
    /\ UNCHANGED <<field, rounds, forfeited, job, extra>>

(* forfeitParticipant reads the open matches once, then walks them over.   *)
Forfeit(r, p) ==
    /\ status = "ONGOING" /\ p \notin forfeited /\ Cardinality(forfeited) < field.limits.forfeits
    /\ forfeited' = forfeited \cup {p}
    /\ Begins(r, [Job("Walkover", 0) EXCEPT !.p = p,
                     !.open = {Name(m) : m \in {m \in matches : ~m.done /\ ~m.bye /\ p \in Sides(m)}}])
    /\ UNCHANGED <<field, rows, title, extra, resets>>

(* Mutant of Walkover: the completion is not handed over.                  *)
WalkoverQuietly(r) ==
    /\ Runs(r, "Walkover")
    /\ IF job[r].open = {} THEN Fails(r) /\ UNCHANGED matches
       ELSE \E k \in job[r].open : \E m \in Named(k) :
            /\ job' = [job EXCEPT ![r].open = @ \ {k}]
            /\ IF m.done THEN UNCHANGED matches
               ELSE Replace(m, [m EXCEPT !.done = TRUE, !.winner = Opponent(m, job[r].p)])
    /\ UNCHANGED <<field, rounds, forfeited, title, extra, resets>>

(* completeAsWalkover skips what has been completed since.                 *)
Walkover(r) ==
    /\ Runs(r, "Walkover")
    /\ IF job[r].open = {} THEN Fails(r) /\ UNCHANGED matches
       ELSE \E k \in job[r].open : \E m \in Named(k) :
            IF m.done
            THEN job' = [job EXCEPT ![r].open = @ \ {k}] /\ UNCHANGED matches
            ELSE /\ Replace(m, [m EXCEPT !.done = TRUE, !.winner = Opponent(m, job[r].p)])
                 /\ job' = [job EXCEPT ![r].open = @ \ {k}, ![r].op = "Check", ![r].todo = <<k>>]
    /\ UNCHANGED <<field, rounds, forfeited, title, extra, resets>>

---------------------------------------------------------------------------
(* Mutant of Over: a round is over with its first result.                  *)
OverEarly(m) ==
    LET scope == IF field.system = "ROUND_ROBIN" THEN matches ELSE RoundOf(m.n)
    IN  /\ \E g \in scope : g.done
        /\ field.system = "ROUND_ROBIN" => status # "COMPLETED"

(* What the completion of m may settle has all been played: the tournament *)
(* in round robin, the round otherwise.                                    *)
Over(m) ==
    LET scope == IF field.system = "ROUND_ROBIN" THEN matches ELSE RoundOf(m.n)
    IN  /\ AllDone(scope)
        /\ field.system = "ROUND_ROBIN" => status # "COMPLETED"

(* handleMatchCompletion for the next match on the list.                   *)
Check(r) ==
    /\ Runs(r, "Check")
    /\ IF job[r].todo = <<>>
       THEN Then(r, "Walkover")
       ELSE \E m \in Named(Head(job[r].todo)) :
            LET j   == [job[r] EXCEPT !.todo = Tail(@), !.n = m.n + 1, !.phase = 1]
                won == {g.winner : g \in RoundOf(m.n)} \ {NoPlayer}
                go(op) == job' = [job EXCEPT ![r] = [j EXCEPT !.op = op]]
            IN  IF ~Over(m) THEN go("Check")
                ELSE IF m.phase = 2
                THEN IF won = {} THEN go("Check")
                     ELSE job' = [job EXCEPT ![r] =
                                     [j EXCEPT !.op = "Crown", !.p = Max(won)]]
                ELSE IF field.system # "ROUND_ROBIN" /\ m.n < field.rounds THEN go("Pair")
                ELSE go(IF field.system = "HYBRID" THEN "Cut" ELSE "Final")
    /\ UNCHANGED <<field, rows, forfeited, title, extra, resets>>

(* The leader wins, unless another player has as many points: then the     *)
(* organizer decides.                                                      *)
Final(r) ==
    /\ Runs(r, "Final")
    /\ IF TiedOnTop(matches, Player) THEN Then(r, "Check")
       ELSE \E table \in Leaderboards(matches, Player) :
              job' = [job EXCEPT ![r].op = "Crown", ![r].p = table[1]]
    /\ UNCHANGED <<field, rows, forfeited, title, extra, resets>>

(* buildSwissMatchHistory.                                                 *)
Met(p, q)   == \E m \in matches : ~m.bye /\ Sides(m) = {p, q}
SatOut(p)   == \E m \in matches : m.bye /\ m.one = p

(* The players of order but those of S.                                    *)
Without(order, S) ==
    LET kept[k \in 0..Len(order)] ==
          IF k = 0 THEN <<>>
          ELSE IF order[k] \in S THEN kept[k - 1] ELSE Append(kept[k - 1], order[k])
    IN  kept[Len(order)]

(* Mutant of BenchOf: the last player always sits out.                     *)
BenchLast(order) == order[Len(order)]

(* Who sits out: the last player who has not yet, or the last of all.      *)
BenchOf(order) ==
    LET rested == Without(order, {p \in Player : SatOut(p)})
    IN  IF rested = <<>> THEN order[Len(order)] ELSE rested[Len(rested)]

(* Mutant of Partner: the closest score, met or not.                       *)
PartnerClosest(order) ==
    LET gap(q) == Points(matches, order[1]) - Points(matches, q)
        far(q) == IF gap(q) < 0 THEN -gap(q) ELSE gap(q)
        closer(i, j) == far(order[i]) <= far(order[j])
        rest == 2..Len(order)
    IN  order[CHOOSE i \in rest : \A j \in rest : closer(i, j) /\ (closer(j, i) => i <= j)]

(* The closest score among the players not met, or else among all, the     *)
(* first of them in the order of the table.                                *)
Partner(order) ==
    LET gap(q) == Points(matches, order[1]) - Points(matches, q)
        far(q) == IF gap(q) < 0 THEN -gap(q) ELSE gap(q)
        closer(i, j) == far(order[i]) <= far(order[j])
        fresh == {i \in 2..Len(order) : ~Met(order[1], order[i])}
        rest  == IF fresh = {} THEN 2..Len(order) ELSE fresh
    IN  order[CHOOSE i \in rest : \A j \in rest : closer(i, j) /\ (closer(j, i) => i <= j)]

(* buildSwissPairings, greedily from the top of the table; draws[k] is     *)
(* what is paired and what is left after k pairs.                          *)
Pairings(order) ==
    LET draws[k \in 0..(Len(order) \div 2)] ==
          IF k = 0 THEN [pairs |-> <<>>, left |-> order]
          ELSE LET d == draws[k - 1] q == Partner(d.left)
               IN  [pairs |-> Append(d.pairs, <<d.left[1], q>>),
                    left  |-> Without(Tail(d.left), {q})]
    IN  draws[Len(order) \div 2].pairs

SwissDraw(order) ==
    IF Len(order) % 2 = 0 THEN Pairings(order)
    ELSE LET b == BenchOf(order)
         IN  Append(Pairings(Without(order, {b})), <<b, NoPlayer>>)

(* generateNextSwissRound: what it reads, and the pairs it makes of it.    *)
Pair(r) ==
    /\ Runs(r, "Pair")
    /\ \E table \in Leaderboards(matches, Player) :
         LET draw == SwissDraw(Without(table, forfeited))
         IN  job' = [job EXCEPT ![r].op = "Open", ![r].draw = draw,
                ![r].todo = [i \in DOMAIN draw |-> <<job[r].n, draw[i][1]>>] \o @]
    /\ UNCHANGED <<field, rows, forfeited, title, extra, resets>>

(* The top of the table, forfeited or not, goes into the bracket; fewer    *)
(* than two players end the tournament.                                    *)
Cut(r) ==
    /\ Runs(r, "Cut")
    /\ \E table \in Leaderboards(matches, Player) :
         job' = [job EXCEPT ![r] =
                    IF field.cut < 2 THEN [@ EXCEPT !.op = "Complete"]
                    ELSE [@ EXCEPT !.op = "Open", !.n = Max(rounds) + 1, !.phase = 2,
                                   !.draw = <<<<table[1], table[2]>>>>]]
    /\ UNCHANGED <<field, rows, forfeited, title, extra, resets>>

(* Mutant of Open: the round number need not be unique.                    *)
OpenTwice(r) ==
    /\ Runs(r, "Open")
    /\ rounds' = rounds \cup {job[r].n} /\ Then(r, "Seat")
    /\ UNCHANGED <<field, matches, forfeited, title, extra, resets>>

(* A second round of the same number violates a unique index, and the      *)
(* request fails where it is.                                              *)
Open(r) ==
    /\ Runs(r, "Open")
    /\ IF job[r].n \in rounds THEN Fails(r) /\ UNCHANGED rounds
       ELSE rounds' = rounds \cup {job[r].n} /\ Then(r, "Seat")
    /\ UNCHANGED <<field, matches, forfeited, title, extra, resets>>

(* The matches of the round, one by one; a bye is completed next.          *)
Seat(r) ==
    /\ Runs(r, "Seat")
    /\ IF job[r].draw = <<>> THEN Then(r, "Check") /\ UNCHANGED matches
       ELSE LET m == Match(job[r].n, Head(job[r].draw), job[r].phase)
            IN  /\ matches' = matches \cup {m}
                /\ job' = IF m.bye THEN [job EXCEPT ![r].op = "Bye"]
                          ELSE [job EXCEPT ![r].draw = Tail(@)]
    /\ UNCHANGED <<field, rounds, forfeited, title, extra, resets>>

Bye(r) ==
    /\ Runs(r, "Bye")
    /\ \E m \in Named(<<job[r].n, Head(job[r].draw)[1]>>) :
         Replace(m, Benched(m))
    /\ job' = [job EXCEPT ![r].op = "Seat", ![r].draw = Tail(@)]
    /\ UNCHANGED <<field, rounds, forfeited, title, extra, resets>>

---------------------------------------------------------------------------
(* The winner is written without asking for the tournament's status.       *)
Crown(r) ==
    /\ Runs(r, "Crown") /\ Then(r, "Complete")
    /\ champion' = job[r].p
    /\ UNCHANGED <<field, rows, forfeited, status, extra, resets>>

(* The first of resolveFinalPlacements.                                    *)
Firsts(table) ==
    LET place == IF field.system = "HYBRID" /\ \E m \in matches : m.phase = 2 /\ m.done
                 THEN FinalPlacements(matches, table)
                 ELSE [p \in Player |-> CHOOSE i \in Player : table[i] = p]
    IN  {p \in Player : place[p] = 1}

(* completeTournament: a tournament without a winner is given the one who  *)
(* is placed first.                                                        *)
Complete(r) ==
    /\ Runs(r, "Complete") /\ Then(r, "Check")
    /\ status' = "COMPLETED"
    /\ IF status = "COMPLETED" \/ champion # NoPlayer THEN UNCHANGED champion
       ELSE \E table \in Leaderboards(matches, Player) : champion' \in Firsts(table)
    /\ UNCHANGED <<field, rows, forfeited, extra, resets>>

(* resolveTie asks for a tie on top, not for the tournament's status nor   *)
(* for the end of the round.                                               *)
ApplyTiebreakers(r) ==
    /\ job[r] = Idle /\ TiedOnTop(matches, Player)
    /\ \E table \in Leaderboards(matches, Player) :
         /\ Key(matches, table[1]) # Key(matches, table[2])
         /\ Begins(r, [Job("Crown", 0) EXCEPT !.p = table[1]])
    /\ UNCHANGED <<field, rows, forfeited, title, extra, resets>>

ExtendRound(r) ==
    /\ job[r] = Idle /\ Cardinality(extra) < field.limits.extras /\ TiedOnTop(matches, Player)
    /\ Begins(r, Job("Pair", Max(rounds) + 1))
    /\ extra' = extra \cup {Max(rounds) + 1}
    /\ UNCHANGED <<field, rows, forfeited, title, resets>>

Statement(r) ==
    \/ Walkover(r) \/ Check(r) \/ Final(r) \/ Pair(r) \/ Cut(r) \/ Open(r)
    \/ Seat(r) \/ Bye(r) \/ Crown(r) \/ Complete(r)

Played == \E r \in Request, m \in matches : \E w \in Sides(m) \cup {NoPlayer} : Report(r, m, w)

Next ==
    \/ Played
    \/ \E r \in Request :
        \/ Statement(r) \/ ApplyTiebreakers(r) \/ ExtendRound(r)
        \/ \E m \in matches : Reset(r, m)
        \/ \E p \in Player : Forfeit(r, p)

Spec == Init /\ [][Next]_vars

---------------------------------------------------------------------------
(* However many requests draw rounds at once, and whoever is forfeited     *)
(* meanwhile, nobody has two matches in one round: the row of a round is   *)
(* created once, and only its creator fills it (formats.service.ts 846).   *)
OncePerRound ==
    \A m, g \in matches : m.n = g.n /\ m # g => Sides(m) \cap Sides(g) = {}

(* With one request at a time, a round drawn from the results of the one   *)
(* before it is there only while all of those stand: match.service.ts 472, *)
(* "Swiss pairings/top cuts depend on the entire preceding round".         *)
NextRoundWaits ==
    Serial /\ field.system # "ROUND_ROBIN" =>
        \A n \in rounds \cap (2..(field.rounds + 1)) :
            {n - 1, n} \cap extra = {} => AllDone(RoundOf(n - 1))

(* With one request at a time nobody sits out twice while another player   *)
(* still in the tournament has not (formats.service.ts 832-840), whoever   *)
(* was forfeited in between.                                               *)
ByesAreShared ==
    Serial => \A p \in Player :
        Cardinality({m \in matches : m.bye /\ m.one = p}) > 1 =>
            \A q \in Player \ forfeited : SatOut(q)

(* Among four players the greedy pairing repeats no pair, in as many rounds*)
(* as there are pairs for everybody, and a round robin of any size is every*)
(* pair exactly once.                                                      *)
FreshOpponents ==
    forfeited = {} /\ extra = {} /\ Serial /\ (field.system # "ROUND_ROBIN" => field.n <= 4) =>
        \A p, q \in Player : p < q =>
            LET met == {m \in matches : m.phase = 1 /\ Sides(m) = {p, q}}
            IN  IF field.system = "ROUND_ROBIN" THEN Cardinality(met) = 1
                ELSE Cardinality(met) <= 1

(* One request at a time, a hybrid tournament without extra rounds has one *)
(* top cut, of the players on top of the table that the finished first     *)
(* phase left.                                                             *)
OneTopCut ==
    LET cut == {m \in matches : m.phase = 2}
    IN  Serial /\ extra = {} /\ cut # {} =>
            \E table \in Leaderboards(matches \ cut, Player) :
                \A m \in cut : m.n = field.rounds + 1 /\ Sides(m) = {table[1], table[2]}

(* One request at a time, whichever of the three ways a tournament ends (a *)
(* hybrid one without extra rounds), the winner on its record is a player  *)
(* its final placements put first (tournament.service.ts 826-831), so that *)
(* title and first prize go to the same player.                            *)
ChampionPlacedFirst ==
    [][Serial /\ (extra = {} \/ field.system # "HYBRID")
          /\ status # "COMPLETED" /\ status' = "COMPLETED" =>
          \E table \in Leaderboards(matches, Player) : champion' \in Firsts(table)]_vars

(* A tournament in which somebody is left never waits for nothing: when no *)
(* request is running and every match drawn has been played, however       *)
(* results, walkovers and resets were ordered, it is over or waits for the *)
(* organizer with a tie on top.                                            *)
NeverStranded ==
    (\A r \in Request : job[r] = Idle) /\ AllDone(matches) /\ ~(Player \subseteq forfeited) =>
        status = "COMPLETED" \/ TiedOnTop(matches, Player)
=============================================================================
