---------------------------- MODULE MatchScoring ----------------------------
(***************************************************************************)
(* One match between two known players, from start to result: the games of *)
(* its series, the tracker that logs them, player reports and the staff's  *)
(* verdict on them, direct results, walkovers, and the reset.              *)
(*                                                                         *)
(* A request reads the match, decides, and writes in later statements      *)
(* outside any transaction; job[r] is what request r does next, with what  *)
(* it has read.  Rejecting and resetting write in one transaction.         *)
(*                                                                         *)
(* Players are the slots 1 and 2, 0 is nobody.  What a completed match     *)
(* sets off in the bracket is module Elimination; live values,             *)
(* notifications and realtime events are left out.                         *)
(***************************************************************************)
EXTENDS Integers, Sequences, FiniteSets

CONSTANTS
    Request,      \* the requests that may be in flight at once
    Endpoints,    \* the routes that are called
    Actors,       \* who scores: a subset of {"STAFF", "PARTICIPANT"}
    BestOf,       \* config.bestOf
    DrawsAllowed, \* allowDraw, in a system where a draw strands nobody
    PointsForWin, PointsForDraw, PointsForLoss,
    Before,       \* a player's record before this match
    MaxGames, MaxLogs, MaxResets  \* bounds: score, logs ever created, resets

ASSUME ScoringAssumption ==
    /\ Actors \subseteq {"STAFF", "PARTICIPANT"}
    /\ BestOf \in Nat \ {0} /\ DrawsAllowed \in BOOLEAN
    /\ Before \in [games : Nat, wins : Nat, losses : Nat, draws : Nat, points : Int]
    /\ {PointsForWin, PointsForDraw, PointsForLoss} \subseteq Int
    /\ MaxGames \in Nat /\ MaxLogs \in Nat /\ MaxResets \in Nat

VARIABLES
    status,    \* Match.status
    score,     \* <<player1Score, player2Score>>
    winner,    \* Match.winnerId
    reported,  \* Match.reportedWinnerId
    logs,      \* MatchGameLog rows ever created, "gone" once deleted
    record,    \* TournamentParticipantStats of the two players
    job,       \* what each request does next
    resets

match == <<status, score, winner, reported>>
vars  == <<status, score, winner, reported, logs, record, job, resets>>

Side  == {1, 2}
Other(i) == 3 - i
WinsNeeded == (BestOf + 1) \div 2

(* op: the next statement; w: the winner the caller named; won: the winner *)
(* of the match; by: the actor; log: the tracker row to close or reopen;   *)
(* seen: the score that was read.                                          *)
Job(op, w, by, log) ==
    [op |-> op, w |-> w, won |-> w, by |-> by, log |-> log, seen |-> <<0, 0>>]
Idle == Job("Idle", 0, "STAFF", 0)

Ops == {"Idle", "Start", "Open", "Game", "Count", "Defer", "Finish", "Draw",
        "Credit", "Close", "Report", "Submit", "Undo", "Award", "CreditWalkover"}

TypeOK ==
    /\ status \in {"PENDING", "ONGOING", "COMPLETED"}
    /\ score \in [Side -> Nat]
    /\ winner \in {0, 1, 2} /\ reported \in {0, 1, 2}
    /\ logs \in Seq([number : Nat, state : {"active", "closed", "gone"}, winner : {0, 1, 2}])
    /\ record \in [Side -> [games : Nat, wins : Nat, losses : Nat, draws : Nat, points : Int]]
    /\ job \in [Request -> [op : Ops, w : {0, 1, 2}, won : {0, 1, 2},
                            by : {"STAFF", "PARTICIPANT"}, log : Nat,
                            seen : [Side -> Nat]]]
    /\ resets \in 0..MaxResets

Live    == {g \in DOMAIN logs : logs[g].state # "gone"}
Active  == {g \in DOMAIN logs : logs[g].state = "active"}
WonBy(i) == {g \in DOMAIN logs : logs[g].state = "closed" /\ logs[g].winner = i}
AwaitingReview == reported # 0 /\ winner = 0

Init ==
    /\ status = "PENDING" /\ score = <<0, 0>> /\ winner = 0 /\ reported = 0
    /\ logs = <<>>
    /\ record = [i \in Side |-> Before]
    /\ job = [r \in Request |-> Idle]
    /\ resets = 0

---------------------------------------------------------------------------
Begins(r, route, j) == route \in Endpoints /\ job[r] = Idle /\ job' = [job EXCEPT ![r] = j]
Runs(r, op)  == job[r].op = op
Then(r, j)   == job' = [job EXCEPT ![r] = j]
Continue(r, op) == Then(r, [job[r] EXCEPT !.op = op])
Return(r)    == Then(r, Idle)

(* After a result: the tracker's submit closes its log, other routes end.  *)
CloseOrReturn(r) == IF job[r].log = 0 THEN Return(r) ELSE Continue(r, "Close")

(* startMatch: a completed match is refused, a started one returned as is. *)
StartMatch(r) ==
    /\ Begins(r, "start", Job("Start", 0, "STAFF", 0))
    /\ status = "PENDING"
    /\ UNCHANGED <<match, logs, record, resets>>

Start(r) ==
    /\ Runs(r, "Start") /\ Return(r)
    /\ status' = "ONGOING"
    /\ UNCHANGED <<score, winner, reported, logs, record, resets>>

(* openTracker: the number of the new game is counted when the match is    *)
(* read, the row created afterwards.                                       *)
OpenTracker(r) ==
    /\ Begins(r, "tracker", Job("Open", 0, "STAFF", Cardinality(Live) + 1))
    /\ status = "ONGOING" /\ ~AwaitingReview /\ Active = {}
    /\ Len(logs) < MaxLogs
    /\ UNCHANGED <<match, logs, record, resets>>

Open(r) ==
    /\ Runs(r, "Open") /\ Return(r)
    /\ logs' = Append(logs, [number |-> job[r].log, state |-> "active", winner |-> 0])
    /\ UNCHANGED <<match, record, resets>>

(* submitGame: the active log first, then the result, then the log.        *)
SubmitGame(r, by, w, g) ==
    /\ g \in Active /\ score[1] + score[2] < MaxGames
    /\ Begins(r, "tracker", Job(IF w = 0 THEN "Draw" ELSE "Game", w, by, g))
    /\ UNCHANGED <<match, logs, record, resets>>

ReportGameResult(r, by, w) ==
    /\ Begins(r, "game-result", Job("Game", w, by, 0))
    /\ score[1] + score[2] < MaxGames
    /\ UNCHANGED <<match, logs, record, resets>>

(* reportGameResult: its read and its refusals ...                         *)
Game(r) ==
    /\ Runs(r, "Game")
    /\ IF status = "COMPLETED" \/ AwaitingReview THEN Return(r) ELSE Continue(r, "Count")
    /\ UNCHANGED <<match, logs, record, resets>>

(* ... its increment, whose returned row tells whether that decides; a     *)
(* participant's deciding game waits for the staff.                        *)
Count(r) ==
    /\ Runs(r, "Count")
    /\ LET now == [score EXCEPT ![job[r].w] = @ + 1]
       IN  /\ score' = now
           /\ IF \A i \in Side : now[i] < WinsNeeded THEN CloseOrReturn(r)
              ELSE Then(r, [job[r] EXCEPT
                        !.won = IF now[1] >= WinsNeeded THEN 1 ELSE 2,
                        !.op  = IF job[r].by = "STAFF" THEN "Finish" ELSE "Defer"])
    /\ UNCHANGED <<status, winner, reported, logs, record, resets>>

(* Mutant of Defer: the report of a participant's deciding game is lost.   *)
DeferUnreported(r) ==
    /\ Runs(r, "Defer") /\ CloseOrReturn(r)
    /\ UNCHANGED <<match, logs, record, resets>>

Defer(r) ==
    /\ Runs(r, "Defer") /\ CloseOrReturn(r)
    /\ reported' = job[r].won
    /\ UNCHANGED <<status, score, winner, logs, record, resets>>

(* reportDraw, reached from the tracker: only the staff confirms a draw.   *)
Draw(r) ==
    /\ Runs(r, "Draw")
    /\ IF status = "COMPLETED" \/ AwaitingReview \/ ~DrawsAllowed \/ BestOf > 1
            \/ job[r].by = "PARTICIPANT"
       THEN Return(r) ELSE Continue(r, "Finish")
    /\ UNCHANGED <<match, logs, record, resets>>

(* completedMatchData, the write of every completion.                      *)
Completed(w) == status' = "COMPLETED" /\ winner' = w /\ reported' = 0

Finish(r) ==
    /\ Runs(r, "Finish") /\ Continue(r, "Credit")
    /\ Completed(job[r].won)
    /\ UNCHANGED <<score, logs, record, resets>>

(* The counters never go below zero, the points may.                       *)
Plus(old, new) ==
    [f \in DOMAIN old |->
        IF f = "points" \/ old[f] + new[f] > 0 THEN old[f] + new[f] ELSE 0]

(* applyMatchStats: what the match as it now stands gives player i.        *)
Delta(i, w, d) ==
    [games |-> d, wins |-> IF w = i THEN d ELSE 0,
     losses |-> IF w = Other(i) THEN d ELSE 0, draws |-> IF w = 0 THEN d ELSE 0,
     points |-> d * CASE w = i -> PointsForWin [] w = 0 -> PointsForDraw
                      [] OTHER -> PointsForLoss]

ApplyMatchStats(d) == record' = [i \in Side |-> Plus(record[i], Delta(i, winner, d))]

Credit(r) ==
    /\ Runs(r, "Credit") /\ CloseOrReturn(r)
    /\ ApplyMatchStats(1)
    /\ UNCHANGED <<match, logs, resets>>

(* The log is closed last; updating a deleted row throws.                  *)
Close(r) ==
    /\ Runs(r, "Close") /\ Return(r)
    /\ logs' = IF logs[job[r].log].state = "gone" THEN logs
               ELSE [logs EXCEPT ![job[r].log].state = "closed",
                                 ![job[r].log].winner = job[r].w]
    /\ UNCHANGED <<match, record, resets>>

---------------------------------------------------------------------------
(* selfReportResult: a player names a winner, or nobody.                   *)
SelfReport(r, w) ==
    /\ Begins(r, "self-report", Job("Report", w, "PARTICIPANT", 0))
    /\ "PARTICIPANT" \in Actors /\ status # "COMPLETED"
    /\ UNCHANGED <<match, logs, record, resets>>

Report(r) ==
    /\ Runs(r, "Report") /\ Return(r)
    /\ reported' = job[r].w
    /\ UNCHANGED <<status, score, winner, logs, record, resets>>

(* verifyResult reads the report and passes it to submitResult.            *)
Verify(r) ==
    /\ Begins(r, "verify", Job("Submit", reported, "STAFF", 0))
    /\ reported # 0
    /\ UNCHANGED <<match, logs, record, resets>>

SubmitResult(r, w) ==
    /\ Begins(r, "result", Job("Submit", w, "STAFF", 0))
    /\ w = 0 => DrawsAllowed /\ BestOf = 1
    /\ UNCHANGED <<match, logs, record, resets>>

(* Mutant of Submit: a completed match is completed again.                 *)
SubmitAgain(r) ==
    /\ Runs(r, "Submit") /\ Continue(r, "Finish")
    /\ UNCHANGED <<match, logs, record, resets>>

(* submitResult: its own read of the match.                                *)
Submit(r) ==
    /\ Runs(r, "Submit")
    /\ IF status = "COMPLETED" THEN Return(r) ELSE Continue(r, "Finish")
    /\ UNCHANGED <<match, logs, record, resets>>

(* Mutant of DecidingLog: the oldest such game.                            *)
FirstLog(w) ==
    IF WonBy(w) = {} THEN 0
    ELSE CHOOSE g \in WonBy(w) : \A h \in WonBy(w) : logs[g].number <= logs[h].number

(* The newest closed game the reported player won.                         *)
DecidingLog(w) ==
    IF WonBy(w) = {} THEN 0
    ELSE CHOOSE g \in WonBy(w) : \A h \in WonBy(w) : logs[h].number <= logs[g].number

(* rejectReportedResult reads the match ...                                *)
Reject(r) ==
    /\ Begins(r, "reject",
              [Job("Undo", reported, "STAFF", DecidingLog(reported)) EXCEPT !.seen = score])
    /\ reported # 0 /\ status # "COMPLETED"
    /\ UNCHANGED <<match, logs, record, resets>>

(* ... and undoDecidingResult writes it, with the log, in a transaction.   *)
Undo(r) ==
    /\ Runs(r, "Undo") /\ Return(r)
    /\ LET g == job[r].log
           less(n) == IF n = 0 THEN 0 ELSE n - 1
       IN  IF g # 0 /\ logs[g].state = "gone" THEN UNCHANGED <<score, reported, logs>>
           ELSE /\ score' = [job[r].seen EXCEPT ![job[r].w] = less(@)]
                /\ reported' = 0
                /\ logs' = IF g = 0 THEN logs
                           ELSE [logs EXCEPT ![g].state = "active", ![g].winner = 0]
    /\ UNCHANGED <<status, winner, record, resets>>

(* resetMatch: one serializable transaction.                               *)
Reset(r) ==
    /\ "reset" \in Endpoints /\ job[r] = Idle /\ resets < MaxResets
    /\ status = "COMPLETED"
    /\ ApplyMatchStats(-1)
    /\ status' = "ONGOING" /\ score' = <<0, 0>> /\ winner' = 0 /\ reported' = 0
    /\ logs' = [g \in DOMAIN logs |-> [logs[g] EXCEPT !.state = "gone"]]
    /\ resets' = resets + 1
    /\ UNCHANGED job

(* completeAsWalkover: only the winner is given a game and a win.          *)
CompleteAsWalkover(r, w) ==
    /\ Begins(r, "forfeit", Job("Award", w, "STAFF", 0))
    /\ status # "COMPLETED"
    /\ UNCHANGED <<match, logs, record, resets>>

Award(r) ==
    /\ Runs(r, "Award") /\ Continue(r, "CreditWalkover")
    /\ Completed(job[r].won)
    /\ UNCHANGED <<score, logs, record, resets>>

CreditWalkover(r) ==
    /\ Runs(r, "CreditWalkover") /\ Return(r)
    /\ record' = [record EXCEPT ![job[r].won].games = @ + 1, ![job[r].won].wins = @ + 1]
    /\ UNCHANGED <<match, logs, resets>>

Statement(r) ==
    \/ Start(r) \/ Open(r) \/ Game(r) \/ Count(r) \/ Defer(r) \/ Draw(r) \/ Finish(r)
    \/ Credit(r) \/ Close(r) \/ Report(r) \/ Submit(r) \/ Undo(r) \/ Award(r)
    \/ CreditWalkover(r)

Next ==
    \E r \in Request :
        \/ Statement(r)
        \/ StartMatch(r) \/ OpenTracker(r) \/ Verify(r) \/ Reject(r) \/ Reset(r)
        \/ \E by \in Actors, w \in 0..2, g \in Active : SubmitGame(r, by, w, g)
        \/ \E by \in Actors, w \in Side : ReportGameResult(r, by, w)
        \/ \E w \in 0..2 : SelfReport(r, w)
        \/ \E w \in 0..2 : SubmitResult(r, w)
        \/ \E w \in Side : CompleteAsWalkover(r, w)

Spec == Init /\ [][Next]_vars

---------------------------------------------------------------------------
Quiet == \A r \in Request : job[r] = Idle

(* match.service.ts 743-744: once a series is decided it is over, or held  *)
(* for the staff's verdict under the name of the player who decided it.    *)
DecidedSeriesIsHeld ==
    Quiet => \A i \in Side : score[i] >= WinsNeeded =>
                score[i] = WinsNeeded /\ (status = "COMPLETED" \/ reported = i)

(* The score is the log: each player has as many wins as closed games, the *)
(* games are numbered without gaps or doubles, and none but the last runs. *)
ScoreMatchesLogs ==
    Quiet =>
        /\ \A i \in Side : score[i] = Cardinality(WonBy(i))
        /\ {logs[g].number : g \in Live} = 1..Cardinality(Live)
        /\ \A g \in Active : logs[g].number = Cardinality(Live)

(* One game at a time: openTracker refuses while a tracker is active.      *)
OneLiveGame == Cardinality(Active) <= 1

(* The records hold what the match gave, once, while its result stands,    *)
(* and what they held before it otherwise.                                 *)
StatsCountTheMatchOnce ==
    Quiet => record = [i \in Side |->
                IF status = "COMPLETED" THEN Plus(Before, Delta(i, winner, 1)) ELSE Before]

(* match.service.ts 344-345: rejecting "a bare self/quick report" has no   *)
(* deciding log, and leaves the score alone.                               *)
BareReportKeepsTheScore ==
    [][\A r \in Request : (Undo(r) /\ job[r].log = 0) => score' = score]_vars

(* match.service.ts 50-52: a reset reverses what was granted, so a match   *)
(* without a result has given nobody anything.                             *)
ResetTakesBackWhatWasGiven ==
    Quiet /\ status # "COMPLETED" => record = [i \in Side |-> Before]
=============================================================================
