---------------------------- MODULE ScoringProofs ----------------------------
(***************************************************************************)
(* One match, scored by one request at a time: any length of series, any   *)
(* points, any record before the match, any number of games and resets.    *)
(*                                                                         *)
(* Between two statements of a request the score, the log and the records  *)
(* do not agree; the invariants say by how much, and who is to make up     *)
(* for it: Crediting for the records, Deciding for the series, Logging for *)
(* the log of the tracker.                                                 *)
(***************************************************************************)
EXTENDS MatchScoring, FiniteSetTheorems, SequenceTheorems, TLAPS

RecordType == [games : Nat, wins : Nat, losses : Nat, draws : Nat, points : Int]
DeltaType  == [games : Int, wins : Int, losses : Int, draws : Int, points : Int]
LogType    == [number : Nat, state : {"active", "closed", "gone"}, winner : {0, 1, 2}]
JobType    == [op : Ops, w : {0, 1, 2}, won : {0, 1, 2}, by : {"STAFF", "PARTICIPANT"},
               log : Nat, seen : [Side -> Nat]]

RowsTyped ==
    /\ status \in {"PENDING", "ONGOING", "COMPLETED"}
    /\ score \in [Side -> Nat]
    /\ winner \in {0, 1, 2} /\ reported \in {0, 1, 2}
    /\ resets \in 0..MaxResets

TypeInv == /\ RowsTyped /\ logs \in Seq(LogType) /\ record \in [Side -> RecordType]
           /\ job \in [Request -> JobType]

(* The type invariant, by its parts.                                       *)
LEMMA Apart == TypeInv <=> TypeOK
  BY DEF TypeInv, TypeOK, RowsTyped, LogType, RecordType, JobType

(* The same of the next state.                                             *)
LEMMA ApartNext == TypeInv' <=> TypeOK'
  BY DEF TypeInv, TypeOK, RowsTyped, LogType, RecordType, JobType

(* No score yet, for either player.                                        *)
LEMMA NoScore == <<0, 0>> \in [Side -> Nat]
  BY DEF Side

(* A new job is typed, and says what it was given.                         *)
LEMMA JobTyped ==
    ASSUME NEW op \in Ops, NEW w \in {0, 1, 2}, NEW by \in {"STAFF", "PARTICIPANT"},
           NEW log \in Nat
    PROVE  /\ Job(op, w, by, log) \in JobType
           /\ Job(op, w, by, log).op = op /\ Job(op, w, by, log).w = w
           /\ Job(op, w, by, log).won = w /\ Job(op, w, by, log).by = by
           /\ Job(op, w, by, log).log = log /\ Job(op, w, by, log).seen = <<0, 0>>
  BY NoScore DEF Job, JobType

(* A result added to a record, field by field.                             *)
LEMMA PlusRecord ==
    ASSUME NEW old \in RecordType, NEW new \in DeltaType
    PROVE  /\ Plus(old, new) \in RecordType
           /\ \A f \in {"games", "wins", "losses", "draws"} :
                Plus(old, new)[f] = IF old[f] + new[f] > 0 THEN old[f] + new[f] ELSE 0
           /\ Plus(old, new).points = old.points + new.points
<1>1. DOMAIN old = {"games", "wins", "losses", "draws", "points"}
  BY DEF RecordType
<1>2. Plus(old, new) = [games  |-> Plus(old, new).games, wins |-> Plus(old, new).wins,
                        losses |-> Plus(old, new).losses, draws |-> Plus(old, new).draws,
                        points |-> Plus(old, new).points]
  BY <1>1 DEF Plus
<1>3. /\ old.games \in Nat /\ old.wins \in Nat /\ old.losses \in Nat /\ old.draws \in Nat
      /\ old.points \in Int
      /\ new.games \in Int /\ new.wins \in Int /\ new.losses \in Int /\ new.draws \in Int
      /\ new.points \in Int
  BY DEF RecordType, DeltaType
<1>4. /\ \A f \in {"games", "wins", "losses", "draws"} :
                Plus(old, new)[f] = IF old[f] + new[f] > 0 THEN old[f] + new[f] ELSE 0
      /\ Plus(old, new).points = old.points + new.points
  BY <1>1 DEF Plus
<1>5. /\ Plus(old, new).games \in Nat /\ Plus(old, new).wins \in Nat
      /\ Plus(old, new).losses \in Nat /\ Plus(old, new).draws \in Nat
      /\ Plus(old, new).points \in Int
  BY <1>3, <1>4
<1>6. Plus(old, new) \in RecordType
  BY <1>2, <1>5 DEF RecordType
<1> QED
  BY <1>4, <1>6

(* What a match gives is what it takes back.                               *)
LEMMA DeltaTyped ==
    ASSUME NEW i \in Side, NEW w \in {0, 1, 2}, NEW d \in {1, -1}
    PROVE  Delta(i, w, d) \in DeltaType
<1>1. PointsForWin \in Int /\ PointsForDraw \in Int /\ PointsForLoss \in Int
  BY ScoringAssumption
<1> QED
  BY <1>1 DEF Delta, DeltaType, Other, Side

(* A record from which the result is taken back is what it was before.     *)
LEMMA TakenBack ==
    ASSUME NEW old \in RecordType, NEW i \in Side, NEW w \in {0, 1, 2}
    PROVE  Plus(Plus(old, Delta(i, w, 1)), Delta(i, w, -1)) = old
<1> DEFINE up == Delta(i, w, 1)
           down == Delta(i, w, -1)
           mid == Plus(old, up)
           end == Plus(mid, down)
<1>1. up \in DeltaType /\ down \in DeltaType
  BY DeltaTyped
<1>2. PointsForWin \in Int /\ PointsForDraw \in Int /\ PointsForLoss \in Int
  BY ScoringAssumption
<1>3. /\ up.games = 1 /\ down.games = -1
      /\ up.wins = (IF w = i THEN 1 ELSE 0) /\ down.wins = (IF w = i THEN -1 ELSE 0)
      /\ up.losses = (IF w = Other(i) THEN 1 ELSE 0)
      /\ down.losses = (IF w = Other(i) THEN -1 ELSE 0)
      /\ up.draws = (IF w = 0 THEN 1 ELSE 0) /\ down.draws = (IF w = 0 THEN -1 ELSE 0)
      /\ down.points = -up.points
  BY <1>2 DEF Delta
<1> HIDE DEF up, down
<1>4. mid \in RecordType
  BY <1>1, PlusRecord
<1>5. /\ mid.games = old.games + up.games /\ mid.wins = old.wins + up.wins
      /\ mid.losses = old.losses + up.losses /\ mid.draws = old.draws + up.draws
      /\ mid.points = old.points + up.points
  BY <1>1, <1>3, PlusRecord DEF RecordType
<1> HIDE DEF mid
<1>6. end \in RecordType
  BY <1>1, <1>4, PlusRecord
<1>7. /\ end.games = old.games /\ end.wins = old.wins /\ end.losses = old.losses
      /\ end.draws = old.draws /\ end.points = old.points
  BY SMTT(30), <1>1, <1>3, <1>4, <1>5, PlusRecord DEF RecordType, DeltaType
<1> HIDE DEF end
<1>8. end = old
  BY <1>6, <1>7 DEF RecordType
<1> QED
  BY <1>8 DEF end, mid, up, down

---------------------------------------------------------------------------
(* How a request goes on: with the same job and another statement ...      *)
LEMMA Continued ==
    ASSUME TypeInv, NEW r \in Request, NEW op \in Ops, Continue(r, op)
    PROVE  /\ job' \in [Request -> JobType]
           /\ job'[r].op = op /\ job'[r].w = job[r].w /\ job'[r].won = job[r].won
           /\ job'[r].by = job[r].by /\ job'[r].log = job[r].log
           /\ job'[r].seen = job[r].seen
<1>1. job[r] \in JobType
  BY DEF TypeInv
<1> DEFINE j == [job[r] EXCEPT !.op = op]
<1>2. /\ j \in JobType /\ j.op = op /\ j.w = job[r].w /\ j.won = job[r].won
      /\ j.by = job[r].by /\ j.log = job[r].log /\ j.seen = job[r].seen
  BY <1>1 DEF JobType
<1>3. job' = [job EXCEPT ![r] = j]
  BY DEF Continue, Then
<1> HIDE DEF j
<1> QED
  BY <1>2, <1>3 DEF TypeInv

(* ... or with none ...                                                    *)
LEMMA Returned ==
    ASSUME TypeInv, NEW r \in Request, Return(r)
    PROVE  job' \in [Request -> JobType] /\ job'[r].op = "Idle"
<1>1. Idle \in JobType /\ Idle.op = "Idle"
  BY JobTyped DEF Idle, Ops
<1> QED
  BY <1>1 DEF Return, Then, TypeInv

(* ... or, after a result, with the log of the tracker if there is one.    *)
LEMMA ClosesOrReturns ==
    ASSUME TypeInv, NEW r \in Request, CloseOrReturn(r)
    PROVE  /\ job' \in [Request -> JobType]
           /\ \/ job[r].log = 0 /\ job'[r].op = "Idle"
              \/ /\ job[r].log # 0 /\ job'[r].op = "Close"
                 /\ job'[r].w = job[r].w /\ job'[r].log = job[r].log
<1>1. "Close" \in Ops
  BY DEF Ops
<1> QED
  BY <1>1, Continued, Returned DEF CloseOrReturn

(* A request that begins was idle.                                         *)
LEMMA Begun ==
    ASSUME TypeInv, NEW r \in Request, NEW route, NEW j \in JobType, Begins(r, route, j)
    PROVE  /\ job' \in [Request -> JobType]
           /\ job[r].op = "Idle" /\ job'[r] = j /\ route \in Endpoints
<1>1. Idle.op = "Idle"
  BY JobTyped DEF Idle, Ops
<1> QED
  BY <1>1 DEF Begins, TypeInv

(* The requests, one action each, and what each begins with.               *)
Requests(r) ==
    \/ StartMatch(r) \/ OpenTracker(r) \/ Verify(r) \/ Reject(r) \/ Reset(r)
    \/ \E by \in Actors, w \in 0..2, g \in Active : SubmitGame(r, by, w, g)
    \/ \E by \in Actors, w \in Side : ReportGameResult(r, by, w)
    \/ \E w \in 0..2 : SelfReport(r, w)
    \/ \E w \in 0..2 : SubmitResult(r, w)
    \/ \E w \in Side : CompleteAsWalkover(r, w)

(* Of finitely many things one has the largest number.                     *)
LEMMA Largest ==
    ASSUME NEW S, IsFiniteSet(S), S # {}, NEW f \in [S -> Nat]
    PROVE  \E m \in S : \A x \in S : f[x] <= f[m]
<1> DEFINE Max(X) == \E m \in X : \A x \in X : f[x] <= f[m]
           Bad == {X \in FiniteSubsetsOf(S) : X # {} /\ ~Max(X)}
<1>1. ASSUME Bad # {}
      PROVE  FALSE
  <2>1. PICK X \in Bad : \A Y \in Bad : ~(<<Y, X>> \in StrictSubsetOrdering(S))
    BY <1>1, WFMin, FS_StrictSubsetOrderingWellFounded
  <2>2. IsFiniteSet(X) /\ X \subseteq S /\ X # {} /\ ~Max(X)
    BY DEF FiniteSubsetsOf
  <2>3. PICK e \in X : TRUE
    BY <2>2
  <2> DEFINE Y == X \ {e}
  <2>4. Y \in FiniteSubsetsOf(S) /\ Y \subseteq X /\ Y # X
    BY <2>2, FS_Subset DEF FiniteSubsetsOf
  <2>5. Y \notin Bad
    BY <2>1, <2>4 DEF StrictSubsetOrdering, FiniteSubsetsOf
  <2>6. CASE Y = {}
    BY <2>2, <2>6
  <2>7. CASE Y # {}
    <3>1. PICK m \in Y : \A x \in Y : f[x] <= f[m]
      BY <2>4, <2>5, <2>7
    <3>2. f[m] \in Nat /\ f[e] \in Nat /\ \A x \in X : f[x] \in Nat
      BY <2>2
    <3>3. f[e] <= f[m] => \A x \in X : f[x] <= f[m]
      BY <3>1
    <3>4. ~(f[e] <= f[m]) => \A x \in X : f[x] <= f[e]
      BY <3>1, <3>2
    <3> QED
      BY <2>2, <3>3, <3>4
  <2> QED
    BY <2>6, <2>7
<1>2. S \in FiniteSubsetsOf(S)
  BY DEF FiniteSubsetsOf
<1> QED
  BY <1>1, <1>2

(* The row of a game a player won, or 0.                                   *)
LEMMA DecidingLogTyped ==
    ASSUME TypeInv, NEW w
    PROVE  /\ DecidingLog(w) \in Nat
           /\ DecidingLog(w) # 0 => DecidingLog(w) \in WonBy(w)
<1>1. WonBy(w) \subseteq 1..Len(logs) /\ Len(logs) \in Nat /\ IsFiniteSet(WonBy(w))
  BY FS_Interval, FS_Subset DEF WonBy, TypeInv
<1> DEFINE number == [g \in WonBy(w) |-> logs[g].number]
<1>2. number \in [WonBy(w) -> Nat]
  <2>1. \A g \in 1..Len(logs) : logs[g] \in LogType
    BY DEF TypeInv
  <2>2. \A g \in WonBy(w) : logs[g].number \in Nat
    BY <1>1, <2>1 DEF LogType
  <2> QED
    BY <2>2
<1>3. ASSUME WonBy(w) # {}
      PROVE  \E g \in WonBy(w) : \A h \in WonBy(w) : logs[h].number <= logs[g].number
  <2> HIDE DEF number
  <2>1. PICK g \in WonBy(w) : \A h \in WonBy(w) : number[h] <= number[g]
    BY <1>1, <1>2, <1>3, Largest
  <2> QED
    BY <2>1 DEF number
<1>4. WonBy(w) # {} => DecidingLog(w) \in WonBy(w)
  BY <1>3 DEF DecidingLog
<1> QED
  BY <1>1, <1>4 DEF DecidingLog

(* The first step of a request writes nothing but its job, unless it is a  *)
(* reset, which is one transaction.                                        *)
LEMMA RequestTyped ==
    ASSUME TypeInv, NEW r \in Request, Requests(r)
    PROVE  TypeInv'
<1> USE ScoringAssumption
<1>1. ASSUME NEW j \in JobType, NEW route, Begins(r, route, j),
             UNCHANGED <<match, logs, record, resets>>
      PROVE  TypeInv'
  BY <1>1, Begun DEF TypeInv, RowsTyped, match
<1>2. {"Start", "Open", "Draw", "Game", "Report", "Submit", "Award", "Undo"} \subseteq Ops
  BY DEF Ops
<1>3. reported \in {0, 1, 2} /\ Side \subseteq {0, 1, 2} /\ 0..2 = {0, 1, 2}
  BY DEF TypeInv, RowsTyped, Side
<1>4. Live \subseteq 1..Len(logs) /\ Active \subseteq 1..Len(logs) /\ Len(logs) \in Nat
  BY DEF Live, Active, TypeInv
<1>5. Cardinality(Live) + 1 \in Nat
  <2>1. IsFiniteSet(1..Len(logs))
    BY <1>4, FS_Interval
  <2>2. IsFiniteSet(Live)
    BY <1>4, <2>1, FS_Subset
  <2> QED
    BY <2>2, FS_CardinalityType
<1>6. CASE StartMatch(r)
  BY ZenonT(30), <1>1, <1>2, <1>6, JobTyped DEF StartMatch
<1>7. CASE OpenTracker(r)
  BY ZenonT(30), <1>1, <1>2, <1>5, <1>7, JobTyped DEF OpenTracker
<1>8. CASE Verify(r)
  BY SMTT(30), <1>1, <1>2, <1>3, <1>8, JobTyped DEF Verify
<1>9. CASE Reject(r)
  <2> DEFINE u == Job("Undo", reported, "STAFF", DecidingLog(reported))
             j == [u EXCEPT !.seen = score]
  <2>1. u \in JobType
    BY <1>2, <1>3, DecidingLogTyped, JobTyped
  <2>2. score \in [Side -> Nat]
    BY DEF TypeInv, RowsTyped
  <2> HIDE DEF u
  <2>3. j \in JobType
    BY <2>1, <2>2 DEF JobType
  <2>4. Begins(r, "reject", j)
    BY <1>9 DEF Reject, u
  <2> HIDE DEF j
  <2> QED
    BY <1>1, <1>9, <2>3, <2>4 DEF Reject
<1>10. CASE Reset(r)
  <2>1. score' \in [Side -> Nat] /\ job' = job
    BY <1>10, NoScore DEF Reset
  <2>2. logs' \in Seq(LogType)
    <3>1. /\ logs' = [g \in 1..Len(logs) |-> [logs[g] EXCEPT !.state = "gone"]]
          /\ \A g \in 1..Len(logs) : logs[g] \in LogType
      BY SMTT(30), <1>10 DEF Reset, TypeInv
    <3>2. \A g \in 1..Len(logs) : [logs[g] EXCEPT !.state = "gone"] \in LogType
      BY ZenonT(30), <3>1 DEF LogType
    <3> QED
      BY SMTT(30), <1>4, <3>1, <3>2
  <2>3. record' \in [Side -> RecordType]
    <3>1. \A i \in Side : Plus(record[i], Delta(i, winner, -1)) \in RecordType
      BY DeltaTyped, PlusRecord DEF TypeInv, RowsTyped
    <3> QED
      BY <1>10, <3>1 DEF Reset, ApplyMatchStats
  <2>4. resets' \in 0..MaxResets
    BY SMTT(30), <1>10 DEF Reset, TypeInv, RowsTyped
  <2> QED
    BY <1>10, <2>1, <2>2, <2>3, <2>4 DEF Reset, TypeInv, RowsTyped
<1>11. CASE \E by \in Actors, w \in 0..2, g \in Active : SubmitGame(r, by, w, g)
  <2>1. PICK by \in Actors, w \in 0..2, g \in Active : SubmitGame(r, by, w, g)
    BY <1>11
  <2>2. g \in Nat /\ (IF w = 0 THEN "Draw" ELSE "Game") \in Ops
    BY <1>2, <1>4
  <2> QED
    BY <1>1, <1>3, <2>1, <2>2, JobTyped DEF SubmitGame
<1>12. CASE \E by \in Actors, w \in Side : ReportGameResult(r, by, w)
  <2>1. PICK by \in Actors, w \in Side : ReportGameResult(r, by, w)
    BY <1>12
  <2>2. Job("Game", w, by, 0) \in JobType
    <3>1. w \in {0, 1, 2} /\ by \in {"STAFF", "PARTICIPANT"}
      BY DEF Side
    <3> QED
      BY SMTT(30), <1>2, <3>1, JobTyped
  <2> QED
    BY <1>1, <2>1, <2>2 DEF ReportGameResult
<1>13. CASE \E w \in 0..2 : SelfReport(r, w)
  BY SMTT(30), <1>1, <1>2, <1>3, <1>13, JobTyped DEF SelfReport
<1>14. CASE \E w \in 0..2 : SubmitResult(r, w)
  BY SMTT(30), <1>1, <1>2, <1>3, <1>14, JobTyped DEF SubmitResult
<1>15. CASE \E w \in Side : CompleteAsWalkover(r, w)
  <2>1. PICK w \in Side : CompleteAsWalkover(r, w)
    BY <1>15
  <2>2. Job("Award", w, "STAFF", 0) \in JobType
    <3>1. w \in {0, 1, 2}
      BY DEF Side
    <3> QED
      BY ZenonT(30), <1>2, <3>1, JobTyped
  <2> QED
    BY <1>1, <2>1, <2>2 DEF CompleteAsWalkover
<1> QED
  BY <1>6, <1>7, <1>8, <1>9, <1>10, <1>11, <1>12, <1>13, <1>14, <1>15 DEF Requests

(* Every statement keeps the types.                                        *)
LEMMA StatementTyped ==
    ASSUME TypeInv, NEW r \in Request, Statement(r)
    PROVE  TypeInv'
<1> DEFINE j == job[r]
<1>1. /\ j.w \in {0, 1, 2} /\ j.won \in {0, 1, 2} /\ j.log \in Nat
      /\ j.seen \in [Side -> Nat] /\ j \in JobType
  BY DEF TypeInv, JobType
<1>2. score \in [Side -> Nat] /\ Side = {1, 2}
  BY DEF TypeInv, RowsTyped, Side
<1>3. job' \in [Request -> JobType]
  <2>1. ASSUME NEW op \in Ops, Continue(r, op) PROVE job' \in [Request -> JobType]
    BY <2>1, Continued
  <2>2. {"Count", "Finish", "Credit", "CreditWalkover", "Defer"} \subseteq Ops
    BY DEF Ops
  <2>3. CASE Count(r)
    <3>1. \/ CloseOrReturn(r)
          \/ \E won \in {1, 2}, op \in {"Finish", "Defer"} :
                Then(r, [j EXCEPT !.won = won, !.op = op])
      BY <2>3 DEF Count
    <3>2. ASSUME NEW won \in {1, 2}, NEW op \in {"Finish", "Defer"},
                 Then(r, [j EXCEPT !.won = won, !.op = op])
          PROVE  job' \in [Request -> JobType]
      <4>1. [j EXCEPT !.won = won, !.op = op] \in JobType
        BY <1>1, <2>2 DEF JobType
      <4> HIDE DEF j
      <4> QED
        BY <3>2, <4>1 DEF Then, TypeInv
    <3> QED
      BY <3>1, <3>2, ClosesOrReturns
  <2>4. CASE \/ Start(r) \/ Open(r) \/ Close(r) \/ Report(r) \/ Undo(r) \/ CreditWalkover(r)
    BY <2>4, Returned DEF Start, Open, Close, Report, Undo, CreditWalkover
  <2>5. CASE Defer(r) \/ Credit(r)
    BY <2>5, ClosesOrReturns DEF Defer, Credit
  <2>6. CASE Game(r) \/ Draw(r) \/ Finish(r) \/ Submit(r) \/ Award(r)
    <3>1. \/ Return(r)
          \/ \E op \in {"Count", "Finish", "Credit", "CreditWalkover"} : Continue(r, op)
      BY <2>6 DEF Game, Draw, Finish, Submit, Award
    <3> QED
      BY <2>1, <2>2, <3>1, Returned
  <2> QED
    BY <2>3, <2>4, <2>5, <2>6 DEF Statement
<1>4. RowsTyped'
  <2>1. CASE Count(r)
    <3>1. score' = [score EXCEPT ![j.w] = @ + 1] /\ UNCHANGED <<status, winner, reported, resets>>
      BY <2>1 DEF Count
    <3> HIDE DEF j
    <3>2. score' \in [Side -> Nat]
      <4>1. CASE j.w \in Side
        BY <1>2, <3>1, <4>1
      <4>2. CASE j.w \notin Side
        BY <1>2, <3>1, <4>2
      <4> QED
        BY <4>1, <4>2
    <3> QED
      BY <3>1, <3>2 DEF TypeInv, RowsTyped
  <2>2. CASE Undo(r)
    <3>1. UNCHANGED <<status, winner, resets>> /\ (reported' = reported \/ reported' = 0)
      BY <2>2 DEF Undo
    <3>2. score' \in [Side -> Nat]
      <4>1. \/ score' = score
            \/ score' = [j.seen EXCEPT ![j.w] =
                            IF j.seen[j.w] = 0 THEN 0 ELSE j.seen[j.w] - 1]
        BY <2>2 DEF Undo
      <4> HIDE DEF j
      <4> QED
        BY <1>1, <1>2, <4>1
    <3> QED
      BY <3>1, <3>2 DEF TypeInv, RowsTyped
  <2>3. CASE ~Count(r) /\ ~Undo(r)
    BY <1>1, <2>3 DEF Statement, Start, Open, Game, Defer, Draw, Finish, Credit, Close, Report,
       Submit, Award, CreditWalkover, Completed, match, TypeInv, RowsTyped
  <2> QED
    BY <2>1, <2>2, <2>3
<1>5. logs' \in Seq(LogType)
  <2>1. logs \in Seq(LogType)
    BY DEF TypeInv
  <2>2. CASE Open(r)
    BY <1>1, <2>1, <2>2, AppendProperties DEF Open, LogType
  <2>3. ASSUME NEW l \in Nat, NEW s \in {"active", "closed"}, NEW w \in {0, 1, 2},
               logs' = [logs EXCEPT ![l].state = s, ![l].winner = w]
        PROVE  logs' \in Seq(LogType)
    <3>1. CASE l \in 1..Len(logs)
      <4>1. logs[l] \in LogType
        BY <2>1, <3>1
      <4>2. [logs[l] EXCEPT !.state = s, !.winner = w] \in LogType
        BY <4>1 DEF LogType
      <4>3. logs' = [logs EXCEPT ![l] = [logs[l] EXCEPT !.state = s, !.winner = w]]
        BY <2>1, <2>3, <3>1
      <4> QED
        BY <2>1, <3>1, <4>2, <4>3, ExceptSeq
    <3>2. CASE l \notin 1..Len(logs)
      <4>1. DOMAIN logs = 1..Len(logs) /\ logs = [x \in 1..Len(logs) |-> logs[x]]
        BY <2>1
      <4> DEFINE mid == [logs EXCEPT ![l].state = s]
      <4>2. mid = [x \in 1..Len(logs) |-> logs[x]]
        BY <3>2, <4>1, Zenon
      <4>3. logs' = [mid EXCEPT ![l].winner = w]
        BY <2>3
      <4> HIDE DEF mid
      <4>4. mid = logs
        BY <4>1, <4>2
      <4>5. logs' = [x \in 1..Len(logs) |-> logs[x]]
        BY <3>2, <4>1, <4>3, <4>4, Zenon
      <4> QED
        BY <2>1, <4>1, <4>5
    <3> QED
      BY <3>1, <3>2
  <2>4. CASE Close(r)
    BY <1>1, <2>1, <2>3, <2>4 DEF Close
  <2>5. CASE Undo(r)
    BY <1>1, <2>1, <2>3, <2>5 DEF Undo
  <2>6. CASE ~Open(r) /\ ~Close(r) /\ ~Undo(r)
    BY <2>1, <2>6 DEF Statement, Start, Game, Count, Defer, Draw, Finish, Credit, Report,
       Submit, Award, CreditWalkover
  <2> QED
    BY <2>2, <2>4, <2>5, <2>6
<1>6. record' \in [Side -> RecordType]
  <2>1. record \in [Side -> RecordType]
    BY DEF TypeInv
  <2>2. CASE Credit(r)
    <3>1. \A i \in Side : Plus(record[i], Delta(i, winner, 1)) \in RecordType
      BY <2>1, DeltaTyped, PlusRecord DEF TypeInv, RowsTyped
    <3> QED
      BY <2>2, <3>1 DEF Credit, ApplyMatchStats
  <2>3. CASE CreditWalkover(r)
    <3>1. CASE j.won \in Side
      <4> DEFINE new == [record[j.won] EXCEPT !.games = @ + 1, !.wins = @ + 1]
      <4>1. record[j.won] \in RecordType
        BY <2>1, <3>1
      <4>2. new \in RecordType
        <5>1. record[j.won].games + 1 \in Nat /\ record[j.won].wins + 1 \in Nat
          BY <4>1 DEF RecordType
        <5> QED
          BY <4>1, <5>1 DEF RecordType
      <4>3. record' = [record EXCEPT ![j.won] = new]
        BY <2>1, <2>3, <3>1, <4>1 DEF CreditWalkover, RecordType
      <4> QED
        BY <2>1, <3>1, <4>2, <4>3
    <3>2. CASE j.won \notin Side
      BY <2>1, <2>3, <3>2 DEF CreditWalkover
    <3> QED
      BY <3>1, <3>2
  <2>4. CASE ~Credit(r) /\ ~CreditWalkover(r)
    BY <2>1, <2>4 DEF Statement, Start, Open, Game, Count, Defer, Draw, Finish, Close, Report,
       Submit, Undo, Award
  <2> QED
    BY <2>2, <2>3, <2>4
<1> QED
  BY <1>3, <1>4, <1>5, <1>6 DEF TypeInv

(* Every step keeps the types.                                             *)
LEMMA NextTyped == TypeInv /\ [Next]_vars => TypeInv'
<1>1. CASE UNCHANGED vars
  BY <1>1 DEF vars, match, TypeInv, RowsTyped
<1> QED
  BY <1>1, StatementTyped, RequestTyped DEF Next, Requests

(* The type invariant holds initially.                                     *)
LEMMA InitTyped == Init => TypeInv
<1> SUFFICES ASSUME Init PROVE TypeInv
  OBVIOUS
<1>1. Before \in RecordType /\ MaxResets \in Nat
  BY ScoringAssumption DEF RecordType
<1>2. Idle \in JobType
  BY JobTyped DEF Idle, Ops
<1>3. logs \in Seq(LogType)
  BY DEF Init
<1> QED
  BY <1>1, <1>2, <1>3, NoScore DEF Init, TypeInv, RowsTyped

(* The match, its log, the records and the requests keep their types; no   *)
(* counter of a record and no score goes below zero.                       *)
THEOREM TypeCorrect == Spec => []TypeOK
<1> QED
  BY InitTyped, NextTyped, Apart, PTL DEF Spec

---------------------------------------------------------------------------
(* Statistics, with one request at a time and no walkovers (a walkover is  *)
(* credited to its winner alone).  The records agree with the result that  *)
(* stands, except between the write of a result and its credit; whoever is *)
(* about to write a result or to start the match has seen none.            *)
Standing == [i \in Side |->
    IF status = "COMPLETED" THEN Plus(Before, Delta(i, winner, 1)) ELSE Before]

Crediting(r) ==
    /\ job[r].op = "Start" => status = "PENDING"
    /\ job[r].op \in {"Count", "Finish"} => status # "COMPLETED"
    /\ job[r].op \notin {"Award", "CreditWalkover"}
    /\ IF job[r].op = "Credit"
       THEN status = "COMPLETED" /\ record = [i \in Side |-> Before]
       ELSE record = Standing

(* The statements of a result keep the books.                              *)
LEMMA StatementCredits ==
    ASSUME TypeInv, NEW r \in Request, Crediting(r), Statement(r)
    PROVE  Crediting(r)'
<1>1. {"Count", "Finish", "Credit"} \subseteq Ops
  BY DEF Ops
<1>2. CASE Start(r)
  BY <1>2, Returned DEF Start, Runs, Crediting, Standing
<1>3. CASE Open(r) \/ Report(r) \/ Close(r) \/ Undo(r)
  BY <1>3, Returned DEF Open, Report, Close, Undo, Runs, Crediting, Standing, match
<1>4. CASE Game(r) \/ Draw(r) \/ Submit(r)
  <2>1. job'[r].op = "Idle" \/ (status # "COMPLETED" /\ job'[r].op \in {"Count", "Finish"})
    BY <1>1, <1>4, Returned, Continued DEF Game, Draw, Submit
  <2> QED
    BY <1>4, <2>1 DEF Game, Draw, Submit, Runs, Crediting, Standing, match
<1>5. CASE Count(r)
  <2>1. status # "COMPLETED" /\ record = Standing
    BY <1>5 DEF Count, Runs, Crediting
  <2>2. job'[r].op \in {"Idle", "Close", "Finish", "Defer"}
    <3>1. CASE CloseOrReturn(r)
      BY <3>1, ClosesOrReturns
    <3>2. ASSUME NEW won, NEW op \in {"Finish", "Defer"},
                 Then(r, [job[r] EXCEPT !.won = won, !.op = op])
          PROVE  job'[r].op \in {"Finish", "Defer"}
      <4>1. job[r] \in JobType
        BY DEF TypeInv
      <4>2. [job[r] EXCEPT !.won = won, !.op = op].op = op
        BY <4>1 DEF JobType
      <4>3. job'[r] = [job[r] EXCEPT !.won = won, !.op = op]
        BY <3>2 DEF Then, TypeInv
      <4> QED
        BY <4>2, <4>3
    <3> QED
      BY <1>5, <3>1, <3>2 DEF Count
  <2> QED
    BY <1>5, <2>1, <2>2 DEF Count, Crediting, Standing
<1>6. CASE Defer(r)
  BY <1>6, ClosesOrReturns DEF Defer, Runs, Crediting, Standing
<1>7. CASE Finish(r)
  BY <1>1, <1>7, Continued DEF Finish, Completed, Runs, Crediting, Standing
<1>8. CASE Credit(r)
  <2>1. record' = [i \in Side |-> Plus(Before, Delta(i, winner, 1))]
    BY <1>8 DEF Credit, ApplyMatchStats, Runs, Crediting
  <2> QED
    BY <1>8, <2>1, ClosesOrReturns DEF Credit, Runs, Crediting, Standing, match
<1>9. ~Award(r) /\ ~CreditWalkover(r)
  BY DEF Award, CreditWalkover, Runs, Crediting
<1> QED
  BY <1>2, <1>3, <1>4, <1>5, <1>6, <1>7, <1>8, <1>9 DEF Statement

(* A reset takes back what the result gave, and a request begins with what *)
(* it has read.                                                            *)
LEMMA RequestCredits ==
    ASSUME TypeInv, NEW r \in Request, Crediting(r), Requests(r), "forfeit" \notin Endpoints
    PROVE  Crediting(r)'
<1>1. CASE Reset(r)
  <2>1. Before \in RecordType
    BY ScoringAssumption DEF RecordType
  <2>2. job[r].op = "Idle" /\ job' = job
    BY <1>1, JobTyped DEF Reset, Idle, Ops
  <2>3. record = [i \in Side |-> Plus(Before, Delta(i, winner, 1))]
    BY <1>1, <2>2 DEF Reset, Crediting, Standing
  <2>4. winner \in {0, 1, 2}
    BY DEF TypeInv, RowsTyped
  <2>5. \A i \in Side : Plus(record[i], Delta(i, winner, -1)) = Before
    BY <2>1, <2>3, <2>4, TakenBack
  <2>6. record' = [i \in Side |-> Before] /\ status' = "ONGOING"
    BY <1>1, <2>5 DEF Reset, ApplyMatchStats
  <2> QED
    BY <2>2, <2>6 DEF Crediting, Standing
<1>2. ASSUME NEW route, NEW j, Begins(r, route, j), UNCHANGED <<match, record>>,
             \/ j.op \in {"Open", "Draw", "Game", "Report", "Submit", "Undo"}
             \/ j.op = "Start" /\ status = "PENDING"
      PROVE  Crediting(r)'
  <2>1. Idle.op = "Idle"
    BY JobTyped DEF Idle, Ops
  <2>2. job[r].op = "Idle" /\ job'[r] = j
    BY <1>2, <2>1 DEF Begins, TypeInv
  <2> QED
    BY <1>2, <2>2 DEF Crediting, Standing, match
<1>3. \A op, w, by, log : Job(op, w, by, log).op = op
  BY DEF Job
<1>4. CASE StartMatch(r) \/ OpenTracker(r) \/ Verify(r)
  BY <1>2, <1>3, <1>4 DEF StartMatch, OpenTracker, Verify
<1>5. CASE Reject(r)
  <2> DEFINE j == [Job("Undo", reported, "STAFF", DecidingLog(reported)) EXCEPT !.seen = score]
  <2>1. j.op = "Undo"
    BY DEF Job
  <2>2. Begins(r, "reject", j) /\ UNCHANGED <<match, record>>
    BY <1>5 DEF Reject
  <2> HIDE DEF j
  <2> QED
    BY <1>2, <2>1, <2>2
<1>6. CASE \E by \in Actors, w \in 0..2, g \in Active : SubmitGame(r, by, w, g)
  <2>1. PICK by \in Actors, w \in 0..2, g \in Active : SubmitGame(r, by, w, g)
    BY <1>6
  <2>2. Job(IF w = 0 THEN "Draw" ELSE "Game", w, by, g).op \in {"Draw", "Game"}
    BY <1>3
  <2> QED
    BY <1>2, <2>1, <2>2 DEF SubmitGame
<1>7. CASE \E by \in Actors, w \in Side : ReportGameResult(r, by, w)
  BY <1>2, <1>3, <1>7 DEF ReportGameResult
<1>8. CASE (\E w \in 0..2 : SelfReport(r, w)) \/ (\E w \in 0..2 : SubmitResult(r, w))
  BY <1>2, <1>3, <1>8 DEF SelfReport, SubmitResult
<1>9. \A w : ~CompleteAsWalkover(r, w)
  BY DEF CompleteAsWalkover, Begins
<1> QED
  BY <1>1, <1>4, <1>5, <1>6, <1>7, <1>8, <1>9 DEF Requests

(* A match that is completed, reset and completed again, by any route and  *)
(* in any order, is counted once in the records of its two players while   *)
(* its result stands and not at all otherwise, whatever the records were   *)
(* before and whatever a win, a draw or a loss is worth.                   *)
THEOREM MatchIsCountedOnce ==
    ASSUME NEW r, Request = {r}, "forfeit" \notin Endpoints
    PROVE  Spec => []StatsCountTheMatchOnce
<1> DEFINE Inv == TypeInv /\ Crediting(r)
<1>1. Init => Inv
  <2>1. Init => Crediting(r)
    <3> SUFFICES ASSUME Init PROVE Crediting(r)
      OBVIOUS
    <3>1. job[r].op = "Idle"
      BY DEF Init, Idle, Job
    <3> QED
      BY <3>1 DEF Init, Crediting, Standing
  <2> QED
    BY <2>1, InitTyped
<1>2. Inv /\ [Next]_vars => Inv'
  <2> SUFFICES ASSUME Inv, [Next]_vars PROVE Inv'
    OBVIOUS
  <2>1. CASE UNCHANGED vars
    BY <2>1, NextTyped DEF vars, match, Crediting, Standing
  <2>2. CASE Next
    <3>1. Statement(r) \/ Requests(r)
      BY <2>2 DEF Next, Requests
    <3> QED
      BY <3>1, <2>2, NextTyped, StatementCredits, RequestCredits
  <2> QED
    BY <2>1, <2>2
<1>3. Inv => StatsCountTheMatchOnce
  BY DEF Crediting, Standing, StatsCountTheMatchOnce, Quiet, Idle, Job
<1> QED
  BY <1>1, <1>2, <1>3, PTL DEF Spec

---------------------------------------------------------------------------
(* The series, with one request at a time and no reports by the players    *)
(* (a report may name another player than the one who has won).  A player  *)
(* who has the wins it takes is held as the winner: by the match, by the   *)
(* report that awaits the staff, or by the request that is about to write  *)
(* either.                                                                 *)
HeldFor(r, i) == \/ status = "COMPLETED" \/ reported = i
                 \/ job[r].op \in {"Defer", "Finish"} /\ job[r].won = i

Deciding(r) ==
    /\ \A i \in Side : score[i] >= WinsNeeded => score[i] = WinsNeeded /\ HeldFor(r, i)
    /\ status # "COMPLETED" => winner = 0
    /\ job[r].op = "Start" => status = "PENDING"
    /\ job[r].op = "Game" => job[r].w \in Side
    /\ job[r].op = "Count" => status # "COMPLETED" /\ job[r].w \in Side
    /\ job[r].op \in {"Count", "Defer"} => reported = 0
    /\ job[r].op = "Undo" => /\ status # "COMPLETED" /\ job[r].seen = score
                             /\ reported = job[r].w /\ job[r].w \in Side
    /\ job[r].op # "Report"

(* What a counted game leads to.                                           *)
LEMMA Counted ==
    ASSUME TypeInv, NEW r \in Request, Count(r)
    PROVE  /\ score' = [score EXCEPT ![job[r].w] = @ + 1]
           /\ \/ /\ \A i \in Side : score'[i] < WinsNeeded
                 /\ \/ job[r].log = 0 /\ job'[r].op = "Idle"
                    \/ /\ job[r].log # 0 /\ job'[r].op = "Close"
                       /\ job'[r].w = job[r].w /\ job'[r].log = job[r].log
              \/ /\ \E i \in Side : ~(score'[i] < WinsNeeded)
                 /\ job'[r].op \in {"Finish", "Defer"}
                 /\ job'[r].won = (IF score'[1] >= WinsNeeded THEN 1 ELSE 2)
                 /\ job'[r].w = job[r].w /\ job'[r].log = job[r].log
<1>1. score' = [score EXCEPT ![job[r].w] = @ + 1]
  BY DEF Count
<1>2. CASE \A i \in Side : score'[i] < WinsNeeded
  <2>1. CloseOrReturn(r)
    BY <1>1, <1>2 DEF Count
  <2> QED
    BY <1>1, <1>2, <2>1, ClosesOrReturns
<1>3. CASE ~\A i \in Side : score'[i] < WinsNeeded
  <2> DEFINE won == IF score'[1] >= WinsNeeded THEN 1 ELSE 2
             op == IF job[r].by = "STAFF" THEN "Finish" ELSE "Defer"
             j == [job[r] EXCEPT !.won = won, !.op = op]
  <2>1. job' = [job EXCEPT ![r] = j]
    BY <1>1, <1>3 DEF Count, Then
  <2>2. job[r] \in JobType
    BY DEF TypeInv
  <2> HIDE DEF won, op
  <2>3. j.op = op /\ j.won = won /\ j.w = job[r].w /\ j.log = job[r].log
    BY <2>2 DEF JobType
  <2>4. op \in {"Finish", "Defer"}
    BY DEF op
  <2> HIDE DEF j
  <2>5. job'[r] = j
    BY <2>1 DEF TypeInv
  <2> QED
    BY <1>1, <1>3, <2>3, <2>4, <2>5 DEF won
<1> QED
  BY <1>2, <1>3

(* It takes a win at least.                                                *)
LEMMA WinsNeededTyped == WinsNeeded \in Nat /\ WinsNeeded >= 1
  BY ScoringAssumption DEF WinsNeeded

(* The statements keep the winner of a decided series held.                *)
LEMMA StatementDecides ==
    ASSUME TypeInv, NEW r \in Request, Deciding(r), Statement(r)
    PROVE  Deciding(r)'
<1>1. {"Count", "Finish", "Credit", "CreditWalkover"} \subseteq Ops
  BY DEF Ops
<1>2. score \in [Side -> Nat] /\ Side = {1, 2} /\ reported \in {0, 1, 2}
  BY DEF TypeInv, RowsTyped, Side
<1>3. CASE Start(r)
  BY <1>3, Returned DEF Start, Runs, Deciding, HeldFor
<1>4. CASE Open(r) \/ Close(r) \/ CreditWalkover(r)
  BY <1>4, Returned DEF Open, Close, CreditWalkover, Runs, Deciding, HeldFor, match
<1>5. CASE Game(r)
  <2>1. job'[r].op = "Idle" \/ /\ status # "COMPLETED" /\ ~AwaitingReview
                               /\ job'[r].op = "Count" /\ job'[r].w = job[r].w
    BY <1>1, <1>5, Returned, Continued DEF Game
  <2>2. status # "COMPLETED" /\ ~AwaitingReview => reported = 0
    BY DEF Deciding, AwaitingReview
  <2> QED
    BY <1>5, <2>1, <2>2 DEF Game, Runs, Deciding, HeldFor, match
<1>6. CASE Count(r)
  <2>1. /\ status # "COMPLETED" /\ reported = 0 /\ job[r].w \in {1, 2}
        /\ \A i \in Side : score[i] < WinsNeeded
    BY <1>2, <1>6, WinsNeededTyped DEF Count, Runs, Deciding, HeldFor
  <2>2. \A i \in Side : score'[i] = IF i = job[r].w THEN score[i] + 1 ELSE score[i]
    BY <1>2, <1>6, Counted
  <2>3. \A i \in Side : score'[i] >= WinsNeeded => score'[i] = WinsNeeded /\ i = job[r].w
    BY <1>2, <2>1, <2>2, WinsNeededTyped
  <2>4. UNCHANGED <<status, winner, reported>>
    BY <1>6 DEF Count
  <2>5. CASE \A i \in Side : score'[i] < WinsNeeded
    <3>1. job'[r].op \in {"Idle", "Close"}
      BY <1>6, <2>5, Counted
    <3>2. \A i \in Side : ~(score'[i] >= WinsNeeded)
      BY <1>2, <2>2, <2>5, WinsNeededTyped
    <3> QED
      BY <1>2, <2>1, <2>4, <3>1, <3>2 DEF Deciding, HeldFor
  <2>6. CASE \E i \in Side : ~(score'[i] < WinsNeeded)
    <3>1. /\ job'[r].op \in {"Finish", "Defer"}
          /\ job'[r].won = (IF score'[1] >= WinsNeeded THEN 1 ELSE 2)
      BY <1>6, <2>6, Counted
    <3>2. \A i \in Side : score'[i] >= WinsNeeded => job'[r].won = i
      BY <1>2, <2>3, <3>1
    <3> QED
      BY <1>2, <2>1, <2>3, <2>4, <3>1, <3>2 DEF Deciding, HeldFor
  <2> QED
    BY <2>5, <2>6
<1>7. CASE Defer(r)
  <2>1. job'[r].op \in {"Idle", "Close"}
    BY <1>7, ClosesOrReturns DEF Defer
  <2>2. \A i \in Side : score[i] >= WinsNeeded =>
            status = "COMPLETED" \/ reported = i \/ job[r].won = i
    BY DEF Deciding, HeldFor
  <2> QED
    BY <1>2, <1>7, <2>1, <2>2 DEF Defer, Runs, Deciding, HeldFor
<1>8. CASE Draw(r) \/ Submit(r)
  <2>1. job'[r].op = "Idle" \/ job'[r].op = "Finish"
    BY <1>1, <1>8, Returned, Continued DEF Draw, Submit
  <2> QED
    BY <1>8, <2>1 DEF Draw, Submit, Runs, Deciding, HeldFor, match
<1>9. CASE Finish(r) \/ Award(r)
  <2>1. job'[r].op \in {"Credit", "CreditWalkover"}
    BY <1>1, <1>9, Continued DEF Finish, Award
  <2> QED
    BY <1>9, <2>1 DEF Finish, Award, Completed, Deciding, HeldFor
<1>10. CASE Credit(r)
  <2>1. job'[r].op \in {"Idle", "Close"}
    BY <1>10, ClosesOrReturns DEF Credit
  <2> QED
    BY <1>10, <2>1 DEF Credit, Runs, Deciding, HeldFor, match
<1>11. ~Report(r)
  BY DEF Report, Runs, Deciding
<1>12. CASE Undo(r)
  <2>1. job'[r].op = "Idle" /\ status' = status /\ winner' = winner
    BY <1>12, Returned DEF Undo
  <2>2. /\ job[r].op = "Undo" /\ status # "COMPLETED" /\ job[r].seen = score
        /\ reported = job[r].w /\ job[r].w \in Side
    BY <1>12 DEF Undo, Runs, Deciding
  <2>3. CASE UNCHANGED <<score, reported, logs>>
    BY <2>1, <2>2, <2>3 DEF Deciding, HeldFor
  <2>4. CASE reported' = 0 /\ score' = [job[r].seen EXCEPT ![job[r].w] =
                                          IF @ = 0 THEN 0 ELSE @ - 1]
    <3>1. \A i \in Side : score'[i] = IF i # job[r].w THEN score[i]
                                     ELSE IF score[i] = 0 THEN 0 ELSE score[i] - 1
      BY <1>2, <2>2, <2>4
    <3>2. \A i \in Side : i # job[r].w => score[i] < WinsNeeded
      BY <1>2, <2>2, WinsNeededTyped DEF Deciding, HeldFor
    <3>3. score[job[r].w] <= WinsNeeded
      BY <1>2, <2>2, WinsNeededTyped DEF Deciding
    <3>4. \A i \in Side : ~(score'[i] >= WinsNeeded)
      BY <1>2, <3>1, <3>2, <3>3, WinsNeededTyped
    <3> QED
      BY <2>1, <2>2, <3>4 DEF Deciding
  <2> QED
    BY <1>12, <2>3, <2>4 DEF Undo
<1> QED
  BY <1>3, <1>4, <1>5, <1>6, <1>7, <1>8, <1>9, <1>10, <1>11, <1>12 DEF Statement

(* A request begins with the result that is held.                          *)
LEMMA RequestDecides ==
    ASSUME TypeInv, NEW r \in Request, Deciding(r), Requests(r), "self-report" \notin Endpoints
    PROVE  Deciding(r)'
<1>1. score \in [Side -> Nat] /\ Side = {1, 2} /\ reported \in {0, 1, 2}
  BY DEF TypeInv, RowsTyped, Side
<1>2. CASE Reset(r)
  <2>1. job[r].op = "Idle" /\ job' = job
    BY <1>2, JobTyped DEF Reset, Idle, Ops
  <2>2. \A i \in Side : score'[i] = 0
    BY <1>1, <1>2 DEF Reset
  <2>3. \A i \in Side : ~(score'[i] >= WinsNeeded)
    BY <2>2, WinsNeededTyped
  <2> QED
    BY <1>2, <2>1, <2>3 DEF Reset, Deciding
<1>3. ASSUME NEW route, NEW j, Begins(r, route, j), UNCHANGED match,
             \/ j.op \in {"Open", "Draw", "Submit", "Award"}
             \/ j.op = "Game" /\ j.w \in Side
             \/ j.op = "Start" /\ status = "PENDING"
             \/ /\ j.op = "Undo" /\ status # "COMPLETED" /\ j.seen = score
                /\ reported = j.w /\ j.w \in Side
      PROVE  Deciding(r)'
  <2>1. Idle.op = "Idle"
    BY JobTyped DEF Idle, Ops
  <2>2. job[r].op = "Idle" /\ job'[r] = j
    BY <1>3, <2>1 DEF Begins, TypeInv
  <2> QED
    BY <1>3, <2>2 DEF Deciding, HeldFor, match
<1>4. \A op, w, by, log : Job(op, w, by, log).op = op /\ Job(op, w, by, log).w = w
  BY DEF Job
<1>5. CASE StartMatch(r) \/ OpenTracker(r) \/ Verify(r)
  BY <1>3, <1>4, <1>5 DEF StartMatch, OpenTracker, Verify
<1>6. CASE Reject(r)
  <2> DEFINE j == [Job("Undo", reported, "STAFF", DecidingLog(reported)) EXCEPT !.seen = score]
  <2>1. j.op = "Undo" /\ j.w = reported /\ j.seen = score
    BY DEF Job
  <2>2. /\ Begins(r, "reject", j) /\ UNCHANGED match
        /\ reported # 0 /\ status # "COMPLETED"
    BY <1>6 DEF Reject
  <2> HIDE DEF j
  <2> QED
    BY <1>1, <1>3, <2>1, <2>2
<1>7. CASE \E by \in Actors, w \in 0..2, g \in Active : SubmitGame(r, by, w, g)
  <2>1. PICK by \in Actors, w \in 0..2, g \in Active : SubmitGame(r, by, w, g)
    BY <1>7
  <2> DEFINE j == Job(IF w = 0 THEN "Draw" ELSE "Game", w, by, g)
  <2>2. j.op = "Draw" \/ (j.op = "Game" /\ j.w \in Side)
    BY <1>1, <1>4
  <2>3. Begins(r, "tracker", j) /\ UNCHANGED match
    BY <2>1 DEF SubmitGame
  <2> HIDE DEF j
  <2> QED
    BY <1>3, <2>2, <2>3
<1>8. CASE \E by \in Actors, w \in Side : ReportGameResult(r, by, w)
  BY <1>3, <1>4, <1>8 DEF ReportGameResult
<1>9. CASE (\E w \in 0..2 : SubmitResult(r, w)) \/ (\E w \in Side : CompleteAsWalkover(r, w))
  BY <1>3, <1>4, <1>9 DEF SubmitResult, CompleteAsWalkover
<1>10. \A w : ~SelfReport(r, w)
  BY DEF SelfReport, Begins
<1> QED
  BY <1>2, <1>5, <1>6, <1>7, <1>8, <1>9, <1>10 DEF Requests

(* Types and the series, of the only request.                              *)
LEMMA SeriesForever ==
    ASSUME NEW r, Request = {r}, "self-report" \notin Endpoints
    PROVE  Spec => [](TypeInv /\ Deciding(r))
<1>1. Init => TypeInv /\ Deciding(r)
  <2> SUFFICES ASSUME Init PROVE Deciding(r)
    BY InitTyped
  <2>1. job[r].op = "Idle" /\ \A i \in Side : score[i] = 0
    BY DEF Init, Idle, Job, Side
  <2> QED
    BY <2>1, WinsNeededTyped DEF Init, Deciding
<1>2. TypeInv /\ Deciding(r) /\ [Next]_vars => (TypeInv /\ Deciding(r))'
  <2> SUFFICES ASSUME TypeInv, Deciding(r), [Next]_vars PROVE Deciding(r)'
    BY NextTyped
  <2>1. CASE UNCHANGED vars
    BY <2>1 DEF vars, match, Deciding, HeldFor
  <2>2. CASE Next
    <3>1. Statement(r) \/ Requests(r)
      BY <2>2 DEF Next, Requests
    <3> QED
      BY <3>1, StatementDecides, RequestDecides
  <2> QED
    BY <2>1, <2>2
<1> QED
  BY <1>1, <1>2, PTL DEF Spec

(* A series of any length is over once a player has the wins it takes, or  *)
(* waits for the staff under that player's name: verdicts, walkovers,      *)
(* results given by the staff and resets do not lose it (match.service.ts  *)
(* 743-744).                                                               *)
THEOREM DecidedStaysHeld ==
    ASSUME NEW r, Request = {r}, "self-report" \notin Endpoints
    PROVE  Spec => []DecidedSeriesIsHeld
<1>1. Deciding(r) => DecidedSeriesIsHeld
  BY DEF Deciding, HeldFor, DecidedSeriesIsHeld, Quiet, Idle, Job
<1> QED
  BY <1>1, SeriesForever, PTL

---------------------------------------------------------------------------
(* The log of the tracker, with one request at a time, every game through  *)
(* the tracker and no reports by the players.  The first k rows ever       *)
(* created are gone; the others are numbered from 1, and only the last of  *)
(* them may still run.                                                     *)
Gone(k) ==
    /\ \A g \in 1..k : logs[g].state = "gone"
    /\ \A g \in (k + 1)..Len(logs) : logs[g].state # "gone" /\ logs[g].number = g - k
    /\ \A g \in (k + 1)..(Len(logs) - 1) : logs[g].state = "closed"

(* A win that is counted and whose game is still to be closed.             *)
Owed(r, i) ==
    IF /\ job[r].op \in {"Defer", "Finish", "Credit", "Close"}
       /\ job[r].log # 0 /\ job[r].w = i
    THEN 1 ELSE 0

(* A report names the winner of the last game.                             *)
LastWonBy(i) == /\ Len(logs) > 0
                /\ logs[Len(logs)].state = "closed" /\ logs[Len(logs)].winner = i

Tracking(r) ==
    /\ job[r].op = "Open" => Active = {} /\ reported = 0 /\ job[r].log = Cardinality(Live) + 1
    /\ job[r].op \in {"Game", "Count", "Draw", "Defer", "Close"} => job[r].log \in Active
    /\ job[r].op \in {"Finish", "Credit"} /\ job[r].log # 0 => job[r].log \in Active
    /\ job[r].op = "Draw" => job[r].w = 0
    /\ job[r].op = "Submit" => job[r].log = 0
    /\ job[r].op = "Defer" => job[r].won = job[r].w
    /\ job[r].op = "Undo" => job[r].log = Len(logs)

Reporting(r) ==
    reported # 0 => IF job[r].op = "Close" THEN job[r].w = reported ELSE LastWonBy(reported)

Scoring(r) == \A i \in Side : score[i] = Cardinality(WonBy(i)) + Owed(r, i)

Logging(r) == /\ \E k \in 0..Len(logs) : Gone(k)
              /\ Tracking(r) /\ Reporting(r) /\ Scoring(r)

(* What the shape of the log says of the sets it is read through.          *)
LEMMA LogSets ==
    ASSUME TypeInv, NEW k \in 0..Len(logs), Gone(k)
    PROVE  /\ Len(logs) \in Nat /\ k \in Nat /\ DOMAIN logs = 1..Len(logs)
           /\ Live = (k + 1)..Len(logs) /\ Cardinality(Live) = Len(logs) - k
           /\ Active \subseteq {Len(logs)}
           /\ \A g \in Active : g = Len(logs) /\ g > k /\ logs[g].state = "active"
           /\ \A i : WonBy(i) \subseteq (k + 1)..Len(logs) /\ IsFiniteSet(WonBy(i))
<1>1. Len(logs) \in Nat /\ k \in Nat /\ DOMAIN logs = 1..Len(logs)
  BY DEF TypeInv
<1>2. Live = (k + 1)..Len(logs)
  BY <1>1 DEF Live, Gone
<1>3. Cardinality(Live) = Len(logs) - k /\ IsFiniteSet(Live)
  <2>1. k <= Len(logs)
    BY <1>1
  <2>2. ASSUME NEW len \in Nat, NEW k0 \in Nat, k0 <= len
        PROVE  Cardinality((k0 + 1)..len) = len - k0 /\ IsFiniteSet((k0 + 1)..len)
    BY <2>2, FS_Interval
  <2> QED
    BY <1>1, <1>2, <2>1, <2>2
<1>4. \A g \in Active : g = Len(logs) /\ g > k /\ logs[g].state = "active"
  BY <1>1 DEF Active, Gone
<1>5. \A i : WonBy(i) \subseteq Live
  BY DEF WonBy, Live
<1> QED
  BY <1>1, <1>2, <1>3, <1>4, <1>5, FS_Subset

(* The game a rejection takes back is the last one.                        *)
LEMMA LastDecides ==
    ASSUME TypeInv, NEW k \in 0..Len(logs), Gone(k), NEW i, LastWonBy(i)
    PROVE  DecidingLog(i) = Len(logs) /\ Len(logs) \in WonBy(i) /\ Len(logs) > k
<1>1. Len(logs) \in WonBy(i) /\ Len(logs) > k
  BY LogSets DEF LastWonBy, WonBy, Gone
<1>2. \A g \in WonBy(i) : /\ logs[g].number = g - k /\ g \in Nat /\ g <= Len(logs)
  BY LogSets DEF Gone
<1>3. \A g \in WonBy(i) :
        (\A h \in WonBy(i) : logs[h].number <= logs[g].number) <=> g = Len(logs)
  BY <1>1, <1>2, LogSets
<1> QED
  BY <1>1, <1>3 DEF DecidingLog

(* A statement that leaves the log alone leaves it as it is shaped.        *)
LEMMA SameLogs ==
    ASSUME logs' = logs, \E k \in 0..Len(logs) : Gone(k)
    PROVE  /\ (\E k \in 0..Len(logs) : Gone(k))' /\ Active' = Active /\ Live' = Live
           /\ \A i : WonBy(i)' = WonBy(i) /\ LastWonBy(i)' = LastWonBy(i)
  BY DEF Gone, Active, Live, WonBy, LastWonBy

(* What follows the statements that write no log.                          *)
LEMMA StatementLogs ==
    ASSUME TypeInv, NEW r \in Request, Deciding(r), Logging(r), Statement(r),
           ~Open(r), ~Close(r), ~Undo(r)
    PROVE  Logging(r)'
<1>1. {"Count", "Finish", "Credit", "CreditWalkover"} \subseteq Ops
  BY DEF Ops
<1>2. score \in [Side -> Nat] /\ Side = {1, 2} /\ reported \in {0, 1, 2}
  BY DEF TypeInv, RowsTyped, Side
<1>3. logs' = logs
  BY DEF Statement, Start, Game, Count, Defer, Draw, Finish, Credit, Report, Submit, Award,
     CreditWalkover
<1>4. /\ (\E k \in 0..Len(logs) : Gone(k))' /\ Active' = Active /\ Live' = Live
      /\ \A i : WonBy(i)' = WonBy(i) /\ LastWonBy(i)' = LastWonBy(i)
  BY <1>3, SameLogs DEF Logging
<1>5. \A g \in Active : g # 0 /\ logs[g].state = "active" /\ g = Len(logs)
  <2>1. PICK k \in 0..Len(logs) : Gone(k)
    BY DEF Logging
  <2> QED
    BY <2>1, LogSets
<1>6. Active # {} /\ job[r].op # "Close" => reported = 0
  BY <1>5 DEF Logging, Reporting, LastWonBy
<1>7. ASSUME UNCHANGED <<score, reported>>, job'[r].op = "Idle", Owed(r, 1) = 0, Owed(r, 2) = 0,
             job[r].op # "Close"
      PROVE  Logging(r)'
  BY <1>2, <1>4, <1>7 DEF Logging, Tracking, Reporting, Scoring, Owed
<1>8. CASE Start(r) \/ CreditWalkover(r)
  BY <1>7, <1>8, Returned DEF Start, CreditWalkover, Runs, Owed, match
<1>9. CASE Game(r)
  <2>1. job'[r].op = "Idle" \/ /\ job'[r].op = "Count" /\ job'[r].w = job[r].w
                               /\ job'[r].log = job[r].log
    BY <1>1, <1>9, Returned, Continued DEF Game
  <2>2. UNCHANGED <<score, reported>> /\ job[r].op = "Game"
    BY <1>9 DEF Game, match, Runs
  <2> QED
    BY <1>2, <1>4, <2>1, <2>2 DEF Logging, Tracking, Reporting, Scoring, Owed
<1>10. CASE Count(r)
  <2>1. job[r].op = "Count" /\ reported' = reported /\ reported = 0 /\ job[r].w \in Side
        /\ job[r].log \in Active /\ job[r].log # 0 /\ \A i \in Side : score[i] < WinsNeeded
    BY <1>2, <1>5, <1>10, WinsNeededTyped
       DEF Count, Runs, Deciding, HeldFor, Logging, Tracking
  <2>2. \A i \in Side : score'[i] = IF i = job[r].w THEN score[i] + 1 ELSE score[i]
    BY <1>2, <1>10, <2>1, Counted
  <2>3. /\ job'[r].op \in {"Close", "Finish", "Defer"}
        /\ job'[r].w = job[r].w /\ job'[r].log = job[r].log
        /\ job'[r].op = "Defer" => job'[r].won = job'[r].w
    <3>1. CASE \A i \in Side : score'[i] < WinsNeeded
      BY <1>10, <2>1, <3>1, Counted
    <3>2. CASE \E i \in Side : ~(score'[i] < WinsNeeded)
      <4>1. /\ job'[r].op \in {"Finish", "Defer"}
            /\ job'[r].won = (IF score'[1] >= WinsNeeded THEN 1 ELSE 2)
            /\ job'[r].w = job[r].w /\ job'[r].log = job[r].log
        BY <1>10, <3>2, Counted
      <4>2. ~(score'[job[r].w] < WinsNeeded)
        BY <2>1, <2>2, <3>2
      <4>3. \A i \in Side : i # job[r].w => ~(score'[i] >= WinsNeeded)
        BY <1>2, <2>1, <2>2, WinsNeededTyped
      <4>4. score'[job[r].w] >= WinsNeeded
        BY <1>2, <2>1, <2>2, <4>2, WinsNeededTyped
      <4> QED
        BY <1>2, <2>1, <4>1, <4>3, <4>4
    <3> QED
      BY <3>1, <3>2
  <2>4. \A i \in Side : Owed(r, i) = 0 /\ Owed(r, i)' = IF i = job[r].w THEN 1 ELSE 0
    BY <2>1, <2>3 DEF Owed
  <2>5. \A i \in Side : score[i] = Cardinality(WonBy(i))
    <3>1. PICK k \in 0..Len(logs) : Gone(k)
      BY DEF Logging
    <3>2. \A i : Cardinality(WonBy(i)) \in Nat
      BY <3>1, LogSets, FS_CardinalityType
    <3> QED
      BY <2>4, <3>2 DEF Logging, Scoring
  <2>6. Scoring(r)'
    BY <1>2, <1>4, <2>2, <2>4, <2>5 DEF Scoring
  <2> QED
    BY <1>4, <2>1, <2>3, <2>6 DEF Logging, Tracking, Reporting
<1>11. CASE Defer(r)
  <2>1. /\ job[r].op = "Defer" /\ job[r].log \in Active /\ job[r].log # 0
        /\ job[r].won = job[r].w /\ reported' = job[r].won /\ score' = score
    BY <1>5, <1>11 DEF Defer, Runs, Logging, Tracking
  <2>2. job'[r].op = "Close" /\ job'[r].w = job[r].w /\ job'[r].log = job[r].log
    BY <1>11, <2>1, ClosesOrReturns DEF Defer
  <2> QED
    BY <1>4, <2>1, <2>2 DEF Logging, Tracking, Reporting, Scoring, Owed
<1>12. CASE Draw(r) \/ Submit(r)
  <2>1. job'[r].op = "Idle" \/ /\ job'[r].op = "Finish" /\ job'[r].w = job[r].w
                               /\ job'[r].log = job[r].log
    BY <1>1, <1>12, Returned, Continued DEF Draw, Submit
  <2>2. UNCHANGED <<score, reported>> /\ job[r].op \in {"Draw", "Submit"}
    BY <1>12 DEF Draw, Submit, match, Runs
  <2>3. \A i \in Side : Owed(r, i) = 0 /\ Owed(r, i)' = 0
    BY <1>2, <2>1, <2>2 DEF Logging, Tracking, Owed
  <2> QED
    BY <1>2, <1>4, <2>1, <2>2, <2>3 DEF Logging, Tracking, Reporting, Scoring
<1>13. CASE Finish(r)
  <2>1. /\ job'[r].op = "Credit" /\ job'[r].w = job[r].w /\ job'[r].log = job[r].log
        /\ job[r].op = "Finish" /\ reported' = 0 /\ score' = score
    BY <1>1, <1>13, Continued DEF Finish, Runs, Completed
  <2> QED
    BY <1>4, <2>1 DEF Logging, Tracking, Reporting, Scoring, Owed
<1>14. CASE Credit(r)
  <2>1. job[r].op = "Credit" /\ UNCHANGED <<score, reported>>
    BY <1>14 DEF Credit, Runs, match
  <2>2. CASE job[r].log = 0
    <3>1. job'[r].op = "Idle"
      BY <1>14, <2>2, ClosesOrReturns DEF Credit
    <3> QED
      BY <1>7, <2>1, <2>2, <3>1 DEF Owed
  <2>3. CASE job[r].log # 0
    <3>1. job'[r].op = "Close" /\ job'[r].w = job[r].w /\ job'[r].log = job[r].log
      BY <1>14, <2>3, ClosesOrReturns DEF Credit
    <3>2. job[r].log \in Active /\ reported = 0
      BY <1>6, <2>1, <2>3 DEF Logging, Tracking
    <3> QED
      BY <1>4, <2>1, <3>1, <3>2 DEF Logging, Tracking, Reporting, Scoring, Owed
  <2> QED
    BY <2>2, <2>3
<1>15. CASE Award(r)
  <2>1. /\ job'[r].op = "CreditWalkover" /\ job[r].op = "Award"
        /\ reported' = 0 /\ score' = score
    BY <1>1, <1>15, Continued DEF Award, Runs, Completed
  <2> QED
    BY <1>2, <1>4, <2>1 DEF Logging, Tracking, Reporting, Scoring, Owed
<1>16. ~Report(r)
  BY DEF Report, Runs, Deciding
<1> QED
  BY <1>8, <1>9, <1>10, <1>11, <1>12, <1>13, <1>14, <1>15, <1>16 DEF Statement

(* A new game is the last of the log.                                      *)
LEMMA OpenLogs ==
    ASSUME TypeInv, NEW r \in Request, Logging(r), Open(r)
    PROVE  Logging(r)'
<1>1. PICK k \in 0..Len(logs) : Gone(k)
  BY DEF Logging
<1> DEFINE n == Len(logs)
           new == [number |-> job[r].log, state |-> "active", winner |-> 0]
<1>2. /\ job[r].op = "Open" /\ job'[r].op = "Idle" /\ UNCHANGED <<score, reported>>
      /\ logs' = Append(logs, new)
  BY Returned DEF Open, Runs, match
<1>3. Active = {} /\ reported = 0 /\ job[r].log = Cardinality(Live) + 1
  BY <1>2 DEF Logging, Tracking
<1>4. n \in Nat /\ k \in 0..n /\ DOMAIN logs = 1..n /\ Cardinality(Live) = n - k
  BY <1>1, LogSets
<1>5. /\ Len(logs') = n + 1 /\ DOMAIN logs' = 1..(n + 1)
      /\ \A g \in 1..n : logs'[g] = logs[g]
      /\ logs'[n + 1] = new
  BY <1>2, <1>4, AppendProperties DEF TypeInv
<1>6. new.number = n + 1 - k /\ new.state = "active"
  BY <1>3, <1>4
<1> HIDE DEF n, new
<1>7. \A g \in (k + 1)..n : logs[g].state = "closed"
  <2> SUFFICES ASSUME NEW g \in (k + 1)..n PROVE logs[g].state = "closed"
    OBVIOUS
  <2>1. g \in 1..n /\ logs[g] \in LogType
    BY <1>4 DEF TypeInv, n
  <2>2. logs[g].state # "gone"
    BY <1>1 DEF Gone, n
  <2>3. logs[g].state # "active"
    BY <1>3, <1>4, <2>1 DEF Active
  <2> QED
    BY <2>1, <2>2, <2>3 DEF LogType
<1>8. Gone(k)'
  BY <1>1, <1>4, <1>5, <1>6, <1>7 DEF Gone, n
<1>9. \A i : WonBy(i)' = WonBy(i)
  BY <1>4, <1>5, <1>6 DEF WonBy, n
<1>10. \A i \in Side : Owed(r, i) = 0 /\ Owed(r, i)' = 0
  BY <1>2 DEF Owed
<1>11. k \in 0..Len(logs')
  BY <1>4, <1>5
<1> QED
  BY <1>2, <1>3, <1>8, <1>9, <1>10, <1>11 DEF Logging, Tracking, Reporting, Scoring

(* The log of a result is closed last: the win is no longer owed.          *)
LEMMA CloseLogs ==
    ASSUME TypeInv, NEW r \in Request, Logging(r), Close(r)
    PROVE  Logging(r)'
<1>1. PICK k \in 0..Len(logs) : Gone(k)
  BY DEF Logging
<1> DEFINE n == Len(logs)
           w == job[r].w
<1>2. /\ job[r].op = "Close" /\ job'[r].op = "Idle" /\ UNCHANGED <<score, reported>>
      /\ job[r].log \in Active
  BY Returned DEF Close, Runs, match, Logging, Tracking
<1>3. /\ n \in Nat /\ k \in Nat /\ n > k /\ DOMAIN logs = 1..n
      /\ job[r].log = n /\ logs[n].state = "active" /\ n # 0
      /\ \A i : WonBy(i) \subseteq (k + 1)..n /\ IsFiniteSet(WonBy(i))
  BY <1>1, <1>2, LogSets
<1>4. logs' = [logs EXCEPT ![n].state = "closed", ![n].winner = w]
  BY <1>3 DEF Close
<1>5. /\ Len(logs') = n /\ DOMAIN logs' = 1..n
      /\ \A g \in 1..n : g # n => logs'[g] = logs[g]
      /\ logs'[n].number = logs[n].number /\ logs'[n].state = "closed" /\ logs'[n].winner = w
  <2>1. logs \in Seq(LogType) /\ n \in 1..n
    BY <1>3 DEF TypeInv
  <2>2. logs[n] \in LogType
    BY <2>1
  <2>3. logs' = [logs EXCEPT ![n] = [logs[n] EXCEPT !.state = "closed", !.winner = w]]
    BY <1>4, <2>1
  <2>4. /\ [logs[n] EXCEPT !.state = "closed", !.winner = w].number = logs[n].number
        /\ [logs[n] EXCEPT !.state = "closed", !.winner = w].state = "closed"
        /\ [logs[n] EXCEPT !.state = "closed", !.winner = w].winner = w
    BY <2>2 DEF LogType
  <2> QED
    BY <2>1, <2>3, <2>4, ExceptSeq
<1> HIDE DEF n, w
<1>6. Gone(k)'
  <2>1. /\ \A g \in 1..k : logs[g].state = "gone"
        /\ \A g \in (k + 1)..n : logs[g].state # "gone" /\ logs[g].number = g - k
        /\ \A g \in (k + 1)..(n - 1) : logs[g].state = "closed"
    BY <1>1 DEF Gone, n
  <2>2. \A g \in 1..k : g \in 1..n /\ g # n
    BY <1>3, <1>5
  <2>3. \A g \in (k + 1)..n : /\ g \in 1..n
                            /\ logs'[g].state # "gone" /\ logs'[g].number = logs[g].number
    BY <1>3, <1>5, <2>1
  <2>4. \A g \in (k + 1)..(n - 1) : g \in 1..n /\ g # n
    BY <1>3, <1>5
  <2> QED
    BY <1>3, <1>5, <2>1, <2>2, <2>3, <2>4 DEF Gone
<1>7. n \notin WonBy(w) /\ \A i : WonBy(i)' = IF i = w THEN WonBy(i) \cup {n} ELSE WonBy(i)
  BY <1>3, <1>5 DEF WonBy
<1>8. Cardinality(WonBy(w) \cup {n}) = Cardinality(WonBy(w)) + 1
  BY <1>3, <1>7, FS_AddElement
<1>9. \A i \in Side : /\ Owed(r, i)' = 0
                      /\ Owed(r, i) = IF i = w THEN 1 ELSE 0
  BY <1>2, <1>3 DEF Owed, w
<1>10. Scoring(r)'
  <2>1. \A i : Cardinality(WonBy(i)) \in Nat
    BY <1>3, FS_CardinalityType
  <2>2. \A i \in Side : score[i] = Cardinality(WonBy(i)) + Owed(r, i)
    BY DEF Logging, Scoring
  <2>3. ASSUME NEW i \in Side
        PROVE  score[i] = Cardinality(WonBy(i)') /\ Cardinality(WonBy(i)') \in Nat
    <3>1. CASE i = w
      <4>1. WonBy(i)' = WonBy(w) \cup {n} /\ WonBy(i) = WonBy(w)
        BY <1>7, <3>1
      <4>2. score[i] = Cardinality(WonBy(w)) + 1 /\ Cardinality(WonBy(w)) \in Nat
        BY <1>9, <2>1, <2>2, <3>1, <4>1
      <4> QED
        BY <1>8, <4>1, <4>2
    <3>2. CASE i # w
      <4>1. WonBy(i)' = WonBy(i)
        BY <1>7, <3>2
      <4> QED
        BY <1>9, <2>1, <2>2, <3>2, <4>1
    <3> QED
      BY <3>1, <3>2
  <2> QED
    BY <1>2, <1>9, <2>3 DEF Scoring
<1>11. Reporting(r)'
  BY <1>2, <1>3, <1>5 DEF Logging, Reporting, LastWonBy, w
<1>12. k \in 0..Len(logs')
  BY <1>3, <1>5
<1> QED
  BY <1>2, <1>6, <1>10, <1>11, <1>12 DEF Logging, Tracking

(* A rejected game runs again, and its win is taken back.                  *)
LEMMA UndoLogs ==
    ASSUME TypeInv, NEW r \in Request, Deciding(r), Logging(r), Undo(r)
    PROVE  Logging(r)'
<1>1. PICK k \in 0..Len(logs) : Gone(k)
  BY DEF Logging
<1> DEFINE n == Len(logs)
           w == job[r].w
<1>2. /\ job[r].op = "Undo" /\ job'[r].op = "Idle" /\ job[r].seen = score
      /\ reported = w /\ w \in Side /\ w # 0 /\ job[r].log = n
  BY Returned DEF Undo, Runs, Deciding, Logging, Tracking, Side
<1>3. LastWonBy(w)
  BY <1>2 DEF Logging, Reporting
<1>4. n > k /\ n \in WonBy(w)
  BY <1>1, <1>3, LastDecides
<1>5. /\ n \in Nat /\ k \in Nat /\ DOMAIN logs = 1..n /\ n # 0
      /\ \A i : WonBy(i) \subseteq (k + 1)..n /\ IsFiniteSet(WonBy(i))
  BY <1>1, <1>4, LogSets
<1>6. logs[n].state = "closed" /\ logs[n].winner = w
  BY <1>3 DEF LastWonBy
<1>7. /\ score' = [score EXCEPT ![w] = IF @ = 0 THEN 0 ELSE @ - 1]
      /\ reported' = 0
      /\ logs' = [logs EXCEPT ![n].state = "active", ![n].winner = 0]
  BY <1>2, <1>5, <1>6 DEF Undo
<1>8. /\ Len(logs') = n /\ DOMAIN logs' = 1..n
      /\ \A g \in 1..n : g # n => logs'[g] = logs[g]
      /\ logs'[n].number = logs[n].number /\ logs'[n].state = "active"
  <2>1. logs \in Seq(LogType) /\ n \in 1..n
    BY <1>5 DEF TypeInv
  <2>2. logs[n] \in LogType
    BY <2>1
  <2>3. logs' = [logs EXCEPT ![n] = [logs[n] EXCEPT !.state = "active", !.winner = 0]]
    BY <1>7, <2>1
  <2>4. /\ [logs[n] EXCEPT !.state = "active", !.winner = 0].number = logs[n].number
        /\ [logs[n] EXCEPT !.state = "active", !.winner = 0].state = "active"
    BY <2>2 DEF LogType
  <2> QED
    BY <2>1, <2>3, <2>4, ExceptSeq
<1> HIDE DEF n, w
<1>9. Gone(k)'
  <2>1. /\ \A g \in 1..k : logs[g].state = "gone"
        /\ \A g \in (k + 1)..n : logs[g].state # "gone" /\ logs[g].number = g - k
        /\ \A g \in (k + 1)..(n - 1) : logs[g].state = "closed"
    BY <1>1 DEF Gone, n
  <2>2. \A g \in 1..k : g \in 1..n /\ g # n
    BY <1>4, <1>5, <1>8
  <2>3. \A g \in (k + 1)..n : /\ g \in 1..n
                            /\ logs'[g].state # "gone" /\ logs'[g].number = logs[g].number
    BY <1>4, <1>5, <1>8, <2>1
  <2>4. \A g \in (k + 1)..(n - 1) : g \in 1..n /\ g # n
    BY <1>4, <1>5, <1>8
  <2> QED
    BY <1>4, <1>5, <1>8, <2>1, <2>2, <2>3, <2>4 DEF Gone
<1>10. \A i : WonBy(i)' = IF i = w THEN WonBy(i) \ {n} ELSE WonBy(i)
  BY <1>5, <1>6, <1>8 DEF WonBy
<1>11. /\ \A i : Cardinality(WonBy(i)) \in Nat
       /\ Cardinality(WonBy(w) \ {n}) = Cardinality(WonBy(w)) - 1
       /\ Cardinality(WonBy(w)) # 0
  BY <1>4, <1>5, FS_CardinalityType, FS_RemoveElement, FS_EmptySet
<1>12. \A i \in Side : Owed(r, i) = 0 /\ Owed(r, i)' = 0
  BY <1>2 DEF Owed
<1>13. \A i \in Side : score[i] = Cardinality(WonBy(i))
  BY <1>11, <1>12 DEF Logging, Scoring
<1>14. \A i \in Side : score'[i] = Cardinality(WonBy(i)')
  <2>1. score \in [Side -> Nat]
    BY DEF TypeInv, RowsTyped
  <2> QED
    BY <1>2, <1>7, <1>10, <1>11, <1>13, <2>1
<1>15. Scoring(r)'
  <2>1. ASSUME NEW i \in Side
        PROVE  Cardinality(WonBy(i)') \in Nat
    <3>1. CASE i = w
      <4>1. WonBy(i)' = WonBy(w) \ {n} /\ Cardinality(WonBy(w)) \in Nat
        BY <1>10, <1>11, <3>1
      <4>2. Cardinality(WonBy(w)) - 1 \in Nat
        BY <1>11, <4>1
      <4> QED
        BY <1>11, <4>1, <4>2
    <3>2. CASE i # w
      <4>1. WonBy(i)' = WonBy(i)
        BY <1>10, <3>2
      <4> QED
        BY <1>11, <4>1
    <3> QED
      BY <3>1, <3>2
  <2> QED
    BY <1>12, <1>14, <2>1 DEF Scoring
<1>16. k \in 0..Len(logs')
  BY <1>4, <1>5, <1>8
<1> QED
  BY <1>2, <1>7, <1>9, <1>15, <1>16 DEF Logging, Tracking, Reporting

(* A request begins with what the log holds.                               *)
LEMMA RequestLogs ==
    ASSUME TypeInv, NEW r \in Request, Deciding(r), Logging(r), Requests(r),
           "self-report" \notin Endpoints, "game-result" \notin Endpoints
    PROVE  Logging(r)'
<1>1. PICK k \in 0..Len(logs) : Gone(k)
  BY DEF Logging
<1>2. reported \in {0, 1, 2} /\ Side = {1, 2} /\ Idle.op = "Idle"
  BY JobTyped DEF TypeInv, RowsTyped, Side, Idle, Ops
<1>3. ASSUME NEW route, NEW j, Begins(r, route, j), UNCHANGED <<match, logs>>,
             \/ j.op \in {"Start", "Award"}
             \/ j.op = "Submit" /\ j.log = 0
             \/ /\ j.op = "Open" /\ Active = {} /\ reported = 0
                /\ j.log = Cardinality(Live) + 1
             \/ j.op = "Game" /\ j.log \in Active
             \/ j.op = "Draw" /\ j.log \in Active /\ j.w = 0
             \/ j.op = "Undo" /\ j.log = Len(logs)
      PROVE  Logging(r)'
  <2>1. job[r].op = "Idle" /\ job'[r] = j
    BY <1>2, <1>3 DEF Begins, TypeInv
  <2>2. /\ (\E m \in 0..Len(logs) : Gone(m))' /\ Active' = Active /\ Live' = Live
        /\ \A i : WonBy(i)' = WonBy(i) /\ LastWonBy(i)' = LastWonBy(i)
    BY <1>3, SameLogs DEF Logging
  <2>3. \A i \in Side : Owed(r, i) = 0 /\ Owed(r, i)' = 0
    BY <1>3, <2>1 DEF Owed
  <2>4. Tracking(r)'
    BY <1>3, <2>1, <2>2 DEF Tracking, match
  <2>5. Reporting(r)' /\ Scoring(r)'
    BY <1>3, <2>1, <2>2, <2>3 DEF Logging, Reporting, Scoring, match
  <2> QED
    BY <2>2, <2>4, <2>5 DEF Logging
<1>4. \A op, w, by, log : /\ Job(op, w, by, log).op = op /\ Job(op, w, by, log).w = w
                          /\ Job(op, w, by, log).log = log
  BY DEF Job
<1>5. CASE Reset(r)
  <2>1. /\ job[r].op = "Idle" /\ job' = job /\ reported' = 0 /\ score' = <<0, 0>>
        /\ logs' = [g \in DOMAIN logs |-> [logs[g] EXCEPT !.state = "gone"]]
    BY <1>2, <1>5 DEF Reset
  <2>2. Len(logs) \in Nat /\ DOMAIN logs = 1..Len(logs)
    BY DEF TypeInv
  <2>3. \A g \in 1..Len(logs) : logs'[g].state = "gone"
    <3>1. \A g \in 1..Len(logs) : logs[g] \in LogType
      BY DEF TypeInv
    <3>2. \A g \in 1..Len(logs) : [logs[g] EXCEPT !.state = "gone"].state = "gone"
      BY <3>1 DEF LogType
    <3> QED
      BY <2>1, <2>2, <3>2
  <2>4. DOMAIN logs' = 1..Len(logs) /\ Len(logs') = Len(logs)
    BY <2>1, <2>2
  <2>5. Gone(Len(logs))'
    BY <2>2, <2>3, <2>4 DEF Gone
  <2>6. \A i : WonBy(i)' = {}
    BY <2>3, <2>4 DEF WonBy
  <2>7. \A i \in Side : Owed(r, i)' = 0 /\ score'[i] = 0 /\ Cardinality(WonBy(i)') = 0
    <3>1. \A i \in Side : Owed(r, i)' = 0 /\ score'[i] = 0
      BY <1>2, <2>1 DEF Owed
    <3>2. \A i \in Side : Cardinality(WonBy(i)') = Cardinality({})
      BY <2>6
    <3> QED
      BY <3>1, <3>2, FS_EmptySet
  <2>8. Scoring(r)'
    BY <2>7 DEF Scoring
  <2>9. (\E m \in 0..Len(logs) : Gone(m))'
    BY <2>2, <2>4, <2>5
  <2> QED
    BY <2>1, <2>8, <2>9 DEF Logging, Tracking, Reporting
<1>6. CASE StartMatch(r) \/ Verify(r)
  BY <1>3, <1>4, <1>6 DEF StartMatch, Verify
<1>7. CASE OpenTracker(r)
  <2>1. reported = 0
    BY <1>7 DEF OpenTracker, AwaitingReview, Deciding
  <2> QED
    BY <1>3, <1>4, <1>7, <2>1 DEF OpenTracker
<1>8. CASE Reject(r)
  <2> DEFINE j == [Job("Undo", reported, "STAFF", DecidingLog(reported)) EXCEPT !.seen = score]
  <2>1. j.op = "Undo" /\ j.log = DecidingLog(reported)
    BY DEF Job
  <2>2. Begins(r, "reject", j) /\ UNCHANGED <<match, logs>> /\ reported # 0 /\ job[r] = Idle
    BY <1>8 DEF Reject, Begins
  <2> HIDE DEF j
  <2>3. LastWonBy(reported)
    BY <1>2, <2>2 DEF Logging, Reporting
  <2>4. DecidingLog(reported) = Len(logs)
    BY <1>1, <2>3, LastDecides
  <2> QED
    BY <1>3, <2>1, <2>2, <2>4
<1>9. CASE \E by \in Actors, w \in 0..2, g \in Active : SubmitGame(r, by, w, g)
  <2>1. PICK by \in Actors, w \in 0..2, g \in Active : SubmitGame(r, by, w, g)
    BY <1>9
  <2> DEFINE j == Job(IF w = 0 THEN "Draw" ELSE "Game", w, by, g)
  <2>2. j.log \in Active /\ (j.op = "Game" \/ (j.op = "Draw" /\ j.w = 0))
    BY <1>4
  <2>3. Begins(r, "tracker", j) /\ UNCHANGED <<match, logs>>
    BY <2>1 DEF SubmitGame
  <2> HIDE DEF j
  <2> QED
    BY <1>3, <2>2, <2>3
<1>10. CASE (\E w \in 0..2 : SubmitResult(r, w)) \/ (\E w \in Side : CompleteAsWalkover(r, w))
  BY <1>3, <1>4, <1>10 DEF SubmitResult, CompleteAsWalkover
<1>11. /\ \A w : ~SelfReport(r, w)
       /\ \A by, w : ~ReportGameResult(r, by, w)
  BY DEF SelfReport, ReportGameResult, Begins
<1> QED
  BY <1>5, <1>6, <1>7, <1>8, <1>9, <1>10, <1>11 DEF Requests

(* The score is what the log says: whatever is opened, submitted, reported,*)
(* verified, rejected, forfeited and reset, in any order and any number of *)
(* times, each player has as many wins as closed games of the series that  *)
(* runs, and the games are numbered one after the other.                   *)
THEOREM ScoreIsTheLog ==
    ASSUME NEW r, Request = {r},
           "self-report" \notin Endpoints, "game-result" \notin Endpoints
    PROVE  Spec => []ScoreMatchesLogs
<1>1. Init => Logging(r)
  <2> SUFFICES ASSUME Init PROVE Logging(r)
    OBVIOUS
  <2>1. /\ job[r].op = "Idle" /\ reported = 0 /\ logs = <<>> /\ Len(logs) = 0
        /\ \A i \in Side : score[i] = 0
    BY DEF Init, Idle, Job, Side
  <2>2. Gone(0)
    BY <2>1 DEF Gone
  <2>3. \A i : WonBy(i) = {}
    BY <2>1 DEF WonBy
  <2>4. \A i \in Side : Owed(r, i) = 0 /\ Cardinality(WonBy(i)) = 0
    BY <2>1, <2>3, FS_EmptySet DEF Owed
  <2> QED
    BY <2>1, <2>2, <2>4 DEF Logging, Tracking, Reporting, Scoring
<1>2. TypeInv /\ Deciding(r) /\ Logging(r) /\ [Next]_vars => Logging(r)'
  <2> SUFFICES ASSUME TypeInv, Deciding(r), Logging(r), [Next]_vars PROVE Logging(r)'
    OBVIOUS
  <2>1. CASE UNCHANGED vars
    BY <2>1 DEF vars, match, Logging, Tracking, Reporting, Scoring, Gone, Owed, LastWonBy,
       Active, Live, WonBy
  <2>2. CASE Next
    <3>1. Statement(r) \/ Requests(r)
      BY <2>2 DEF Next, Requests
    <3> QED
      BY <3>1, StatementLogs, OpenLogs, CloseLogs, UndoLogs, RequestLogs
  <2> QED
    BY <2>1, <2>2
<1>3. TypeInv /\ Logging(r) => ScoreMatchesLogs
  <2> SUFFICES ASSUME TypeInv, Logging(r), Quiet
               PROVE  /\ \A i \in Side : score[i] = Cardinality(WonBy(i))
                      /\ {logs[g].number : g \in Live} = 1..Cardinality(Live)
                      /\ \A g \in Active : logs[g].number = Cardinality(Live)
    BY DEF ScoreMatchesLogs
  <2>1. PICK k \in 0..Len(logs) : Gone(k)
    BY DEF Logging
  <2>2. /\ Len(logs) \in Nat /\ k \in Nat /\ Live = (k + 1)..Len(logs)
        /\ Cardinality(Live) = Len(logs) - k
        /\ \A g \in Active : g = Len(logs) /\ g > k
        /\ \A i : Cardinality(WonBy(i)) \in Nat
    BY <2>1, LogSets, FS_CardinalityType
  <2>3. \A g \in Live : logs[g].number = g - k
    BY <2>1, <2>2 DEF Gone
  <2>4. {logs[g].number : g \in Live} = 1..Cardinality(Live)
    <3>1. \A g \in Live : logs[g].number \in 1..Cardinality(Live)
      BY <2>2, <2>3
    <3>2. ASSUME NEW m \in 1..Cardinality(Live)
          PROVE  m + k \in Live /\ logs[m + k].number = m
      <4>1. m + k \in Live
        BY <2>2
      <4>2. logs[m + k].number = (m + k) - k
        BY <2>3, <4>1
      <4> QED
        BY <2>2, <4>1, <4>2
    <3> QED
      BY <3>1, <3>2
  <2>5. \A g \in Active : logs[g].number = Cardinality(Live)
    <3>1. \A g \in Active : g \in Live
      BY <2>2
    <3> QED
      BY <2>2, <2>3, <3>1
  <2>6. \A i \in Side : score[i] = Cardinality(WonBy(i))
    <3>1. \A i \in Side : Owed(r, i) = 0
      BY DEF Quiet, Idle, Job, Owed
    <3> QED
      BY <2>2, <3>1 DEF Logging, Scoring
  <2> QED
    BY <2>4, <2>5, <2>6
<1> QED
  BY <1>1, <1>2, <1>3, SeriesForever, PTL DEF Spec
=============================================================================
