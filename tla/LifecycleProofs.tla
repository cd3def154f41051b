-------------------------- MODULE LifecycleProofs --------------------------
(***************************************************************************)
(* Any field, any number of requests, any order of their statements, any   *)
(* number of failures.                                                     *)
(*                                                                         *)
(* If the status is never set by hand, only one start at a time draws a    *)
(* bracket.  That the claim is exclusive is not enough: it must stay taken *)
(* until the claimant has drawn, or undone, its bracket (ClaimInv).        *)
(*                                                                         *)
(* One request at a time, what a request has read still holds when it      *)
(* writes: Steady says what each statement relies on, Settled what holds   *)
(* of the tournament meanwhile, and the rest follows from the two.         *)
(***************************************************************************)
EXTENDS TournamentLifecycle, FiniteSetTheorems, TLAPS

(* The operations of a start between its claim and its last write.         *)
Claimed == Drawing \cup {"Undo", "Reopen"}

Holds(r) == job[r].op \in Claimed

(* The jobs a request can be at: the one that takes a seat has a player.   *)
JobType ==
    {j \in [op : Ops, roster : SUBSET Player, old : BOOLEAN, found : SUBSET Player,
            p : Winner, to : Status] : j.op = "Seat" => j.p \in Player}

JobsTyped == job \in [Request -> JobType]

ClaimInv ==
    /\ \A r \in Request : job[r].op # "SetStatus"
    /\ \A r \in Request : Holds(r) => status \notin {"UPCOMING", "OPEN"}
    /\ \A r, s \in Request : Holds(r) /\ Holds(s) => r = s

(* The bye of the round that stands has been credited: deleting it may     *)
(* take one back.                                                          *)
ByeCredited == benched # NoPlayer => byes[benched] > 0

TypeInv == TypeOK /\ ByeCredited /\ JobsTyped

---------------------------------------------------------------------------
(* What the jobs are made of.                                              *)
LEMMA JobTyped ==
    ASSUME NEW op \in Ops \ {"Seat"}
    PROVE  Job(op) \in JobType
  BY DEF Job, JobType, Winner, Status

(* An idle request is typed.                                               *)
LEMMA IdleTyped == Idle \in JobType /\ Idle.op = "Idle"
  BY JobTyped DEF Idle, Ops, Job

(* A step of one request: its job is replaced by another of the same type. *)
LEMMA ThenTyped ==
    ASSUME TypeInv, NEW r \in Request, NEW op \in Ops \ {"Seat"}, Then(r, op)
    PROVE  \E j \in JobType : /\ j.op = op /\ j.roster = job[r].roster
                              /\ job' = [job EXCEPT ![r] = j]
<1>1. job' = [job EXCEPT ![r] = [job[r] EXCEPT !.op = op]]
  BY DEF Then
<1>2. job[r] \in JobType
  BY DEF TypeInv, JobsTyped
<1>3. [job[r] EXCEPT !.op = op] \in JobType
  BY <1>2 DEF JobType
<1>4. [job[r] EXCEPT !.op = op].op = op
      /\ [job[r] EXCEPT !.op = op].roster = job[r].roster
  BY <1>2 DEF JobType
<1> QED
  BY <1>1, <1>3, <1>4

(* Replacing one job by another of the type leaves the jobs typed.         *)
LEMMA JobReplaced ==
    ASSUME TypeInv, NEW r \in Request, NEW j \in JobType, job' = [job EXCEPT ![r] = j]
    PROVE  JobsTyped'
  BY DEF TypeInv, JobsTyped

(* The three ways a request moves on keep the jobs typed.                  *)
LEMMA ThenKeeps ==
    ASSUME TypeInv, NEW r \in Request, NEW op \in Ops \ {"Seat"}, Then(r, op)
    PROVE  JobsTyped'
  BY ThenTyped, JobReplaced

(* A request that returns is idle, which is typed.                         *)
LEMMA ReturnKeeps ==
    ASSUME TypeInv, NEW r \in Request, Return(r)
    PROVE  JobsTyped'
  BY IdleTyped, JobReplaced DEF Return

(* A request begins with a typed job.                                      *)
LEMMA BeginsKeeps ==
    ASSUME TypeInv, NEW r \in Request, NEW route, NEW j \in JobType, Begins(r, route, j)
    PROVE  JobsTyped'
  BY JobReplaced DEF Begins, Called

(* The rows of the tournament are typed.                                   *)
RowsTyped ==
    /\ plan \in Plans
    /\ status \in Status
    /\ entrants \subseteq Player /\ placed \subseteq Player
    /\ round \in Request \cup {Nobody}
    /\ benched \in Winner /\ final \in Winner /\ champion \in Winner
    /\ byes \in [Player -> Nat] /\ played \in [Player -> Nat] /\ won \in [Player -> Nat]
    /\ failures \in Nat /\ resets \in Nat
    /\ ByeCredited

(* The type invariant is that of the rows and that of the jobs.            *)
LEMMA Apart == TypeInv <=> RowsTyped /\ JobsTyped
  BY DEF TypeInv, TypeOK, RowsTyped, JobsTyped, JobType

(* The same of the next state.                                             *)
LEMMA ApartNext == TypeInv' <=> RowsTyped' /\ JobsTyped'
  BY DEF TypeInv, TypeOK, RowsTyped, JobsTyped, JobType

(* The type invariant holds initially.                                     *)
LEMMA InitTyped == Init => TypeInv
  BY IdleTyped DEF Init, TypeInv, TypeOK, ByeCredited, JobsTyped, JobType, Winner, Status

(* SetStatus keeps the rows and the jobs typed.                            *)
LEMMA SetStatusTyped ==
    ASSUME TypeInv, NEW r \in Request, SetStatus(r)
    PROVE  TypeInv'
<1>1. RowsTyped
  BY Apart
<1>2. JobsTyped'
  BY ReturnKeeps DEF SetStatus, TypeInv
<1>3. RowsTyped'
  BY <1>1, Apart DEF SetStatus, RowsTyped, ByeCredited, bracket, awards, JobsTyped, JobType
<1> QED
  BY <1>2, <1>3, ApartNext

(* Seat keeps the rows and the jobs typed.                                 *)
LEMMA SeatTyped ==
    ASSUME TypeInv, NEW r \in Request, Seat(r)
    PROVE  TypeInv'
<1>1. RowsTyped
  BY Apart
<1>2. JobsTyped'
  BY ReturnKeeps DEF Seat, TypeInv
<1>3. RowsTyped'
  BY <1>1, Apart DEF Seat, RowsTyped, ByeCredited, bracket, awards, JobsTyped, JobType, Winner, Runs
<1> QED
  BY <1>2, <1>3, ApartNext

(* Unseat keeps the rows and the jobs typed.                               *)
LEMMA UnseatTyped ==
    ASSUME TypeInv, NEW r \in Request, Unseat(r)
    PROVE  TypeInv'
<1>1. RowsTyped
  BY Apart
<1>2. JobsTyped'
  BY ReturnKeeps DEF Unseat, TypeInv
<1>3. RowsTyped'
  BY <1>1, Apart DEF Unseat, RowsTyped, ByeCredited, bracket, awards
<1> QED
  BY <1>2, <1>3, ApartNext

(* Reopen keeps the rows and the jobs typed.                               *)
LEMMA ReopenTyped ==
    ASSUME TypeInv, NEW r \in Request, Reopen(r)
    PROVE  TypeInv'
<1>1. RowsTyped
  BY Apart
<1>2. JobsTyped'
  BY ReturnKeeps DEF Reopen, TypeInv
<1>3. RowsTyped'
  BY <1>1, Apart DEF Reopen, RowsTyped, ByeCredited, bracket, awards, Status
<1> QED
  BY <1>2, <1>3, ApartNext

(* Announce keeps the rows and the jobs typed.                             *)
LEMMA AnnounceTyped ==
    ASSUME TypeInv, NEW r \in Request, Announce(r)
    PROVE  TypeInv'
<1>1. RowsTyped
  BY Apart
<1>2. JobsTyped'
  BY ReturnKeeps DEF Announce, TypeInv
<1>3. RowsTyped'
  BY <1>1, Apart DEF Announce, RowsTyped, ByeCredited, bracket, awards, Status
<1> QED
  BY <1>2, <1>3, ApartNext

(* Pay keeps the rows and the jobs typed.                                  *)
LEMMA PayTyped ==
    ASSUME TypeInv, NEW r \in Request, Pay(r)
    PROVE  TypeInv'
<1>1. RowsTyped
  BY Apart
<1>2. JobsTyped'
  BY ReturnKeeps DEF Pay, TypeInv
<1>3. RowsTyped'
  BY <1>1, Apart DEF Pay, RowsTyped, ByeCredited, bracket, awards, Status, Raise, JobsTyped, JobType, Winner
<1> QED
  BY <1>2, <1>3, ApartNext

(* Delete keeps the rows and the jobs typed.                               *)
LEMMA DeleteTyped ==
    ASSUME TypeInv, NEW r \in Request, Delete(r)
    PROVE  TypeInv'
<1>1. RowsTyped
  BY Apart
<1>2. JobsTyped'
  BY ReturnKeeps DEF Delete, TypeInv
<1>3. RowsTyped'
  BY <1>1, Apart DEF Delete, RowsTyped, ByeCredited, bracket, awards, Status, Emptied, Winner
<1> QED
  BY <1>2, <1>3, ApartNext

(* Claim keeps the rows and the jobs typed.                                *)
LEMMA ClaimTyped ==
    ASSUME TypeInv, NEW r \in Request, Claim(r)
    PROVE  TypeInv'
<1>1. RowsTyped
  BY Apart
<1>2. JobsTyped'
  BY ThenKeeps, ReturnKeeps DEF Claim, Ops, Drawing
<1>3. RowsTyped'
  BY <1>1, Apart DEF Claim, RowsTyped, ByeCredited, bracket, awards, Status
<1> QED
  BY <1>2, <1>3, ApartNext

(* Discard keeps the rows and the jobs typed.                              *)
LEMMA DiscardTyped ==
    ASSUME TypeInv, NEW r \in Request, Discard(r)
    PROVE  TypeInv'
<1>1. RowsTyped
  BY Apart
<1>2. JobsTyped'
  BY ThenKeeps, ReturnKeeps DEF Discard, Ops, Drawing
<1>3. RowsTyped'
  BY <1>1, Apart DEF Discard, RowsTyped, ByeCredited, bracket, awards, Emptied, Winner
<1> QED
  BY <1>2, <1>3, ApartNext

(* Round keeps the rows and the jobs typed.                                *)
LEMMA RoundTyped ==
    ASSUME TypeInv, NEW r \in Request, Round(r)
    PROVE  TypeInv'
<1>1. RowsTyped
  BY Apart
<1>2. JobsTyped'
  BY ThenKeeps, ReturnKeeps DEF Round, Ops, Drawing
<1>3. RowsTyped'
  BY <1>1, Apart DEF Round, RowsTyped, ByeCredited, bracket, awards
<1> QED
  BY <1>2, <1>3, ApartNext

(* Verify keeps the rows and the jobs typed.                               *)
LEMMA VerifyTyped ==
    ASSUME TypeInv, NEW r \in Request, Verify(r)
    PROVE  TypeInv'
<1>1. RowsTyped
  BY Apart
<1>2. JobsTyped'
  BY ThenKeeps, ReturnKeeps DEF Verify, Ops, Drawing
<1>3. RowsTyped'
  BY <1>1, Apart DEF Verify, RowsTyped, ByeCredited, bracket, awards
<1> QED
  BY <1>2, <1>3, ApartNext

(* Fail keeps the rows and the jobs typed.                                 *)
LEMMA FailTyped ==
    ASSUME TypeInv, NEW r \in Request, Fail(r)
    PROVE  TypeInv'
<1>1. RowsTyped
  BY Apart
<1>2. JobsTyped'
  BY ThenKeeps, ReturnKeeps DEF Fail, Ops, Drawing
<1>3. RowsTyped'
  BY <1>1, Apart DEF Fail, RowsTyped, ByeCredited, bracket, awards
<1> QED
  BY <1>2, <1>3, ApartNext

(* Undo keeps the rows and the jobs typed.                                 *)
LEMMA UndoTyped ==
    ASSUME TypeInv, NEW r \in Request, Undo(r)
    PROVE  TypeInv'
<1>1. RowsTyped
  BY Apart
<1>2. JobsTyped'
  BY ThenKeeps, ReturnKeeps DEF Undo, Ops, Drawing
<1>3. RowsTyped'
  BY <1>1, Apart DEF Undo, RowsTyped, ByeCredited, bracket, awards, Emptied, Winner
<1> QED
  BY <1>2, <1>3, ApartNext

(* Crown keeps the rows and the jobs typed.                                *)
LEMMA CrownTyped ==
    ASSUME TypeInv, NEW r \in Request, Crown(r)
    PROVE  TypeInv'
<1>1. RowsTyped
  BY Apart
<1>2. JobsTyped'
  BY ThenKeeps, ReturnKeeps DEF Crown, Ops, Drawing
<1>3. RowsTyped'
  BY <1>1, Apart DEF Crown, RowsTyped, ByeCredited, bracket, awards, JobsTyped, JobType
<1> QED
  BY <1>2, <1>3, ApartNext

(* Place keeps the rows and the jobs typed.                                *)
LEMMA PlaceTyped ==
    ASSUME TypeInv, NEW r \in Request, Place(r)
    PROVE  TypeInv'
<1>1. RowsTyped
  BY Apart
<1>2. JobsTyped'
  <2>1. CASE UNCHANGED job
    BY <2>1 DEF TypeInv, JobsTyped
  <2>2. CASE Then(r, "Undo") \/ Then(r, "Verify")
    BY <2>2, ThenKeeps DEF Ops, Drawing
  <2> QED
    BY <2>1, <2>2 DEF Place
<1>3. RowsTyped'
  <2> DEFINE left == job[r].roster \ placed
  <2>1. left \subseteq Player /\ NoPlayer \notin Player
    BY Apart, LifecycleAssumption DEF JobsTyped, JobType
  <2>2. CASE UNCHANGED <<placed, benched, byes>>
    BY <1>1, <2>2 DEF Place, RowsTyped, ByeCredited, awards
  <2>3. CASE \E p, q \in left : placed' = placed \cup {p, q} /\ UNCHANGED <<benched, byes>>
    BY <1>1, <2>1, <2>3 DEF Place, RowsTyped, ByeCredited, awards
  <2>4. CASE \E p \in left : /\ placed' = placed \cup {p} /\ benched' = p
                             /\ byes' = Raise(p, byes)
    <3>1. PICK p \in left : /\ placed' = placed \cup {p} /\ benched' = p
                            /\ byes' = [byes EXCEPT ![p] = @ + 1]
      BY <2>4 DEF Raise
    <3>2. p \in Player /\ byes \in [Player -> Nat]
      BY <1>1, <2>1 DEF RowsTyped
    <3>3. byes' \in [Player -> Nat] /\ byes'[p] > 0
      BY <3>1, <3>2
    <3> HIDE DEF left
    <3> QED
      BY <1>1, <3>1, <3>2, <3>3 DEF Place, RowsTyped, ByeCredited, awards, Winner
  <2> QED
    BY <2>2, <2>3, <2>4 DEF Place
<1> QED
  BY <1>2, <1>3, ApartNext

(* Complete keeps the rows and the jobs typed.                             *)
LEMMA CompleteTyped ==
    ASSUME TypeInv, NEW r \in Request, Complete(r)
    PROVE  TypeInv'
<1>1. RowsTyped
  BY Apart
<1>2. JobsTyped'
  <2>1. CASE Return(r)
    BY <2>1, ReturnKeeps
  <2>2. CASE \E w \in Winner : job' = [job EXCEPT ![r] =
                [Job("Pay") EXCEPT !.roster = entrants, !.p = w]]
    <3>1. PICK w \in Winner : job' = [job EXCEPT ![r] =
                [Job("Pay") EXCEPT !.roster = entrants, !.p = w]]
      BY <2>2
    <3>2. [Job("Pay") EXCEPT !.roster = entrants, !.p = w] \in JobType
      BY <1>1 DEF Job, JobType, Ops, RowsTyped, Status
    <3> QED
      BY <3>1, <3>2, JobReplaced
  <2>3. (IF champion # NoPlayer THEN {champion} ELSE Leaders) \subseteq Winner
    BY <1>1 DEF Leaders, RowsTyped, Winner
  <2> QED
    BY <2>1, <2>2, <2>3 DEF Complete
<1>3. RowsTyped'
  BY <1>1, Apart DEF Complete, RowsTyped, ByeCredited, bracket, awards
<1> QED
  BY <1>2, <1>3, ApartNext

(* UpdateStatus keeps the rows and the jobs typed.                         *)
LEMMA UpdateStatusTyped ==
    ASSUME TypeInv, NEW r \in Request, NEW to \in Status, UpdateStatus(r, to)
    PROVE  TypeInv'
<1>1. RowsTyped
  BY Apart
<1>2. JobsTyped'
  <2>1. [Job("SetStatus") EXCEPT !.to = to] \in JobType
    BY <1>1 DEF UpdateStatus, Job, JobType, Ops, RowsTyped, Status, Winner, Allowed
  <2> QED
    BY <2>1, BeginsKeeps DEF UpdateStatus
<1>3. RowsTyped'
  BY <1>1, Apart DEF UpdateStatus, RowsTyped, ByeCredited, bracket, awards
<1> QED
  BY <1>2, <1>3, ApartNext

(* Join keeps the rows and the jobs typed.                                 *)
LEMMA JoinTyped ==
    ASSUME TypeInv, NEW r \in Request, NEW p \in Player, Join(r, p)
    PROVE  TypeInv'
<1>1. RowsTyped
  BY Apart
<1>2. JobsTyped'
  <2>1. [Job("Seat") EXCEPT !.p = p] \in JobType
    BY <1>1 DEF Join, Job, JobType, Ops, RowsTyped, Status, Winner, Allowed
  <2> QED
    BY <2>1, BeginsKeeps DEF Join
<1>3. RowsTyped'
  BY <1>1, Apart DEF Join, RowsTyped, ByeCredited, bracket, awards
<1> QED
  BY <1>2, <1>3, ApartNext

(* Leave keeps the rows and the jobs typed.                                *)
LEMMA LeaveTyped ==
    ASSUME TypeInv, NEW r \in Request, NEW p \in Player, Leave(r, p)
    PROVE  TypeInv'
<1>1. RowsTyped
  BY Apart
<1>2. JobsTyped'
  <2>1. [Job("Unseat") EXCEPT !.p = p] \in JobType
    BY <1>1 DEF Leave, Job, JobType, Ops, RowsTyped, Status, Winner, Allowed
  <2> QED
    BY <2>1, BeginsKeeps DEF Leave
<1>3. RowsTyped'
  BY <1>1, Apart DEF Leave, RowsTyped, ByeCredited, bracket, awards
<1> QED
  BY <1>2, <1>3, ApartNext

(* StartTournament keeps the rows and the jobs typed.                      *)
LEMMA StartTournamentTyped ==
    ASSUME TypeInv, NEW r \in Request, StartTournament(r)
    PROVE  TypeInv'
<1>1. RowsTyped
  BY Apart
<1>2. JobsTyped'
  <2>1. [Job("Claim") EXCEPT !.roster = entrants, !.old = (round # Nobody),
                         !.found = placed] \in JobType
    BY <1>1 DEF StartTournament, Job, JobType, Ops, RowsTyped, Status, Winner, Allowed
  <2> QED
    BY <2>1, BeginsKeeps DEF StartTournament
<1>3. RowsTyped'
  BY <1>1, Apart DEF StartTournament, RowsTyped, ByeCredited, bracket, awards
<1> QED
  BY <1>2, <1>3, ApartNext

(* CompleteEarly keeps the rows and the jobs typed.                        *)
LEMMA CompleteEarlyTyped ==
    ASSUME TypeInv, NEW r \in Request, CompleteEarly(r)
    PROVE  TypeInv'
<1>1. RowsTyped
  BY Apart
<1>2. JobsTyped'
  <2>1. Job("Complete") \in JobType
    BY <1>1 DEF CompleteEarly, Job, JobType, Ops, RowsTyped, Status, Winner, Allowed
  <2> QED
    BY <2>1, BeginsKeeps DEF CompleteEarly
<1>3. RowsTyped'
  BY <1>1, Apart DEF CompleteEarly, RowsTyped, ByeCredited, bracket, awards
<1> QED
  BY <1>2, <1>3, ApartNext

(* DeleteTournament keeps the rows and the jobs typed.                     *)
LEMMA DeleteTournamentTyped ==
    ASSUME TypeInv, NEW r \in Request, DeleteTournament(r)
    PROVE  TypeInv'
<1>1. RowsTyped
  BY Apart
<1>2. JobsTyped'
  <2>1. [Job("Delete") EXCEPT !.p = benched] \in JobType
    BY <1>1 DEF DeleteTournament, Job, JobType, Ops, RowsTyped, Status, Winner, Allowed
  <2> QED
    BY <2>1, BeginsKeeps DEF DeleteTournament
<1>3. RowsTyped'
  BY <1>1, Apart DEF DeleteTournament, RowsTyped, ByeCredited, bracket, awards
<1> QED
  BY <1>2, <1>3, ApartNext

(* Decide keeps the rows and the jobs typed.                               *)
LEMMA DecideTyped ==
    ASSUME TypeInv, NEW r \in Request, NEW w \in Player, Decide(r, w)
    PROVE  TypeInv'
<1>1. RowsTyped
  BY Apart
<1>2. JobsTyped'
  <2>1. [Job("Crown") EXCEPT !.p = w] \in JobType
    BY <1>1 DEF Decide, Job, JobType, Ops, RowsTyped, Status, Winner, Allowed
  <2> QED
    BY <2>1, BeginsKeeps DEF Decide
<1>3. RowsTyped'
  BY <1>1, Apart DEF Decide, RowsTyped, ByeCredited, bracket, awards, Winner
<1> QED
  BY <1>2, <1>3, ApartNext

(* ResetFinal keeps the rows and the jobs typed.                           *)
LEMMA ResetFinalTyped ==
    ASSUME TypeInv, NEW r \in Request, ResetFinal(r)
    PROVE  TypeInv'
<1>1. RowsTyped
  BY Apart
<1>2. JobsTyped'
  BY DEF ResetFinal, TypeInv, JobsTyped
<1>3. RowsTyped'
  BY <1>1, Apart DEF ResetFinal, RowsTyped, ByeCredited, bracket, awards, Status, Winner
<1> QED
  BY <1>2, <1>3, ApartNext

(* Every step keeps the type invariant.                                    *)
LEMMA NextTyped == TypeInv /\ [Next]_vars => TypeInv'
<1> SUFFICES ASSUME TypeInv, [Next]_vars PROVE TypeInv'
  OBVIOUS
<1>1. CASE AutoOpen
  <2>1. RowsTyped /\ JobsTyped
    BY Apart
  <2>2. RowsTyped' /\ JobsTyped'
    BY <1>1, <2>1 DEF AutoOpen, RowsTyped, JobsTyped, ByeCredited, bracket, awards, Status
  <2> QED
    BY <2>2, ApartNext
<1>2. ASSUME NEW r \in Request, Statement(r) PROVE TypeInv'
  BY <1>2, SetStatusTyped, SeatTyped, UnseatTyped, ClaimTyped, DiscardTyped, RoundTyped,
     PlaceTyped, VerifyTyped, FailTyped, UndoTyped, ReopenTyped, AnnounceTyped,
     CrownTyped, CompleteTyped, PayTyped, DeleteTyped DEF Statement
<1>3. ASSUME NEW r \in Request,
             \/ StartTournament(r) \/ CompleteEarly(r) \/ ResetFinal(r)
             \/ DeleteTournament(r)
             \/ \E to \in Status : UpdateStatus(r, to)
             \/ \E p \in Player : Join(r, p) \/ Leave(r, p) \/ Decide(r, p)
      PROVE  TypeInv'
  BY <1>3, StartTournamentTyped, CompleteEarlyTyped, ResetFinalTyped,
     DeleteTournamentTyped, UpdateStatusTyped, JoinTyped, LeaveTyped, DecideTyped
<1>4. CASE UNCHANGED vars
  BY <1>4 DEF vars, bracket, awards, TypeInv, TypeOK, ByeCredited, JobsTyped
<1> QED
  BY <1>1, <1>2, <1>3, <1>4 DEF Next

(* The tournament keeps its types; a deletion never takes back a bye that  *)
(* was not credited.                                                       *)
THEOREM TypeCorrect == Spec => []TypeOK
<1>1. TypeInv => TypeOK
  BY DEF TypeInv
<1> QED
  BY <1>1, InitTyped, NextTyped, PTL DEF Spec

---------------------------------------------------------------------------
(* How the operation of each request changes when request r moves to op.   *)
Moves(r, op) == /\ job'[r].op = op
                /\ \A s \in Request : s # r => job'[s].op = job[s].op

(* What each way of moving on says of the operations.                      *)
LEMMA Moved ==
    ASSUME TypeInv, NEW r \in Request
    PROVE  /\ \A op : Then(r, op) => Moves(r, op)
           /\ Return(r) => Moves(r, "Idle")
           /\ \A route, j : Begins(r, route, j) => Moves(r, j.op)
           /\ \A j : job' = [job EXCEPT ![r] = j] => Moves(r, j.op)
  BY IdleTyped DEF TypeInv, JobsTyped, JobType, Then, Return, Begins, Called, Moves

(* A step that takes no claim and does not open the tournament.            *)
LEMMA Outside ==
    ASSUME ClaimInv, NEW r \in Request, NEW op, op \notin Claimed \cup {"SetStatus"},
           Moves(r, op), status' = status \/ status' \notin {"UPCOMING", "OPEN"}
    PROVE  ClaimInv'
  BY DEF ClaimInv, Holds, Moves

(* A step of the claimant that keeps its claim.                            *)
LEMMA Inside ==
    ASSUME ClaimInv, NEW r \in Request, NEW op \in Claimed, Moves(r, op), Holds(r),
           status' = status
    PROVE  ClaimInv'
<1>1. op # "SetStatus"
  BY DEF Claimed, Drawing
<1> QED
  BY <1>1 DEF ClaimInv, Holds, Moves

(* Nobody holds a claim initially.                                         *)
LEMMA InitClaim == Init => ClaimInv
  BY DEF Init, ClaimInv, Holds, Idle, Job, Claimed, Drawing

(* The claim is taken only while nobody holds it.                          *)
LEMMA ClaimTaken ==
    ASSUME TypeInv, ClaimInv, NEW r \in Request, Claim(r)
    PROVE  ClaimInv'
<1>1. CASE status # "OPEN"
  BY <1>1, Moved, Outside DEF Claim, Claimed, Drawing
<1>2. CASE status = "OPEN"
  <2>1. \A s \in Request : ~Holds(s)
    BY <1>2 DEF ClaimInv
  <2>2. status' = "ONGOING"
    BY <1>2 DEF Claim
  <2>3. PICK op \in {"Round", "Announce", "Discard"} : Moves(r, op)
    BY <1>2, Moved DEF Claim
  <2> QED
    BY <2>1, <2>2, <2>3 DEF ClaimInv, Holds, Moves
<1> QED
  BY <1>1, <1>2

(* The tournament is opened again by the claimant, as its last write.      *)
LEMMA ClaimReleased ==
    ASSUME TypeInv, ClaimInv, NEW r \in Request, Reopen(r)
    PROVE  ClaimInv'
<1>1. Holds(r)
  BY DEF Reopen, Runs, Holds, Claimed
<1>2. Moves(r, "Idle")
  BY Moved DEF Reopen
<1>3. \A s \in Request : ~Holds(s)'
  BY <1>1, <1>2 DEF ClaimInv, Holds, Moves, Claimed, Drawing
<1> QED
  BY <1>2, <1>3 DEF ClaimInv, Moves

(* While it draws, the claimant keeps its claim or is done with it.        *)
LEMMA ClaimKept ==
    ASSUME TypeInv, ClaimInv, NEW r \in Request,
           Discard(r) \/ Round(r) \/ Place(r) \/ Verify(r) \/ Fail(r) \/ Undo(r)
    PROVE  ClaimInv'
<1>1. Holds(r)
  BY DEF Holds, Claimed, Drawing, Runs, Discard, Round, Place, Verify, Fail, Undo
<1>2. status' = status
  BY DEF Discard, Round, Place, Verify, Fail, Undo
<1>3. CASE \E op \in {"Round", "Undo", "Place", "Verify", "Reopen"} : Then(r, op)
  BY <1>1, <1>2, <1>3, Moved, Inside DEF Claimed, Drawing
<1>4. CASE Then(r, "Announce")
  BY <1>2, <1>4, Moved, Outside DEF Claimed, Drawing
<1>5. CASE UNCHANGED job
  BY <1>2, <1>5 DEF ClaimInv, Holds
<1> QED
  BY <1>3, <1>4, <1>5 DEF Discard, Round, Place, Verify, Fail, Undo

(* Complete ends, or goes on to pay.                                       *)
LEMMA CompleteOps ==
    ASSUME TypeInv, NEW r \in Request, Complete(r)
    PROVE  Moves(r, "Idle") \/ Moves(r, "Pay")
<1>1. \A w : [Job("Pay") EXCEPT !.roster = entrants, !.p = w].op = "Pay"
  BY DEF Job
<1>2. CASE Return(r)
  BY <1>2, Moved
<1>3. CASE ~Return(r)
  <2>1. PICK w : job' = [job EXCEPT ![r] = [Job("Pay") EXCEPT !.roster = entrants, !.p = w]]
    BY <1>3 DEF Complete
  <2> DEFINE j == [Job("Pay") EXCEPT !.roster = entrants, !.p = w]
  <2>2. j.op = "Pay" /\ job' = [job EXCEPT ![r] = j]
    BY <1>1, <2>1
  <2> HIDE DEF j
  <2> QED
    BY <2>2, Moved
<1> QED
  BY <1>2, <1>3

(* No other statement touches the claim.                                   *)
LEMMA OtherStatements ==
    ASSUME TypeInv, ClaimInv, NEW r \in Request,
           \/ SetStatus(r) \/ Seat(r) \/ Unseat(r) \/ Announce(r)
           \/ Crown(r) \/ Complete(r) \/ Pay(r) \/ Delete(r)
    PROVE  ClaimInv'
<1>1. ~SetStatus(r)
  BY DEF SetStatus, Runs, ClaimInv
<1>2. CASE Seat(r) \/ Unseat(r) \/ Announce(r) \/ Pay(r) \/ Delete(r)
  <2>1. Moves(r, "Idle")
    BY <1>2, Moved DEF Seat, Unseat, Announce, Pay, Delete
  <2>2. status' = status \/ status' \notin {"UPCOMING", "OPEN"}
    BY <1>2 DEF Seat, Unseat, Announce, Pay, Delete
  <2> QED
    BY <2>1, <2>2, Outside DEF Claimed, Drawing
<1>3. CASE Crown(r)
  <2>1. Moves(r, "Idle") \/ Moves(r, "Complete")
    BY <1>3, Moved DEF Crown
  <2> QED
    BY <1>3, <2>1, Outside DEF Crown, Claimed, Drawing
<1>4. CASE Complete(r)
  <2>1. Moves(r, "Idle") \/ Moves(r, "Pay")
    BY <1>4, CompleteOps
  <2> QED
    BY <1>4, <2>1, Outside DEF Complete, Claimed, Drawing
<1> QED
  BY <1>1, <1>2, <1>3, <1>4

(* What a request begins with.                                             *)
Begun == {"Claim", "Complete", "Delete", "Seat", "Unseat", "Crown"}

LEMMA RequestOps ==
    ASSUME TypeInv, NEW r \in Request,
           \/ StartTournament(r) \/ CompleteEarly(r) \/ ResetFinal(r)
           \/ DeleteTournament(r)
           \/ \E to \in Status : UpdateStatus(r, to)
           \/ \E p \in Player : Join(r, p) \/ Leave(r, p) \/ Decide(r, p)
    PROVE  \/ UNCHANGED job
           \/ \E op \in Begun : Moves(r, op)
           \/ ByHand /\ Moves(r, "SetStatus")
<1>1. ASSUME NEW route, NEW j, Begins(r, route, j), j.op \in Begun
      PROVE  \E op \in Begun : Moves(r, op)
  BY <1>1, Moved
<1>2. CASE StartTournament(r)
  <2> DEFINE j == [Job("Claim") EXCEPT !.roster = entrants, !.old = (round # Nobody),
                                       !.found = placed]
  <2>1. Begins(r, "start", j) /\ j.op = "Claim"
    BY <1>2 DEF StartTournament, Job
  <2> HIDE DEF j
  <2> QED
    BY <2>1, <1>1 DEF Begun
<1>3. CASE CompleteEarly(r) \/ DeleteTournament(r)
  <2> DEFINE j == [Job("Delete") EXCEPT !.p = benched]
  <2>1. Job("Complete").op = "Complete" /\ j.op = "Delete"
    BY DEF Job
  <2>2. Begins(r, "complete", Job("Complete")) \/ Begins(r, "delete", j)
    BY <1>3 DEF CompleteEarly, DeleteTournament
  <2> HIDE DEF j
  <2> QED
    BY <2>1, <2>2, <1>1 DEF Begun
<1>4. CASE \E p \in Player : Join(r, p) \/ Leave(r, p) \/ Decide(r, p)
  <2>1. PICK p \in Player : Join(r, p) \/ Leave(r, p) \/ Decide(r, p)
    BY <1>4
  <2> DEFINE j(op) == [Job(op) EXCEPT !.p = p]
  <2>2. \A op : j(op).op = op
    BY DEF Job
  <2>3. \/ Begins(r, "join", j("Seat")) \/ Begins(r, "leave", j("Unseat"))
        \/ Begins(r, "result", j("Crown"))
    BY <2>1 DEF Join, Leave, Decide
  <2> HIDE DEF j
  <2> QED
    BY <2>2, <2>3, <1>1 DEF Begun
<1>5. CASE \E to \in Status : UpdateStatus(r, to)
  <2>1. PICK to \in Status : UpdateStatus(r, to)
    BY <1>5
  <2> DEFINE j == [Job("SetStatus") EXCEPT !.to = to]
  <2>2. Begins(r, "status", j) /\ j.op = "SetStatus"
    BY <2>1 DEF UpdateStatus, Job
  <2>3. ByHand
    BY <2>2 DEF Begins, Called, ByHand
  <2> HIDE DEF j
  <2> QED
    BY <2>2, <2>3, Moved
<1>6. CASE ResetFinal(r)
  BY <1>6 DEF ResetFinal
<1> QED
  BY <1>2, <1>3, <1>4, <1>5, <1>6

(* Requests begin outside the claim.                                       *)
LEMMA RequestsBegin ==
    ASSUME TypeInv, ClaimInv, ~ByHand, NEW r \in Request,
           \/ StartTournament(r) \/ CompleteEarly(r) \/ ResetFinal(r)
           \/ DeleteTournament(r)
           \/ \E to \in Status : UpdateStatus(r, to)
           \/ \E p \in Player : Join(r, p) \/ Leave(r, p) \/ Decide(r, p)
    PROVE  ClaimInv'
<1>1. status' = status \/ status' \notin {"UPCOMING", "OPEN"}
  BY DEF StartTournament, CompleteEarly, ResetFinal, DeleteTournament, UpdateStatus, Join,
     Leave, Decide
<1>2. CASE UNCHANGED job
  BY <1>1, <1>2 DEF ClaimInv, Holds
<1>3. CASE \E op \in Begun : Moves(r, op)
  BY <1>1, <1>3, Outside DEF Begun, Claimed, Drawing
<1> QED
  BY <1>2, <1>3, RequestOps

(* Every step keeps the claim, where the status is not set by hand.        *)
LEMMA NextClaim ==
    ASSUME ~ByHand
    PROVE  TypeInv /\ ClaimInv /\ [Next]_vars => ClaimInv'
<1> SUFFICES ASSUME TypeInv, ClaimInv, [Next]_vars PROVE ClaimInv'
  OBVIOUS
<1>1. CASE AutoOpen
  BY <1>1 DEF AutoOpen, ClaimInv, Holds
<1>2. ASSUME NEW r \in Request, Statement(r) PROVE ClaimInv'
  BY <1>2, ClaimTaken, ClaimReleased, ClaimKept, OtherStatements DEF Statement
<1>3. CASE UNCHANGED vars
  BY <1>3 DEF vars, ClaimInv, Holds
<1> QED
  BY <1>1, <1>2, <1>3, RequestsBegin DEF Next

(* What is explored does not change.                                       *)
LEMMA PlanFixed == [Next]_vars => plan' = plan
<1>1. ASSUME NEW r \in Request, Statement(r) PROVE plan' = plan
  BY <1>1 DEF Statement, SetStatus, Seat, Unseat, Claim, Discard, Round, Place, Verify,
     Fail, Undo, Reopen, Announce, Crown, Complete, Pay, Delete
<1>2. ASSUME NEW r \in Request,
             \/ StartTournament(r) \/ CompleteEarly(r) \/ ResetFinal(r)
             \/ DeleteTournament(r)
             \/ \E to \in Status : UpdateStatus(r, to)
             \/ \E p \in Player : Join(r, p) \/ Leave(r, p) \/ Decide(r, p)
      PROVE  plan' = plan
  BY <1>2 DEF StartTournament, CompleteEarly, ResetFinal, DeleteTournament, UpdateStatus,
     Join, Leave, Decide
<1> QED
  BY <1>1, <1>2 DEF Next, AutoOpen, vars

(* Unless the status is set by hand, two starts never draw a bracket at    *)
(* the same time: the claim of startTournament, and the order in which a   *)
(* failed start discards and reopens, see to it.                           *)
THEOREM OnlyOneDraws == Spec => []OneGenerator
<1> DEFINE IInv == TypeInv /\ (~ByHand => ClaimInv)
<1>1. Init => IInv
  BY InitTyped, InitClaim
<1>2. IInv /\ [Next]_vars => IInv'
  BY NextTyped, NextClaim, PlanFixed DEF ByHand
<1>3. IInv => OneGenerator
  BY DEF ClaimInv, OneGenerator, Holds, Claimed
<1> QED
  BY <1>1, <1>2, <1>3, PTL DEF Spec

---------------------------------------------------------------------------
(* One request at a time.  Only requests of the crowd do anything.         *)
CrowdInv == \A r \in Request : job[r].op # "Idle" => r \in plan.crowd

Bare == round = Nobody /\ placed = {} /\ final = NoPlayer

(* What a request that is the only one may rely on, by its next statement. *)
Steady(r) ==
    LET j == job[r] IN
    /\ j.op \in {"Claim", "Round", "Place", "Verify", "Announce"} =>
          j.roster = entrants /\ Cardinality(entrants) >= 2
    /\ j.op \in {"Claim", "Seat", "Unseat"} => status = "OPEN"
    /\ j.op = "Claim" => ~j.old
    /\ j.op # "Discard"
    /\ j.op \in {"Round", "Place", "Verify", "Undo", "Reopen", "Announce"} =>
          status = "ONGOING"
    /\ j.op \in {"Round", "Reopen"} => Bare
    /\ j.op = "Place" => round = r /\ placed \subseteq entrants
    /\ j.op \in {"Verify", "Announce"} => placed = entrants
    /\ j.op = "SetStatus" => <<status, j.to>> \in Allowed \cup {<<"OPEN", "OPEN">>}
    /\ j.op \in {"Pay", "Delete"} => status \notin {"COMPLETED", "DELETED"}

(* A tournament that can be started has no bracket, and a bracket nobody   *)
(* is drawing or undoing seats the entrants there are.                     *)
Settled(r) ==
    /\ status \in {"UPCOMING", "OPEN"} => Bare
    /\ job[r].op \notin Drawing \cup {"Undo"} /\ round # Nobody =>
          placed = entrants /\ Cardinality(entrants) >= 2
    /\ placed # {} \/ final # NoPlayer => round # Nobody

AloneInv == \A r \in Request : plan.crowd = {r} => Steady(r) /\ Settled(r)

(* What a request remembers after it has moved on, or returned.            *)
LEMMA ThenJob ==
    ASSUME TypeInv, NEW r \in Request, NEW op, Then(r, op)
    PROVE  /\ job'[r].op = op /\ job'[r].roster = job[r].roster /\ job'[r].to = job[r].to
           /\ job'[r].old = job[r].old /\ job'[r].p = job[r].p
<1>1. job'[r] = [job[r] EXCEPT !.op = op]
  BY DEF TypeInv, JobsTyped, Then
<1>2. job[r] \in JobType
  BY DEF TypeInv, JobsTyped
<1> QED
  BY <1>1, <1>2 DEF JobType

LEMMA ReturnJob ==
    ASSUME TypeInv, NEW r \in Request, Return(r)
    PROVE  job'[r].op = "Idle"
  BY DEF TypeInv, JobsTyped, Return, Idle, Job

(* The statements of a start.                                              *)
LEMMA DrawSteady ==
    ASSUME TypeInv, NEW r \in Request, Steady(r), Settled(r),
           \/ Claim(r) \/ Discard(r) \/ Round(r) \/ Place(r) \/ Verify(r) \/ Fail(r)
           \/ Undo(r) \/ Reopen(r) \/ Announce(r)
    PROVE  Steady(r)' /\ Settled(r)'
<1> USE LifecycleAssumption
<1>1. CASE Claim(r)
  <2>1. Then(r, "Round") /\ status' = "ONGOING"
    BY <1>1 DEF Claim, Runs, Steady
  <2> QED
    BY <1>1, <2>1, ThenJob DEF Claim, Runs, Steady, Settled, Bare, Drawing, bracket
<1>2. ~Discard(r)
  BY DEF Discard, Runs, Steady
<1>3. CASE Round(r)
  <2>1. Then(r, "Place") /\ round' = r
    BY <1>3 DEF Round, Runs, Steady, Bare
  <2> QED
    BY <1>3, <2>1, ThenJob DEF Round, Runs, Steady, Settled, Bare, Drawing
<1>4. CASE Place(r)
  <2>1. CASE UNCHANGED job
    BY <1>4, <2>1 DEF Place, Runs, Steady, Settled, Bare, Drawing
  <2>2. CASE Then(r, "Verify") /\ placed' = placed /\ job[r].roster \ placed = {}
    <3>1. placed = entrants /\ round = r /\ round' = r /\ status = "ONGOING"
      BY <1>4, <2>2 DEF Place, Runs, Steady
    <3>2. job'[r].op = "Verify" /\ job'[r].roster = job[r].roster
      BY <2>2, ThenJob
    <3> QED
      BY <1>4, <2>2, <3>1, <3>2 DEF Place, Runs, Steady, Settled, Bare, Drawing
  <2> QED
    BY <1>4, <2>1, <2>2 DEF Place, Runs, Steady
<1>5. CASE Verify(r)
  <2>1. Then(r, "Announce")
    BY <1>5 DEF Verify, Runs, Steady
  <2> QED
    BY <1>5, <2>1, ThenJob DEF Verify, Runs, Steady, Settled, Bare, Drawing, bracket
<1>6. CASE Fail(r)
  BY <1>6, ThenJob DEF Fail, Runs, Steady, Settled, Bare, Drawing, bracket
<1>7. CASE Undo(r)
  BY <1>7, ThenJob DEF Undo, Runs, Steady, Settled, Bare, Drawing, Emptied
<1>8. CASE Reopen(r)
  BY <1>8, ReturnJob DEF Reopen, Runs, Steady, Settled, Bare, Drawing, bracket
<1>9. CASE Announce(r)
  BY <1>9, ReturnJob DEF Announce, Runs, Steady, Settled, Bare, Drawing, bracket
<1> QED
  BY <1>1, <1>2, <1>3, <1>4, <1>5, <1>6, <1>7, <1>8, <1>9

(* The other statements.                                                   *)
LEMMA StatementSteady ==
    ASSUME TypeInv, NEW r \in Request, Steady(r), Settled(r), Statement(r)
    PROVE  Steady(r)' /\ Settled(r)'
<1>1. CASE SetStatus(r)
  BY <1>1, ReturnJob DEF SetStatus, Runs, Steady, Settled, Bare, Drawing, bracket, Allowed
<1>2. CASE Seat(r) \/ Unseat(r)
  BY <1>2, ReturnJob DEF Seat, Unseat, Runs, Steady, Settled, Bare, Drawing, bracket
<1>3. CASE Crown(r)
  BY <1>3, ReturnJob, ThenJob DEF Crown, Runs, Steady, Settled, Bare, Drawing, bracket
<1>4. CASE Complete(r)
  <2>1. \/ Return(r)
        \/ /\ status \notin {"COMPLETED", "DELETED"}
           /\ \E w \in Winner : job' = [job EXCEPT ![r] =
                  [Job("Pay") EXCEPT !.roster = entrants, !.p = w]]
    BY <1>4 DEF Complete, Leaders, TypeInv, TypeOK, Winner
  <2>2. job'[r].op = "Idle" \/ (status \notin {"COMPLETED", "DELETED"} /\ job'[r].op = "Pay")
    <3>1. \A w : [Job("Pay") EXCEPT !.roster = entrants, !.p = w].op = "Pay"
      BY DEF Job
    <3>2. CASE Return(r)
      BY <3>2, ReturnJob
    <3>3. CASE ~Return(r)
      <4>1. PICK w \in Winner : job' = [job EXCEPT ![r] =
                  [Job("Pay") EXCEPT !.roster = entrants, !.p = w]]
        BY <2>1, <3>3
      <4>2. job'[r] = [Job("Pay") EXCEPT !.roster = entrants, !.p = w]
        BY <4>1 DEF TypeInv, JobsTyped
      <4> QED
        BY <2>1, <3>1, <3>3, <4>2
    <3> QED
      BY <3>2, <3>3
  <2> QED
    BY <1>4, <2>2 DEF Complete, Runs, Steady, Settled, Bare, Drawing, bracket
<1>5. CASE Pay(r)
  BY <1>5, ReturnJob DEF Pay, Runs, Steady, Settled, Bare, Drawing, bracket
<1>6. CASE Delete(r)
  BY <1>6, ReturnJob DEF Delete, Runs, Steady, Settled, Bare, Drawing, Emptied
<1> QED
  BY <1>1, <1>2, <1>3, <1>4, <1>5, <1>6, DrawSteady DEF Statement

(* The first step of a request, for the job it begins with.                *)
LEMMA BeginsJob ==
    ASSUME TypeInv, NEW r \in Request, NEW route, NEW j, Begins(r, route, j)
    PROVE  job[r].op = "Idle" /\ job'[r] = j /\ r \in plan.crowd
  BY IdleTyped DEF TypeInv, JobsTyped, Begins, Called

LEMMA RequestSteady ==
    ASSUME TypeInv, NEW r \in Request, Steady(r), Settled(r),
           \/ StartTournament(r) \/ CompleteEarly(r) \/ ResetFinal(r)
           \/ DeleteTournament(r)
           \/ \E to \in Status : UpdateStatus(r, to)
           \/ \E p \in Player : Join(r, p) \/ Leave(r, p) \/ Decide(r, p)
    PROVE  Steady(r)' /\ Settled(r)'
<1>1. CASE StartTournament(r)
  <2> DEFINE j == [Job("Claim") EXCEPT !.roster = entrants, !.old = (round # Nobody),
                                       !.found = placed]
  <2>1. j.op = "Claim" /\ j.roster = entrants /\ j.old = (round # Nobody)
    BY DEF Job
  <2>2. job[r].op = "Idle" /\ job'[r] = j
    BY <1>1, BeginsJob DEF StartTournament
  <2>3. Cardinality(entrants) >= 2
    BY <1>1 DEF StartTournament
  <2> HIDE DEF j
  <2> QED
    BY <1>1, <2>1, <2>2, <2>3 DEF StartTournament, Steady, Settled, Bare, Drawing, bracket
<1>2. CASE CompleteEarly(r) \/ DeleteTournament(r)
  <2>1. Job("Complete").op = "Complete" /\ [Job("Delete") EXCEPT !.p = benched].op = "Delete"
    BY DEF Job
  <2>2. CASE CompleteEarly(r)
    <3>1. job[r].op = "Idle" /\ job'[r].op = "Complete"
      BY <2>1, <2>2, BeginsJob DEF CompleteEarly
    <3> QED
      BY <2>2, <3>1 DEF CompleteEarly, Steady, Settled, Bare, Drawing, bracket
  <2>3. CASE DeleteTournament(r)
    <3> DEFINE j == [Job("Delete") EXCEPT !.p = benched]
    <3>1. Begins(r, "delete", j) /\ j.op = "Delete" /\ status \notin {"COMPLETED", "DELETED"}
      BY <2>1, <2>3 DEF DeleteTournament
    <3> HIDE DEF j
    <3>2. job[r].op = "Idle" /\ job'[r].op = "Delete"
      BY <3>1, BeginsJob
    <3> QED
      BY <2>3, <3>1, <3>2 DEF DeleteTournament, Steady, Settled, Bare, Drawing, bracket
  <2> QED
    BY <1>2, <2>2, <2>3
<1>3. CASE ResetFinal(r)
  <2>1. job[r].op = "Idle"
    BY <1>3, IdleTyped DEF ResetFinal, Called
  <2> QED
    BY <1>3, <2>1 DEF ResetFinal, Steady, Settled, Bare, Drawing
<1>4. CASE \E to \in Status : UpdateStatus(r, to)
  <2>1. PICK to \in Status : UpdateStatus(r, to)
    BY <1>4
  <2>2. [Job("SetStatus") EXCEPT !.to = to].op = "SetStatus"
        /\ [Job("SetStatus") EXCEPT !.to = to].to = to
    BY DEF Job
  <2>3. job[r].op = "Idle" /\ job'[r].op = "SetStatus" /\ job'[r].to = to
    BY <2>1, <2>2, BeginsJob DEF UpdateStatus
  <2> QED
    BY <2>1, <2>3 DEF UpdateStatus, Steady, Settled, Bare, Drawing, bracket
<1>5. CASE \E p \in Player : Join(r, p) \/ Leave(r, p) \/ Decide(r, p)
  <2>1. PICK p \in Player : Join(r, p) \/ Leave(r, p) \/ Decide(r, p)
    BY <1>5
  <2> DEFINE j(op) == [Job(op) EXCEPT !.p = p]
  <2>2. /\ \A op : j(op).op = op
        /\ Join(r, p) => Begins(r, "join", j("Seat"))
        /\ Leave(r, p) => Begins(r, "leave", j("Unseat"))
        /\ Decide(r, p) => Begins(r, "result", j("Crown"))
    BY DEF Job, Join, Leave, Decide
  <2> HIDE DEF j
  <2>3. job[r].op = "Idle"
    BY <2>1, <2>2, BeginsJob
  <2>4. CASE Join(r, p) \/ Leave(r, p)
    <3>1. job'[r].op \in {"Seat", "Unseat"}
      BY <2>2, <2>4, BeginsJob
    <3> QED
      BY <2>3, <2>4, <3>1 DEF Join, Leave, Steady, Settled, Bare, Drawing, bracket
  <2>5. CASE Decide(r, p)
    <3>1. job'[r].op = "Crown"
      BY <2>2, <2>5, BeginsJob
    <3> QED
      BY <2>3, <2>5, <3>1 DEF Decide, Steady, Settled, Bare, Drawing
  <2> QED
    BY <2>1, <2>4, <2>5
<1> QED
  BY <1>1, <1>2, <1>3, <1>4, <1>5
(* Requests outside the crowd stay idle.                                   *)
LEMMA CrowdKept == TypeInv /\ CrowdInv /\ [Next]_vars => CrowdInv'
<1> SUFFICES ASSUME TypeInv, CrowdInv, [Next]_vars PROVE CrowdInv'
  OBVIOUS
<1>1. plan' = plan
  BY PlanFixed
<1>2. ASSUME NEW r \in Request, Statement(r) PROVE CrowdInv'
  <2>1. job[r].op # "Idle"
    BY <1>2 DEF Statement, SetStatus, Seat, Unseat, Claim, Discard, Round, Place, Verify,
       Fail, Undo, Reopen, Announce, Crown, Complete, Pay, Delete, Runs, Drawing
  <2>2. \A s \in Request : s # r => job'[s] = job[s]
    BY <1>2 DEF Statement, SetStatus, Seat, Unseat, Claim, Discard, Round, Place, Verify,
       Fail, Undo, Reopen, Announce, Crown, Complete, Pay, Delete, Then, Return, TypeInv,
       JobsTyped
  <2> QED
    BY <1>1, <2>1, <2>2 DEF CrowdInv
<1>3. ASSUME NEW r \in Request,
             \/ StartTournament(r) \/ CompleteEarly(r) \/ ResetFinal(r)
             \/ DeleteTournament(r)
             \/ \E to \in Status : UpdateStatus(r, to)
             \/ \E p \in Player : Join(r, p) \/ Leave(r, p) \/ Decide(r, p)
      PROVE  CrowdInv'
  <2>1. r \in plan.crowd /\ \A s \in Request : s # r => job'[s] = job[s]
    BY <1>3 DEF StartTournament, CompleteEarly, ResetFinal, DeleteTournament, UpdateStatus,
       Join, Leave, Decide, Begins, Called, TypeInv, JobsTyped
  <2> QED
    BY <1>1, <2>1 DEF CrowdInv
<1>4. CASE AutoOpen \/ UNCHANGED vars
  BY <1>4 DEF AutoOpen, vars, CrowdInv
<1> QED
  BY <1>2, <1>3, <1>4 DEF Next

(* Whoever takes a step was in the crowd, and is its only member if there  *)
(* is only one.                                                            *)
LEMMA StepsInCrowd ==
    ASSUME TypeInv, CrowdInv, NEW r \in Request,
           \/ Statement(r)
           \/ StartTournament(r) \/ CompleteEarly(r) \/ ResetFinal(r)
           \/ DeleteTournament(r)
           \/ \E to \in Status : UpdateStatus(r, to)
           \/ \E p \in Player : Join(r, p) \/ Leave(r, p) \/ Decide(r, p)
    PROVE  r \in plan.crowd
<1>1. CASE Statement(r)
  <2>1. job[r].op # "Idle"
    BY <1>1 DEF Statement, SetStatus, Seat, Unseat, Claim, Discard, Round, Place, Verify,
       Fail, Undo, Reopen, Announce, Crown, Complete, Pay, Delete, Runs, Drawing
  <2> QED
    BY <2>1 DEF CrowdInv
<1>2. CASE ~Statement(r)
  BY <1>2 DEF StartTournament, CompleteEarly, ResetFinal, DeleteTournament, UpdateStatus,
     Join, Leave, Decide, Begins, Called
<1> QED
  BY <1>1, <1>2

(* One request at a time keeps what it relies on.                          *)
LEMMA NextAlone == TypeInv /\ CrowdInv /\ AloneInv /\ [Next]_vars => AloneInv'
<1> SUFFICES ASSUME TypeInv, CrowdInv, AloneInv, [Next]_vars,
                    NEW r \in Request, plan.crowd' = {r}
             PROVE  Steady(r)' /\ Settled(r)'
  BY DEF AloneInv
<1>1. plan.crowd = {r} /\ Steady(r) /\ Settled(r)
  BY PlanFixed DEF AloneInv
<1>2. CASE AutoOpen
  BY <1>1, <1>2 DEF AutoOpen, Steady, Settled, Bare, Drawing, bracket, Allowed
<1>3. CASE UNCHANGED vars
  BY <1>1, <1>3 DEF vars, bracket, awards, Steady, Settled, Bare
<1>4. ASSUME NEW s \in Request,
             \/ Statement(s)
             \/ StartTournament(s) \/ CompleteEarly(s) \/ ResetFinal(s)
             \/ DeleteTournament(s)
             \/ \E to \in Status : UpdateStatus(s, to)
             \/ \E p \in Player : Join(s, p) \/ Leave(s, p) \/ Decide(s, p)
      PROVE  Steady(r)' /\ Settled(r)'
  <2>1. s = r
    BY <1>1, <1>4, StepsInCrowd
  <2> QED
    BY <1>1, <1>4, <2>1, StatementSteady, RequestSteady
<1> QED
  BY <1>2, <1>3, <1>4 DEF Next

(* Nobody does anything yet.                                               *)
LEMMA InitAlone == Init => CrowdInv /\ AloneInv
  BY DEF Init, CrowdInv, AloneInv, Steady, Settled, Bare, Idle, Job, Drawing
(* TypeInv, CrowdInv and AloneInv together are inductive.                  *)
LEMMA SteadyForever == Spec => [](TypeInv /\ CrowdInv /\ AloneInv)
<1>1. Init => TypeInv /\ CrowdInv /\ AloneInv
  BY InitTyped, InitAlone
<1>2. TypeInv /\ CrowdInv /\ AloneInv /\ [Next]_vars => (TypeInv /\ CrowdInv /\ AloneInv)'
  BY NextTyped, CrowdKept, NextAlone
<1> QED
  BY <1>1, <1>2, PTL DEF Spec

(* One request at a time, a running tournament with a first round has      *)
(* drawn exactly its entrants, however joining, leaving, starting, failing *)
(* and opening on schedule are ordered (T 704-705).                        *)
THEOREM EntrantsAreDrawn == Spec => []EveryEntrantIsDrawn
<1>1. AloneInv => EveryEntrantIsDrawn
  BY DEF AloneInv, Settled, EveryEntrantIsDrawn, Alone, Quiet, Idle, Job, Drawing
<1> QED
  BY <1>1, SteadyForever, PTL

---------------------------------------------------------------------------
(* Any number of requests, and no status set by hand.  Only the holder of  *)
(* the claim draws or undoes: the others do not touch the round.           *)
ClearInv ==
    /\ status \in {"UPCOMING", "OPEN"} => round = Nobody /\ placed = {}
    /\ \A r \in Request : job[r].op = "Reopen" => round = Nobody /\ placed = {}

LEMMA NextClear ==
    ASSUME ~ByHand
    PROVE  TypeInv /\ ClaimInv /\ ClearInv /\ [Next]_vars => ClearInv'
<1> SUFFICES ASSUME TypeInv, ClaimInv, ClearInv, [Next]_vars PROVE ClearInv'
  OBVIOUS
<1>1. CASE AutoOpen
  BY <1>1 DEF AutoOpen, ClearInv, bracket
<1>2. CASE UNCHANGED vars
  BY <1>2 DEF vars, bracket, ClearInv
<1>3. ASSUME NEW r \in Request, Undo(r) \/ Discard(r) \/ Delete(r)
      PROVE  ClearInv'
  BY <1>3 DEF Undo, Discard, Delete, Emptied, ClearInv
<1>4. ASSUME NEW r \in Request, Round(r) \/ Place(r)
      PROVE  ClearInv'
  <2>1. Holds(r) /\ job[r].op # "Reopen"
    BY <1>4 DEF Round, Place, Runs, Holds, Claimed, Drawing
  <2>2. status \notin {"UPCOMING", "OPEN"} /\ status' = status
    BY <1>4, <2>1 DEF Round, Place, ClaimInv
  <2>3. \A s \in Request : job[s].op # "Reopen"
    BY <2>1 DEF ClaimInv, Holds, Claimed
  <2>4. \/ UNCHANGED job
        \/ \E op \in {"Undo", "Place", "Verify"} : Moves(r, op)
    BY <1>4, Moved DEF Round, Place
  <2>5. \A s \in Request : job'[s].op # "Reopen"
    BY <2>3, <2>4 DEF Moves
  <2> QED
    BY <2>2, <2>5 DEF ClearInv
<1>5. ASSUME NEW r \in Request, Reopen(r)
      PROVE  ClearInv'
  <2>1. Moves(r, "Idle") /\ job[r].op = "Reopen"
    BY <1>5, Moved DEF Reopen, Runs
  <2> QED
    BY <1>5, <2>1 DEF Reopen, ClearInv, Moves, bracket
<1>6. ASSUME NEW r \in Request,
             Statement(r), ~Undo(r), ~Discard(r), ~Delete(r), ~Round(r), ~Place(r), ~Reopen(r)
      PROVE  ClearInv'
  <2>1. ~SetStatus(r)
    BY DEF SetStatus, Runs, ClaimInv
  <2>2. UNCHANGED <<round, placed>>
    BY <1>6, <2>1 DEF Statement, Seat, Unseat, Claim, Verify, Fail, Announce, Crown, Complete,
       Pay, bracket
  <2>3. status' = status \/ status' \notin {"UPCOMING", "OPEN"}
    BY <1>6, <2>1 DEF Statement, Seat, Unseat, Claim, Verify, Fail, Announce, Crown, Complete,
       Pay
  <2>4. \A s \in Request : job'[s].op = "Reopen" => job[s].op = "Reopen"
    <3>1. CASE Complete(r)
      BY <3>1, CompleteOps DEF Moves
    <3>2. CASE ~Complete(r)
      <4>1. \/ Return(r)
            \/ \E op \in {"Round", "Announce", "Discard", "Undo", "Complete"} : Then(r, op)
        BY <1>6, <2>1, <3>2 DEF Statement, Seat, Unseat, Claim, Verify, Fail, Announce, Crown,
           Pay
      <4> QED
        BY <4>1, Moved DEF Moves
    <3> QED
      BY <3>1, <3>2
  <2> QED
    BY <2>2, <2>3, <2>4 DEF ClearInv
<1>7. ASSUME NEW r \in Request,
             \/ StartTournament(r) \/ CompleteEarly(r) \/ ResetFinal(r)
             \/ DeleteTournament(r)
             \/ \E to \in Status : UpdateStatus(r, to)
             \/ \E p \in Player : Join(r, p) \/ Leave(r, p) \/ Decide(r, p)
      PROVE  ClearInv'
  <2>1. UNCHANGED <<round, placed>>
    BY <1>7 DEF StartTournament, CompleteEarly, ResetFinal, DeleteTournament, UpdateStatus,
       Join, Leave, Decide, bracket
  <2>2. status' = status \/ status' \notin {"UPCOMING", "OPEN"}
    BY <1>7 DEF StartTournament, CompleteEarly, ResetFinal, DeleteTournament, UpdateStatus,
       Join, Leave, Decide
  <2>3. \A s \in Request : job'[s].op = "Reopen" => job[s].op = "Reopen"
    BY <1>7, RequestOps DEF Moves, Begun
  <2> QED
    BY <2>1, <2>2, <2>3 DEF ClearInv
<1> QED
  BY <1>1, <1>2, <1>3, <1>4, <1>5, <1>6, <1>7 DEF Next
(* A start that fails leaves nothing behind: one request at a time, or any *)
(* number of them where the status is not set by hand (startTournament,    *)
(* its claim and its catch).                                               *)
THEOREM FailedStartsLeaveNothing == Spec => []NothingLeftBehind
<1> DEFINE Inv == /\ TypeInv /\ CrowdInv /\ AloneInv
                  /\ ~ByHand => ClaimInv /\ ClearInv
<1>1. Init => Inv
  <2>1. Init => ClearInv
    BY DEF Init, ClearInv, Idle, Job
  <2> QED
    BY <2>1, InitTyped, InitAlone, InitClaim
<1>2. Inv /\ [Next]_vars => Inv'
  BY NextTyped, CrowdKept, NextAlone, NextClaim, NextClear, PlanFixed DEF ByHand
<1>3. Inv => NothingLeftBehind
  BY DEF NothingLeftBehind, ClearInv, AloneInv, Settled, Bare, Alone
<1> QED
  BY <1>1, <1>2, <1>3, PTL DEF Spec

---------------------------------------------------------------------------
(* A step of the only request of a crowd that changes the status of a      *)
(* finished tournament is the reset of its final.                          *)
LEMMA FinishedStep ==
    ASSUME TypeInv, CrowdInv, AloneInv, Next, Alone, status = "COMPLETED",
           resets' = resets
    PROVE  status' = "COMPLETED"
<1>1. PICK r \in Request : plan.crowd = {r}
  BY DEF Alone
<1>2. Steady(r)
  BY <1>1 DEF AloneInv
<1>3. ASSUME NEW s \in Request, Statement(s)
      PROVE  status' = "COMPLETED"
  <2>1. s = r
    BY <1>1, <1>3, StepsInCrowd
  <2>2. Statement(r)
    BY <1>3, <2>1
  <2> QED
    BY <1>2, <2>2 DEF Statement, SetStatus, Seat, Unseat, Claim, Discard, Round, Place, Verify,
       Fail, Undo, Reopen, Announce, Crown, Complete, Pay, Delete, Runs, Steady, Allowed
<1>4. ASSUME NEW s \in Request,
             \/ StartTournament(s) \/ CompleteEarly(s) \/ ResetFinal(s)
             \/ DeleteTournament(s)
             \/ \E to \in Status : UpdateStatus(s, to)
             \/ \E p \in Player : Join(s, p) \/ Leave(s, p) \/ Decide(s, p)
      PROVE  status' = "COMPLETED"
  <2>1. ~ResetFinal(s)
    BY DEF ResetFinal, TypeInv, TypeOK
  <2> QED
    BY <1>4, <2>1 DEF StartTournament, CompleteEarly, DeleteTournament, UpdateStatus, Join,
       Leave, Decide
<1> QED
  BY <1>3, <1>4 DEF Next, AutoOpen

(* One request at a time, a finished tournament stays finished unless its  *)
(* final is reset: no start, completion, deletion or status change that    *)
(* began before it was finished writes another status afterwards.          *)
THEOREM FinishedForGood == Spec => FinishedStaysFinished
<1>1. TypeInv /\ CrowdInv /\ AloneInv /\ [Next]_vars =>
          [Alone /\ status = "COMPLETED" /\ resets' = resets => status' = "COMPLETED"]_vars
  BY FinishedStep
<1> QED
  BY <1>1, SteadyForever, PTL DEF Spec, FinishedStaysFinished

---------------------------------------------------------------------------
(* One request at a time and no final reset yet: a tournament pays when it *)
(* is finished, and what it pays is one title among its entrants.          *)
Unpaid == \A p \in Player : played[p] = 0 /\ won[p] = 0

PaidInv == Alone /\ resets = 0 => /\ status # "COMPLETED" /\ status # "DELETED" => Unpaid
                                  /\ AwardsPaidOnce

(* A completion pays once what has not been paid.                          *)
LEMMA PayOnce ==
    ASSUME TypeInv, NEW r \in Request, Pay(r), Unpaid, status # "DELETED"
    PROVE  AwardsPaidOnce' /\ status' = "COMPLETED"
<1> DEFINE w == job[r].p
<1>1. /\ status' = "COMPLETED"
      /\ played' = [p \in Player |-> IF p \in job[r].roster THEN played[p] + 1 ELSE played[p]]
      /\ won' = IF w \in job[r].roster THEN [won EXCEPT ![w] = @ + 1] ELSE won
  BY DEF Pay, Raise
<1>2. won \in [Player -> Nat]
  BY DEF TypeInv, TypeOK
<1>3. job[r].roster \subseteq Player
  BY DEF TypeInv, JobsTyped, JobType
<1> HIDE DEF w
<1>4. \A p \in Player : played'[p] <= 1
  BY <1>1 DEF Unpaid
<1>5. \A p \in Player : won'[p] = IF p = w /\ w \in job[r].roster THEN 1 ELSE 0
  BY <1>1, <1>2, <1>3 DEF Unpaid
<1> QED
  BY <1>1, <1>4, <1>5 DEF AwardsPaidOnce

(* Nothing but a completion pays, and nothing revives a deleted tournament.*)
LEMMA OnlyPayPays ==
    ASSUME TypeInv, Next
    PROVE  /\ \/ \E r \in Request : Pay(r)
              \/ UNCHANGED awards
           /\ status = "DELETED" => status' = "DELETED"
           /\ resets' = 0 => resets = 0
<1>1. ASSUME NEW r \in Request, Statement(r)
      PROVE  /\ Pay(r) \/ UNCHANGED awards
             /\ status = "DELETED" => status' = "DELETED"
             /\ resets' = resets
  BY <1>1 DEF Statement, SetStatus, Seat, Unseat, Claim, Discard, Round, Place, Verify, Fail,
     Undo, Reopen, Announce, Crown, Complete, Pay, Delete
<1>2. ASSUME NEW r \in Request,
             \/ StartTournament(r) \/ CompleteEarly(r) \/ ResetFinal(r)
             \/ DeleteTournament(r)
             \/ \E to \in Status : UpdateStatus(r, to)
             \/ \E p \in Player : Join(r, p) \/ Leave(r, p) \/ Decide(r, p)
      PROVE  /\ UNCHANGED awards
             /\ status = "DELETED" => status' = "DELETED"
             /\ resets' = resets \/ resets' = resets + 1
  BY <1>2 DEF StartTournament, CompleteEarly, ResetFinal, DeleteTournament, UpdateStatus,
     Join, Leave, Decide
<1>3. resets \in Nat
  BY DEF TypeInv, TypeOK
<1> QED
  BY <1>1, <1>2, <1>3 DEF Next, AutoOpen

(* A step pays at most once.                                               *)
LEMMA NextPaid == TypeInv /\ CrowdInv /\ AloneInv /\ PaidInv /\ [Next]_vars => PaidInv'
<1> SUFFICES ASSUME TypeInv, CrowdInv, AloneInv, PaidInv, [Next]_vars,
                    Alone', resets' = 0
             PROVE  /\ (status # "COMPLETED" /\ status # "DELETED" => Unpaid)'
                    /\ AwardsPaidOnce'
  BY DEF PaidInv
<1>1. Alone
  BY PlanFixed DEF Alone
<1>2. CASE UNCHANGED vars
  BY <1>1, <1>2 DEF vars, awards, PaidInv, Unpaid, AwardsPaidOnce
<1>3. CASE Next
  <2>1. resets = 0
    BY <1>3, OnlyPayPays
  <2>2. AwardsPaidOnce /\ (status \notin {"COMPLETED", "DELETED"} => Unpaid)
    BY <1>1, <2>1 DEF PaidInv
  <2>3. status' \notin {"COMPLETED", "DELETED"} => status \notin {"COMPLETED", "DELETED"}
    BY <1>1, <1>3, <2>1, FinishedStep, OnlyPayPays
  <2>4. CASE UNCHANGED awards
    BY <1>1, <2>2, <2>3, <2>4 DEF awards, Unpaid, AwardsPaidOnce, Alone
  <2>5. CASE \E r \in Request : Pay(r)
    <3>1. PICK r \in Request : Pay(r)
      BY <2>5
    <3>2. r \in plan.crowd
      BY <3>1, StepsInCrowd DEF Statement
    <3>3. Steady(r)
      BY <1>1, <3>2 DEF Alone, AloneInv
    <3>4. status \notin {"COMPLETED", "DELETED"}
      BY <3>1, <3>3 DEF Steady, Pay, Runs
    <3> QED
      BY <2>2, <3>1, <3>4, PayOnce
  <2> QED
    BY <1>3, <2>4, <2>5, OnlyPayPays
<1> QED
  BY <1>2, <1>3

(* One request at a time, and until a final is reset: however a tournament *)
(* is finished, by its deciding match, by staff or by both, each entrant   *)
(* is counted once and at most one of them has won it (T 816-831).         *)
THEOREM AwardsPaidOnlyOnce == Spec => [](resets = 0 => AwardsPaidOnce)
<1> DEFINE Inv == TypeInv /\ CrowdInv /\ AloneInv /\ PaidInv
<1>1. Init => Inv
  <2>1. Init => PaidInv
    BY DEF Init, PaidInv, Unpaid, AwardsPaidOnce
  <2> QED
    BY <2>1, InitTyped, InitAlone
<1>2. Inv /\ [Next]_vars => Inv'
  BY NextTyped, CrowdKept, NextAlone, NextPaid
<1>3. Inv => (resets = 0 => AwardsPaidOnce)
  BY DEF PaidInv, AwardsPaidOnce
<1> QED
  BY <1>1, <1>2, <1>3, PTL DEF Spec

---------------------------------------------------------------------------
(* Any number of requests, the status set by hand or not.  Whoever takes   *)
(* part was allowed to join, and a start has read two entrants at least.   *)
InField(j) ==
    /\ j.op = "Seat" => j.p \in plan.field
    /\ j.op \in Drawing \cup {"Claim"} =>
          j.roster \subseteq plan.field /\ Cardinality(j.roster) >= 2

FieldInv == entrants \subseteq plan.field /\ \A r \in Request : InField(job[r])

(* A statement changes the job of its own request only.                    *)
LEMMA StatementOwn ==
    ASSUME TypeInv, NEW r \in Request, Statement(r)
    PROVE  \A s \in Request : s # r => job'[s] = job[s]
  BY DEF Statement, SetStatus, Seat, Unseat, Claim, Discard, Round, Place, Verify,
     Fail, Undo, Reopen, Announce, Crown, Complete, Pay, Delete, Then, Return, TypeInv,
     JobsTyped

(* So does the first step of a request.                                    *)
LEMMA RequestOwn ==
    ASSUME TypeInv, NEW r \in Request,
           \/ StartTournament(r) \/ CompleteEarly(r) \/ ResetFinal(r)
           \/ DeleteTournament(r)
           \/ \E to \in Status : UpdateStatus(r, to)
           \/ \E p \in Player : Join(r, p) \/ Leave(r, p) \/ Decide(r, p)
    PROVE  \A s \in Request : s # r => job'[s] = job[s]
  BY DEF StartTournament, CompleteEarly, ResetFinal, DeleteTournament, UpdateStatus,
     Join, Leave, Decide, Begins, Called, TypeInv, JobsTyped

(* A start carries what it has read from statement to statement.           *)
LEMMA StatementInField ==
    ASSUME TypeInv, FieldInv, NEW r \in Request, Statement(r)
    PROVE  InField(job[r])' /\ entrants' \subseteq plan.field
<1>1. plan' = plan
  BY DEF Statement, SetStatus, Seat, Unseat, Claim, Discard, Round, Place, Verify, Fail,
     Undo, Reopen, Announce, Crown, Complete, Pay, Delete
<1>2. ASSUME Return(r) PROVE InField(job[r])'
  BY <1>2, ReturnJob DEF InField, Drawing
<1>3. ASSUME UNCHANGED job PROVE InField(job[r])'
  BY <1>1, <1>3 DEF FieldInv, InField
<1>4. ASSUME job[r].op \in Drawing \cup {"Claim"}, NEW op \in Ops \ {"Seat"}, Then(r, op)
      PROVE  InField(job[r])'
  BY <1>1, <1>4, ThenJob DEF FieldInv, InField
<1>5. ASSUME NEW op \in {"Reopen", "Complete", "Pay"}, job'[r].op = op
      PROVE  InField(job[r])'
  BY <1>5 DEF InField, Drawing
<1>6. InField(job[r])'
  <2>1. CASE Claim(r) \/ Discard(r) \/ Round(r) \/ Place(r) \/ Verify(r) \/ Fail(r)
    <3>1. job[r].op \in Drawing \cup {"Claim"}
      BY <2>1 DEF Claim, Discard, Round, Place, Verify, Fail, Runs, Drawing
    <3>2. \/ Return(r) \/ UNCHANGED job
          \/ \E op \in {"Round", "Announce", "Discard", "Undo", "Place", "Verify"} : Then(r, op)
      BY <2>1 DEF Claim, Discard, Round, Place, Verify, Fail
    <3> QED
      BY <3>1, <3>2, <1>2, <1>3, <1>4 DEF Ops, Drawing
  <2>2. CASE Undo(r) \/ Crown(r)
    <3>1. Return(r) \/ Then(r, "Reopen") \/ Then(r, "Complete")
      BY <2>2 DEF Undo, Crown
    <3> QED
      BY <3>1, <1>2, <1>5, ThenJob
  <2>3. CASE Complete(r)
    BY <2>3, CompleteOps, <1>5 DEF Moves, InField, Drawing
  <2>4. CASE \/ SetStatus(r) \/ Seat(r) \/ Unseat(r) \/ Reopen(r) \/ Announce(r) \/ Pay(r)
             \/ Delete(r)
    BY <2>4, <1>2 DEF SetStatus, Seat, Unseat, Reopen, Announce, Pay, Delete
  <2> QED
    BY <2>1, <2>2, <2>3, <2>4 DEF Statement
<1>7. entrants' \subseteq plan.field
  <2>1. CASE Seat(r)
    <3>1. job[r].p \in plan.field
      BY <2>1 DEF Seat, Runs, FieldInv, InField
    <3> QED
      BY <2>1, <3>1 DEF Seat, FieldInv
  <2>2. CASE ~Seat(r)
    <3>1. entrants' \subseteq entrants
      BY <2>2 DEF Statement, SetStatus, Unseat, Claim, Discard, Round, Place, Verify, Fail,
         Undo, Reopen, Announce, Crown, Complete, Pay, Delete
    <3> QED
      BY <3>1 DEF FieldInv
  <2> QED
    BY <2>1, <2>2
<1> QED
  BY <1>6, <1>7

(* A start reads the entrants, and a join asks who may.                    *)
LEMMA RequestInField ==
    ASSUME TypeInv, FieldInv, NEW r \in Request,
           \/ StartTournament(r) \/ CompleteEarly(r) \/ ResetFinal(r)
           \/ DeleteTournament(r)
           \/ \E to \in Status : UpdateStatus(r, to)
           \/ \E p \in Player : Join(r, p) \/ Leave(r, p) \/ Decide(r, p)
    PROVE  InField(job[r])' /\ entrants' \subseteq plan.field
<1>1. plan' = plan /\ entrants' = entrants
  BY DEF StartTournament, CompleteEarly, ResetFinal, DeleteTournament, UpdateStatus,
     Join, Leave, Decide
<1>2. CASE StartTournament(r)
  <2> DEFINE j == [Job("Claim") EXCEPT !.roster = entrants, !.old = (round # Nobody),
                                       !.found = placed]
  <2>1. j.op = "Claim" /\ j.roster = entrants
    BY DEF Job
  <2>2. job'[r] = j
    BY <1>2, BeginsJob DEF StartTournament
  <2>3. Cardinality(entrants) >= 2
    BY <1>2 DEF StartTournament
  <2> HIDE DEF j
  <2> QED
    BY <1>1, <2>1, <2>2, <2>3 DEF InField, FieldInv
<1>3. CASE \E p \in Player : Join(r, p)
  <2>1. PICK p \in Player : Join(r, p)
    BY <1>3
  <2> DEFINE j == [Job("Seat") EXCEPT !.p = p]
  <2>2. j.op = "Seat" /\ j.p = p
    BY DEF Job
  <2>3. job'[r] = j /\ p \in plan.field
    BY <2>1, BeginsJob DEF Join
  <2> HIDE DEF j
  <2> QED
    BY <1>1, <2>2, <2>3 DEF InField, FieldInv, Drawing
<1>4. CASE ~StartTournament(r) /\ ~\E p \in Player : Join(r, p)
  <2>1. job'[r].op \notin Drawing \cup {"Claim", "Seat"} \/ UNCHANGED job
    <3>1. CASE CompleteEarly(r)
      BY <3>1, BeginsJob DEF CompleteEarly, Job, Drawing
    <3>2. CASE DeleteTournament(r)
      <4>1. [Job("Delete") EXCEPT !.p = benched].op = "Delete"
        BY DEF Job
      <4> QED
        BY <3>2, <4>1, BeginsJob DEF DeleteTournament, Drawing
    <3>3. CASE \E to \in Status : UpdateStatus(r, to)
      <4>1. \A to : [Job("SetStatus") EXCEPT !.to = to].op = "SetStatus"
        BY DEF Job
      <4>2. PICK to \in Status : UpdateStatus(r, to)
        BY <3>3
      <4>3. job'[r] = [Job("SetStatus") EXCEPT !.to = to]
        BY <4>2, BeginsJob DEF UpdateStatus
      <4> QED
        BY <4>1, <4>3 DEF Drawing
    <3>4. CASE \E p \in Player : Leave(r, p) \/ Decide(r, p)
      <4>1. /\ \A p : [Job("Unseat") EXCEPT !.p = p].op = "Unseat"
            /\ \A p : [Job("Crown") EXCEPT !.p = p].op = "Crown"
        BY DEF Job
      <4>2. PICK p \in Player : Leave(r, p) \/ Decide(r, p)
        BY <3>4
      <4>3. \/ job'[r] = [Job("Unseat") EXCEPT !.p = p]
            \/ job'[r] = [Job("Crown") EXCEPT !.p = p]
        BY <4>2, BeginsJob DEF Leave, Decide
      <4> QED
        BY <4>1, <4>3 DEF Drawing
    <3>5. CASE ResetFinal(r)
      BY <3>5 DEF ResetFinal
    <3> QED
      BY <1>4, <3>1, <3>2, <3>3, <3>4, <3>5
  <2> QED
    BY <1>1, <2>1 DEF InField, FieldInv
<1> QED
  BY <1>2, <1>3, <1>4

(* Nobody takes part who may not, and no start draws fewer than two.       *)
LEMMA NextInField == TypeInv /\ FieldInv /\ [Next]_vars => FieldInv'
<1> SUFFICES ASSUME TypeInv, FieldInv, [Next]_vars PROVE FieldInv'
  OBVIOUS
<1>1. plan' = plan
  BY PlanFixed
<1>2. CASE AutoOpen \/ UNCHANGED vars
  BY <1>1, <1>2 DEF AutoOpen, vars, FieldInv, InField
<1>3. ASSUME NEW r \in Request, Statement(r)
      PROVE  FieldInv'
  BY <1>1, <1>3, StatementOwn, StatementInField DEF FieldInv, InField
<1>4. ASSUME NEW r \in Request,
             \/ StartTournament(r) \/ CompleteEarly(r) \/ ResetFinal(r)
             \/ DeleteTournament(r)
             \/ \E to \in Status : UpdateStatus(r, to)
             \/ \E p \in Player : Join(r, p) \/ Leave(r, p) \/ Decide(r, p)
      PROVE  FieldInv'
  BY <1>1, <1>4, RequestOwn, RequestInField DEF FieldInv, InField
<1> QED
  BY <1>2, <1>3, <1>4 DEF Next

(* A field of two.  What is placed is both of them or nobody, and whoever  *)
(* created a round that is empty is still to place its matches.            *)
Duel == \E p, q \in Player : plan.field = {p, q}

DuelInv == Duel => /\ placed = {} \/ (placed = plan.field /\ Cardinality(placed) >= 2)
                   /\ round # Nobody /\ placed = {} => job[round].op \in {"Place", "Undo"}

(* Two players or more, out of a field of two, are the field.              *)
LEMMA BothOrFewer ==
    ASSUME Duel, NEW S, S \subseteq plan.field, Cardinality(S) >= 2
    PROVE  S = plan.field /\ \E p, q \in Player : p # q /\ S = {p, q}
<1>1. PICK p, q \in Player : plan.field = {p, q}
  BY DEF Duel
<1>2. S # {}
  BY FS_EmptySet
<1>3. \A x : S # {x}
  BY FS_Singleton
<1> QED
  BY <1>1, <1>2, <1>3

(* The matches of a start in a field of two are one.                       *)
LEMMA PlaceBoth ==
    ASSUME TypeInv, FieldInv, DuelInv, Duel, NEW r \in Request, Place(r), placed' # placed
    PROVE  /\ placed = {} /\ placed' = plan.field /\ Cardinality(placed') >= 2
           /\ round = r
<1>1. job[r].roster \subseteq plan.field /\ Cardinality(job[r].roster) >= 2
  BY DEF Place, Runs, FieldInv, InField, Drawing
<1>2. job[r].roster = plan.field
  BY <1>1, BothOrFewer
<1>3. PICK p, q \in Player : p # q /\ plan.field = {p, q}
  BY <1>1, <1>2, BothOrFewer
<1>4. round = r /\ job[r].roster \ placed # {}
  BY DEF Place
<1>5. placed = {}
  BY <1>2, <1>4 DEF DuelInv
<1>6. \/ \E x, y \in {p, q} : x # y /\ placed' = {x, y}
      \/ \E x \in {p, q} : {p, q} = {x}
  BY <1>2, <1>3, <1>4, <1>5 DEF Place
<1>7. placed' = {p, q}
  BY <1>3, <1>6
<1> QED
  BY <1>1, <1>2, <1>3, <1>4, <1>5, <1>7

(* Whoever is to place the matches of an empty round stays so, or is to    *)
(* undo it; whoever has placed them has placed both players.               *)
LEMMA NextDuel == TypeInv /\ FieldInv /\ DuelInv /\ [Next]_vars => DuelInv'
<1> SUFFICES ASSUME TypeInv, FieldInv, DuelInv, [Next]_vars, Duel'
             PROVE  /\ placed' = {} \/ (placed = plan.field /\ Cardinality(placed) >= 2)'
                    /\ (round # Nobody /\ placed = {})' => job'[round'].op \in {"Place", "Undo"}
  BY DEF DuelInv
<1>1. plan' = plan /\ Duel
  BY PlanFixed DEF Duel
<1>2. CASE AutoOpen \/ UNCHANGED vars
  BY <1>1, <1>2 DEF AutoOpen, vars, bracket, DuelInv
<1>3. ASSUME NEW r \in Request, Discard(r) \/ Undo(r) \/ Delete(r)
      PROVE  round' = Nobody /\ placed' = {}
  BY <1>3 DEF Discard, Undo, Delete, Emptied
<1>4. ASSUME NEW r \in Request, Round(r)
      PROVE  /\ placed' = placed
             /\ (round # Nobody /\ placed = {})' => job'[round'].op \in {"Place", "Undo"}
  <2>1. CASE round' = r /\ Then(r, "Place")
    BY <1>4, <2>1, ThenJob DEF Round
  <2>2. CASE UNCHANGED round /\ Then(r, "Undo")
    <3>1. job'[r].op = "Undo" /\ \A s \in Request : s # r => job'[s] = job[s]
      BY <1>4, <2>2, ThenJob, StatementOwn DEF Statement
    <3>2. round \in Request \cup {Nobody}
      BY DEF TypeInv, TypeOK
    <3> QED
      BY <1>1, <1>4, <2>2, <3>1, <3>2 DEF Round, DuelInv
  <2> QED
    BY <1>4, <2>1, <2>2 DEF Round
<1>5. ASSUME NEW r \in Request, Place(r), placed' # placed
      PROVE  placed' = plan.field /\ Cardinality(placed') >= 2 /\ placed' # {}
  BY <1>1, <1>5, PlaceBoth, FS_EmptySet
<1>6. ASSUME NEW r \in Request, Statement(r), UNCHANGED <<round, placed>>
      PROVE  (round # Nobody /\ placed = {})' => job'[round'].op \in {"Place", "Undo"}
  <2> SUFFICES ASSUME round # Nobody, placed = {}
               PROVE  job'[round].op \in {"Place", "Undo"}
    BY <1>6
  <2>1. round \in Request /\ job[round].op \in {"Place", "Undo"}
    BY <1>1 DEF DuelInv, TypeInv, TypeOK
  <2>2. CASE round # r
    BY <1>6, <2>1, <2>2, StatementOwn
  <2>3. CASE round = r
    <3>1. Place(r) \/ Fail(r) \/ Undo(r)
      BY <1>6, <2>1, <2>3 DEF Statement, SetStatus, Seat, Unseat, Claim, Discard, Round,
         Verify, Reopen, Announce, Crown, Complete, Pay, Delete, Runs
    <3>2. ~Undo(r)
      BY <1>6 DEF Undo, Emptied
    <3>3. CASE Fail(r)
      BY <2>3, <3>3, ThenJob DEF Fail
    <3>4. CASE Place(r)
      <4>1. job[r].roster # {}
        <5>1. Cardinality(job[r].roster) >= 2
          BY <3>4 DEF Place, Runs, FieldInv, InField, Drawing
        <5> QED
          BY <5>1, FS_EmptySet
      <4>2. UNCHANGED job
        BY <2>3, <3>4, <4>1 DEF Place
      <4> QED
        BY <2>1, <4>2
    <3> QED
      BY <3>1, <3>2, <3>3, <3>4
  <2> QED
    BY <2>2, <2>3
<1>7. ASSUME NEW r \in Request, Statement(r), ~Discard(r), ~Undo(r), ~Delete(r), ~Round(r)
      PROVE  round' = round /\ (Place(r) \/ placed' = placed)
  BY <1>7 DEF Statement, SetStatus, Seat, Unseat, Claim, Place, Verify, Fail, Reopen,
     Announce, Crown, Complete, Pay, bracket
<1>8. ASSUME NEW r \in Request, Statement(r)
      PROVE  /\ placed' = {} \/ (placed = plan.field /\ Cardinality(placed) >= 2)'
             /\ (round # Nobody /\ placed = {})' => job'[round'].op \in {"Place", "Undo"}
  <2>1. CASE Discard(r) \/ Undo(r) \/ Delete(r)
    BY <2>1, <1>3
  <2>2. CASE Round(r)
    BY <1>1, <2>2, <1>4 DEF DuelInv
  <2>3. CASE Place(r) /\ placed' # placed
    BY <1>1, <2>3, <1>5
  <2>4. CASE UNCHANGED <<round, placed>>
    BY <1>1, <1>6, <1>8, <2>4 DEF DuelInv
  <2> QED
    BY <1>7, <1>8, <2>1, <2>2, <2>3, <2>4
<1>9. ASSUME NEW r \in Request,
             \/ StartTournament(r) \/ CompleteEarly(r) \/ ResetFinal(r)
             \/ DeleteTournament(r)
             \/ \E to \in Status : UpdateStatus(r, to)
             \/ \E p \in Player : Join(r, p) \/ Leave(r, p) \/ Decide(r, p)
      PROVE  /\ placed' = {} \/ (placed = plan.field /\ Cardinality(placed) >= 2)'
             /\ (round # Nobody /\ placed = {})' => job'[round'].op \in {"Place", "Undo"}
  <2>1. UNCHANGED <<round, placed>>
    BY <1>9 DEF StartTournament, CompleteEarly, ResetFinal, DeleteTournament, UpdateStatus,
       Join, Leave, Decide, bracket
  <2>2. UNCHANGED job \/ job[r].op = "Idle"
    BY <1>9, BeginsJob DEF StartTournament, CompleteEarly, ResetFinal, DeleteTournament,
       UpdateStatus, Join, Leave, Decide
  <2>3. \A s \in Request : job[s].op # "Idle" => job'[s] = job[s]
    BY <1>9, <2>2, RequestOwn
  <2>4. round \in Request \cup {Nobody}
    BY DEF TypeInv, TypeOK
  <2> QED
    BY <1>1, <2>1, <2>3, <2>4 DEF DuelInv
<1> QED
  BY <1>2, <1>8, <1>9 DEF Next

(* However starts, failures, deletions and status changes by hand overlap, *)
(* a first round of a field of two is there with both entrants or not at   *)
(* all; one request at a time it is, for any field (T 622-625).            *)
THEOREM NoPartialRound == Spec => []WholeRoundOrNone
<1> DEFINE Inv == TypeInv /\ CrowdInv /\ AloneInv /\ FieldInv /\ DuelInv
<1>1. Init => Inv
  <2>1. Init => FieldInv /\ DuelInv
    BY DEF Init, FieldInv, DuelInv, InField, Idle, Job, Drawing
  <2> QED
    BY <2>1, InitTyped, InitAlone
<1>2. Inv /\ [Next]_vars => Inv'
  BY NextTyped, CrowdKept, NextAlone, NextInField, NextDuel
<1>3. Inv => WholeRoundOrNone
  <2>1. AloneInv /\ Alone /\ Quiet /\ round # Nobody =>
            placed = entrants /\ Cardinality(entrants) >= 2
    BY DEF AloneInv, Alone, Settled, Quiet, Idle, Job, Drawing
  <2>2. TypeInv /\ FieldInv /\ DuelInv /\ Duel /\ Quiet /\ round # Nobody =>
            Cardinality(placed) >= 2 /\ entrants \subseteq placed
    BY DEF DuelInv, FieldInv, Quiet, Idle, Job, TypeInv, TypeOK
  <2> QED
    BY <2>1, <2>2 DEF WholeRoundOrNone, Duel
<1> QED
  BY <1>1, <1>2, <1>3, PTL DEF Spec
============================================================================
