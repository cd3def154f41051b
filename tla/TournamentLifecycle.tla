------------------------ MODULE TournamentLifecycle ------------------------
(***************************************************************************)
(* One tournament from creation to completion, and deletion: registration, *)
(* the start that claims the tournament, draws the first round and undoes  *)
(* everything when that fails, and the completion that pays the awards.    *)
(*                                                                         *)
(* A request reads the tournament, decides, and writes in later statements *)
(* outside any transaction: job[r] is what request r does next, with what  *)
(* it has read.  The draw is that of a Swiss first round: pairs, and a bye *)
(* that is credited at once when the field is odd.  Of the matches played  *)
(* only the deciding one is kept: its result sets Tournament.winnerId and  *)
(* completes the tournament.  All players are registered users.            *)
(***************************************************************************)
EXTENDS Integers, FiniteSets

CONSTANTS
    Player, NoPlayer,
    Request, Nobody,
    Plans           \* what is explored, see Plan

(* crowd: the requests that may be in flight at once; routes: those that   *)
(* are called; field: the players who may join; places:                    *)
(* Tournament.maxPlayers; errors: a bound on database errors while a       *)
(* bracket is drawn; again: a bound on resets of the final.                *)
Plan(crowd, routes, field, places, errors, again) ==
    [crowd |-> crowd, routes |-> routes, field |-> field, places |-> places,
     errors |-> errors, again |-> again]

ASSUME LifecycleAssumption ==
    /\ NoPlayer \notin Player /\ Nobody \notin Request
    /\ \A p \in Plans : /\ p.crowd \subseteq Request /\ p.field \subseteq Player
                        /\ {p.places, p.errors, p.again} \subseteq Nat

VARIABLES
    plan,      \* one of Plans, fixed
    status,    \* Tournament.status, "DELETED" once the row is gone
    entrants,  \* TournamentParticipant rows
    round,     \* the row of round 1: the request that created it
    placed,    \* the players in its matches
    benched,   \* the one among them with a completed bye
    final,     \* the winner of the deciding match
    champion,  \* Tournament.winnerId
    byes,      \* bye wins on the players' records
    played,    \* UserGlobalStats.tournamentsPlayed, from this tournament
    won,       \* UserGlobalStats.tournamentsWon, from this tournament
    job,       \* what each request does next
    failures, resets

bracket == <<round, placed, benched, final>>
awards  == <<played, won>>
vars == <<plan, status, entrants, bracket, champion, byes, awards, job, failures, resets>>

Winner == Player \cup {NoPlayer}
Status == {"UPCOMING", "OPEN", "ONGOING", "COMPLETED", "DELETED"}

(* ALLOWED_TRANSITIONS.                                                    *)
Allowed == {<<"UPCOMING", "OPEN">>, <<"OPEN", "ONGOING">>, <<"ONGOING", "COMPLETED">>}

Drawing == {"Discard", "Round", "Place", "Verify"}
Ops == Drawing \cup {"Idle", "SetStatus", "Seat", "Unseat", "Claim", "Undo",
                     "Reopen", "Announce", "Crown", "Complete", "Pay", "Delete"}

(* roster: the participants that were read; old, found: whether a first    *)
(* round was read, and its players; p: a player; to: a target status.      *)
Job(op) == [op |-> op, roster |-> {}, old |-> FALSE, found |-> {}, p |-> NoPlayer,
            to |-> "OPEN"]
Idle == Job("Idle")

TypeOK ==
    /\ plan \in Plans
    /\ status \in Status
    /\ entrants \subseteq Player /\ placed \subseteq Player
    /\ round \in Request \cup {Nobody}
    /\ benched \in Winner /\ final \in Winner /\ champion \in Winner
    /\ byes \in [Player -> Nat] /\ played \in [Player -> Nat] /\ won \in [Player -> Nat]
    /\ job \in [Request -> [op : Ops, roster : SUBSET Player, old : BOOLEAN,
                            found : SUBSET Player, p : Winner, to : Status]]
    /\ failures \in Nat /\ resets \in Nat

Init ==
    /\ plan \in Plans
    /\ status = "UPCOMING"
    /\ entrants = {} /\ placed = {} /\ round = Nobody
    /\ benched = NoPlayer /\ final = NoPlayer /\ champion = NoPlayer
    /\ byes = [p \in Player |-> 0]
    /\ played = [p \in Player |-> 0] /\ won = [p \in Player |-> 0]
    /\ job = [r \in Request |-> Idle]
    /\ failures = 0 /\ resets = 0

---------------------------------------------------------------------------
Called(r, route) == r \in plan.crowd /\ route \in plan.routes /\ job[r] = Idle
Begins(r, route, j) == Called(r, route) /\ job' = [job EXCEPT ![r] = j]
Runs(r, op) == job[r].op = op
Then(r, op) == job' = [job EXCEPT ![r].op = op]
Return(r)   == job' = [job EXCEPT ![r] = Idle]
Raise(p, f) == [f EXCEPT ![p] = @ + 1]

(* updateStatus: the transition is checked against the status that was     *)
(* read, and written without a condition.                                  *)
UpdateStatus(r, to) ==
    /\ <<status, to>> \in Allowed
    /\ Begins(r, "status", [Job("SetStatus") EXCEPT !.to = to])
    /\ UNCHANGED <<plan, status, entrants, bracket, champion, byes, awards, failures, resets>>

SetStatus(r) ==
    /\ Runs(r, "SetStatus") /\ Return(r)
    /\ status' = IF status = "DELETED" THEN status ELSE job[r].to
    /\ UNCHANGED <<plan, entrants, bracket, champion, byes, awards, failures, resets>>

(* getAllTournaments opens whatever is due, in one conditional update.     *)
AutoOpen ==
    /\ status = "UPCOMING"
    /\ status' = "OPEN"
    /\ UNCHANGED <<plan, entrants, bracket, champion, byes, awards, job, failures, resets>>

(* joinTournament: the status is read first, the seat counted again and    *)
(* taken in a serializable transaction, which does not look at the status. *)
Join(r, p) ==
    /\ status = "OPEN"
    /\ Cardinality(entrants) < plan.places /\ p \in plan.field \ entrants
    /\ Begins(r, "join", [Job("Seat") EXCEPT !.p = p])
    /\ UNCHANGED <<plan, status, entrants, bracket, champion, byes, awards, failures, resets>>

Seat(r) ==
    /\ Runs(r, "Seat") /\ Return(r)
    /\ entrants' = IF Cardinality(entrants) >= plan.places \/ status = "DELETED"
                   THEN entrants ELSE entrants \cup {job[r].p}
    /\ UNCHANGED <<plan, status, bracket, champion, byes, awards, failures, resets>>

(* Mutant of Leave: the status is not asked for.                           *)
LeaveAnytime(r, p) ==
    /\ p \in entrants
    /\ Begins(r, "leave", [Job("Unseat") EXCEPT !.p = p])
    /\ UNCHANGED <<plan, status, entrants, bracket, champion, byes, awards, failures, resets>>

(* leaveTournament.                                                        *)
Leave(r, p) ==
    /\ status = "OPEN" /\ p \in entrants
    /\ Begins(r, "leave", [Job("Unseat") EXCEPT !.p = p])
    /\ UNCHANGED <<plan, status, entrants, bracket, champion, byes, awards, failures, resets>>

Unseat(r) ==
    /\ Runs(r, "Unseat") /\ Return(r)
    /\ entrants' = entrants \ {job[r].p}
    /\ UNCHANGED <<plan, status, bracket, champion, byes, awards, failures, resets>>

---------------------------------------------------------------------------
(* startTournament: validate, then claim with a conditional update.        *)
StartTournament(r) ==
    /\ status = "OPEN" /\ Cardinality(entrants) >= 2
    /\ Begins(r, "start", [Job("Claim") EXCEPT !.roster = entrants,
                                            !.old = (round # Nobody), !.found = placed])
    /\ UNCHANGED <<plan, status, entrants, bracket, champion, byes, awards, failures, resets>>

(* Mutant of Claim: the update has no condition on the status.             *)
ClaimUnconditional(r) ==
    /\ Runs(r, "Claim")
    /\ status' = "ONGOING"
    /\ Then(r, IF ~job[r].old THEN "Round"
               ELSE IF job[r].roster \subseteq job[r].found THEN "Announce"
               ELSE "Discard")
    /\ UNCHANGED <<plan, entrants, bracket, champion, byes, awards, failures, resets>>

(* A complete round left by an earlier attempt is reused, any other is     *)
(* discarded.                                                              *)
Claim(r) ==
    /\ Runs(r, "Claim")
    /\ IF status # "OPEN" THEN Return(r) /\ UNCHANGED status
       ELSE /\ status' = "ONGOING"
            /\ Then(r, IF ~job[r].old THEN "Round"
                       ELSE IF job[r].roster \subseteq job[r].found THEN "Announce"
                       ELSE "Discard")
    /\ UNCHANGED <<plan, entrants, bracket, champion, byes, awards, failures, resets>>

(* discardGeneratedBracket, one transaction.                               *)
Emptied == round' = Nobody /\ placed' = {} /\ benched' = NoPlayer /\ final' = NoPlayer

Discard(r) ==
    /\ Runs(r, "Discard") /\ Then(r, "Round")
    /\ Emptied
    /\ UNCHANGED <<plan, status, entrants, champion, byes, awards, failures, resets>>

(* A second row of the same round number violates a unique index.          *)
Round(r) ==
    /\ Runs(r, "Round")
    /\ IF round # Nobody \/ status = "DELETED" THEN Then(r, "Undo") /\ UNCHANGED round
       ELSE Then(r, "Place") /\ round' = r
    /\ UNCHANGED <<plan, status, entrants, placed, benched, final, champion, byes, awards,
                   failures, resets>>

(* The matches are written one by one, pairs first; the last of an odd     *)
(* field has a bye, completed and credited as soon as it is written.  A    *)
(* match of a round that has been discarded violates a foreign key.        *)
Place(r) ==
    /\ Runs(r, "Place")
    /\ LET left == job[r].roster \ placed
           pair(p, q) == placed' = placed \cup {p, q} /\ UNCHANGED <<benched, byes>>
           bench(p)   == placed' = placed \cup {p} /\ benched' = p /\ byes' = Raise(p, byes)
       IN  IF round # r THEN Then(r, "Undo") /\ UNCHANGED <<placed, benched, byes>>
           ELSE IF left = {} THEN Then(r, "Verify") /\ UNCHANGED <<placed, benched, byes>>
           ELSE /\ UNCHANGED job
                /\ \/ \E p, q \in left : p # q /\ pair(p, q)
                   \/ \E p \in left : left = {p} /\ bench(p)
    /\ UNCHANGED <<plan, status, entrants, round, final, champion, awards, failures, resets>>

(* isFirstRoundComplete.                                                   *)
Verify(r) ==
    /\ Runs(r, "Verify")
    /\ Then(r, IF job[r].roster \subseteq placed THEN "Announce" ELSE "Undo")
    /\ UNCHANGED <<plan, status, entrants, bracket, champion, byes, awards, failures, resets>>

(* Any write of the draw may fail; the catch discards and reopens.         *)
Fail(r) ==
    /\ job[r].op \in Drawing /\ failures < plan.errors
    /\ failures' = failures + 1
    /\ Then(r, "Undo")
    /\ UNCHANGED <<plan, status, entrants, bracket, champion, byes, awards, resets>>

(* Mutant of Undo: only the status is put back.                            *)
UndoNothing(r) ==
    /\ Runs(r, "Undo") /\ Then(r, "Reopen")
    /\ UNCHANGED <<plan, status, entrants, bracket, champion, byes, awards, failures, resets>>

Undo(r) ==
    /\ Runs(r, "Undo") /\ Then(r, "Reopen")
    /\ Emptied
    /\ UNCHANGED <<plan, status, entrants, champion, byes, awards, failures, resets>>

Reopen(r) ==
    /\ Runs(r, "Reopen") /\ Return(r)
    /\ status' = IF status = "DELETED" THEN status ELSE "OPEN"
    /\ UNCHANGED <<plan, entrants, bracket, champion, byes, awards, failures, resets>>

(* updateStatusInternal writes ONGOING again before it announces it.       *)
Announce(r) ==
    /\ Runs(r, "Announce") /\ Return(r)
    /\ status' = IF status = "DELETED" THEN status ELSE "ONGOING"
    /\ UNCHANGED <<plan, entrants, bracket, champion, byes, awards, failures, resets>>

---------------------------------------------------------------------------
(* The deciding match gets its result; nothing asks for the tournament's   *)
(* status.                                                                 *)
Decide(r, w) ==
    /\ w \in placed /\ final = NoPlayer
    /\ \A s \in Request : Runs(s, "Place") => job[s].roster \subseteq placed
    /\ Begins(r, "result", [Job("Crown") EXCEPT !.p = w])
    /\ final' = w
    /\ UNCHANGED <<plan, status, entrants, round, placed, benched, champion, byes, awards,
                   failures, resets>>

(* checkSingleEliminationComplete and its like: the winner first ...       *)
Crown(r) ==
    /\ Runs(r, "Crown")
    /\ IF status = "DELETED" THEN Return(r) /\ UNCHANGED champion
       ELSE champion' = job[r].p /\ Then(r, "Complete")
    /\ UNCHANGED <<plan, status, entrants, bracket, byes, awards, failures, resets>>

(* ... then completeTournament, which staff may also call at any time.     *)
CompleteEarly(r) ==
    /\ Begins(r, "complete", Job("Complete"))
    /\ UNCHANGED <<plan, status, entrants, bracket, champion, byes, awards, failures, resets>>

(* Who leads if the tournament ends without a winner: the placements of    *)
(* the matches played so far, which may put anybody first.                 *)
Leaders == IF final # NoPlayer THEN {final}
           ELSE IF entrants = {} THEN {NoPlayer} ELSE entrants

(* Mutant of Complete: a completed tournament is completed again.          *)
CompleteAgain(r) ==
    /\ Runs(r, "Complete")
    /\ IF status = "DELETED" THEN Return(r)
       ELSE \E w \in IF champion # NoPlayer THEN {champion} ELSE Leaders :
              job' = [job EXCEPT ![r] = [Job("Pay") EXCEPT !.roster = entrants, !.p = w]]
    /\ UNCHANGED <<plan, status, entrants, bracket, champion, byes, awards, failures, resets>>

Complete(r) ==
    /\ Runs(r, "Complete")
    /\ IF status \in {"COMPLETED", "DELETED"} THEN Return(r)
       ELSE \E w \in IF champion # NoPlayer THEN {champion} ELSE Leaders :
              job' = [job EXCEPT ![r] = [Job("Pay") EXCEPT !.roster = entrants, !.p = w]]
    /\ UNCHANGED <<plan, status, entrants, bracket, champion, byes, awards, failures, resets>>

(* One transaction writes the status, the winner and every award.          *)
Pay(r) ==
    /\ Runs(r, "Pay") /\ Return(r)
    /\ IF status = "DELETED" THEN UNCHANGED <<status, champion, awards>>
       ELSE LET w == job[r].p
            IN  /\ status' = "COMPLETED"
                /\ champion' = IF w = NoPlayer THEN champion ELSE w
                /\ played' = [p \in Player |->
                      IF p \in job[r].roster THEN played[p] + 1 ELSE played[p]]
                /\ won' = IF w \in job[r].roster THEN Raise(w, won) ELSE won
    /\ UNCHANGED <<plan, entrants, bracket, byes, failures, resets>>

(* resetMatch on the deciding match reopens a completed tournament.        *)
ResetFinal(r) ==
    /\ Called(r, "reset") /\ resets < plan.again
    /\ final # NoPlayer
    /\ final' = NoPlayer
    /\ status' = IF status = "COMPLETED" THEN "ONGOING" ELSE status
    /\ champion' = IF status = "COMPLETED" THEN NoPlayer ELSE champion
    /\ resets' = resets + 1
    /\ UNCHANGED <<plan, entrants, round, placed, benched, byes, awards, job, failures>>

(* Mutant of DeleteTournament: a finished tournament is not refused.       *)
DeleteFinished(r) ==
    /\ status # "DELETED"
    /\ Begins(r, "delete", [Job("Delete") EXCEPT !.p = benched])
    /\ UNCHANGED <<plan, status, entrants, bracket, champion, byes, awards, failures, resets>>

(* deleteTournament refuses a finished tournament and reads its completed  *)
(* matches; then one transaction takes back what they gave and deletes.    *)
DeleteTournament(r) ==
    /\ status \notin {"COMPLETED", "DELETED"}
    /\ Begins(r, "delete", [Job("Delete") EXCEPT !.p = benched])
    /\ UNCHANGED <<plan, status, entrants, bracket, champion, byes, awards, failures, resets>>

(* Mutant of Delete: every drawn player loses a bye, not only the benched. *)
DeleteEveryBye(r) ==
    /\ Runs(r, "Delete") /\ Return(r)
    /\ status' = "DELETED" /\ entrants' = {} /\ champion' = NoPlayer
    /\ Emptied
    /\ byes' = [p \in Player |-> IF p \in placed THEN byes[p] - 1 ELSE byes[p]]
    /\ UNCHANGED <<plan, awards, failures, resets>>

(* A completed match that was not read, or is gone, gives nothing back.    *)
Delete(r) ==
    /\ Runs(r, "Delete") /\ Return(r)
    /\ status' = "DELETED" /\ entrants' = {} /\ champion' = NoPlayer
    /\ Emptied
    /\ byes' = IF benched = NoPlayer \/ job[r].p # benched THEN byes
               ELSE [byes EXCEPT ![benched] = @ - 1]
    /\ UNCHANGED <<plan, awards, failures, resets>>

Statement(r) ==
    \/ SetStatus(r) \/ Seat(r) \/ Unseat(r) \/ Claim(r) \/ Discard(r) \/ Round(r)
    \/ Place(r) \/ Verify(r) \/ Fail(r) \/ Undo(r) \/ Reopen(r) \/ Announce(r)
    \/ Crown(r) \/ Complete(r) \/ Pay(r) \/ Delete(r)

Next ==
    \/ AutoOpen
    \/ \E r \in Request :
        \/ Statement(r)
        \/ StartTournament(r) \/ CompleteEarly(r) \/ ResetFinal(r) \/ DeleteTournament(r)
        \/ \E to \in Status : UpdateStatus(r, to)
        \/ \E p \in Player : Join(r, p) \/ Leave(r, p) \/ Decide(r, p)

Spec == Init /\ [][Next]_vars

---------------------------------------------------------------------------
Quiet == \A r \in Request : job[r] = Idle

(* One request at a time; the status is also set by hand.                  *)
Alone  == \E r \in Request : plan.crowd = {r}
ByHand == "status" \in plan.routes

(* tournament.service.ts 704-705: "Every player must appear exactly once   *)
(* in round one": one request at a time, a running tournament that has a   *)
(* first round has drawn exactly the entrants it has.  (One that           *)
(* updateStatus alone moved to ONGOING has none.)                          *)
EveryEntrantIsDrawn ==
    Alone /\ Quiet /\ status = "ONGOING" /\ round # Nobody => placed = entrants

(* A start that fails leaves nothing behind, whatever overlaps with it but *)
(* a status set by hand: between requests a tournament that can still be   *)
(* started has no bracket.                                                 *)
NothingLeftBehind ==
    (Alone \/ ~ByHand) /\ Quiet /\ status \in {"UPCOMING", "OPEN"} =>
        round = Nobody /\ placed = {}

(* tournament.service.ts 622-625: a partial round "is discarded and rebuilt*)
(* rather than activated".  However starts, failures, deletions and manual *)
(* status changes overlap, even where two requests draw at once, between   *)
(* requests a first round is there with all entrants or not at all, for a  *)
(* field of two.  (A third player who joins during a start is not drawn.)  *)
WholeRoundOrNone ==
    (Alone \/ \E p, q \in Player : plan.field = {p, q}) /\ Quiet /\ round # Nobody =>
        Cardinality(placed) >= 2 /\ entrants \subseteq placed

(* tournament.service.ts 559-560: "Only one caller can move the row out of *)
(* OPEN, so only one generates", unless it is set back to OPEN by hand.    *)
OneGenerator ==
    ~ByHand => \A r, s \in Request : job[r].op \in Drawing /\ job[s].op \in Drawing => r = s

(* tournament.service.ts 816-831: completing a tournament twice would pay  *)
(* its awards twice, and nothing can take them back.  One request at a     *)
(* time, nobody plays a tournament twice over however it is finished, and  *)
(* one entrant at most is given the title, once.                           *)
AwardsPaidOnce ==
    Alone => \A p, q \in Player :
        /\ played[p] <= 1 /\ won[p] <= 1
        /\ won[p] > 0 /\ won[q] > 0 => p = q

(* Between requests a finished tournament names as its winner the player   *)
(* who was given the title.                                                *)
WinnerHoldsTheTitle ==
    Quiet /\ status = "COMPLETED" =>
        \A p \in Player : won[p] > 0 <=> p = champion

(* One request at a time, a finished tournament stays finished unless its  *)
(* final is reset.                                                         *)
FinishedStaysFinished ==
    [][Alone /\ status = "COMPLETED" /\ resets' = resets => status' = "COMPLETED"]_vars

(* tournament.service.ts 686-687: a failed start puts "the tournament back *)
(* the way it was", so nobody is credited more than one first-round bye.   *)
FirstRoundByeOnce == \A p \in Player : byes[p] <= 1
============================================================================
