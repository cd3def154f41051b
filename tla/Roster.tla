------------------------------- MODULE Roster -------------------------------
(***************************************************************************)
(* The entry list of one tournament: joining, guests added by staff,       *)
(* invitations, leaving, seeds and replacement, by ParticipantService.     *)
(*                                                                         *)
(* A request reads first and writes later; what it read may be stale by    *)
(* then.  A transaction is serializable and so one step.  The draw and the *)
(* results belong to TournamentLifecycle and the bracket modules: here     *)
(* they are one step each, enough to see whom the matches name.            *)
(***************************************************************************)
EXTENDS FiniteSets, Naturals

CONSTANTS
    Player,       \* people with an account
    Guest,        \* identities staff enter by name, without an account
    Invited,      \* the players that are ever invited
    MaxPlayers,   \* the cap of the tournament
    MaxSeed,      \* seeds are 0 (none) .. MaxSeed: bounds the seeds given
    Seeder,       \* the requests that give seeds: the others leave them alone
    Crowds,       \* the sets of requests explored: how many run at once
    Nobody        \* an empty slot of a match

VARIABLES
    crowd,        \* the requests of this behaviour
    status,       \* Tournament.status, from registration on
    rows,         \* TournamentParticipant rows
    invite,       \* TournamentParticipantInvite.status by player
    matches,      \* the matches drawn: whom they name, whether completed
    request       \* what each request has read and is about to write

vars == <<crowd, status, rows, invite, matches, request>>

Person == Player \union Guest

Idle == [step |-> "idle"]

Seated == {p.user : p \in rows}

(* Row ids: enough that one is never reused while a request remembers it.  *)
RowId == 1 .. (MaxPlayers + Cardinality(UNION Crowds) + 1)

Remembered == {p.id : p \in rows} \union
              {request[r].row : r \in {q \in crowd : request[q].step = "swap"}}

(* What a request remembers between its reads and its writes.              *)
Memory ==
    [step : {"idle"}] \union
    [step : {"seat", "unseat"}, user : Person] \union
    [step : {"send", "accept", "decline"}, user : Invited] \union
    [step : {"seed"}, user : Person, seed : 1 .. MaxSeed] \union
    [step : {"swap"}, user : Person, row : RowId, substitute : Person]

TypeOK ==
    /\ crowd \in Crowds
    /\ status \in {"OPEN", "ONGOING"}
    /\ rows \subseteq [id : RowId, user : Person, seed : 0 .. MaxSeed]
    /\ invite \in [Invited -> {"NONE", "PENDING", "DECLINED", "ACCEPTED"}]
    /\ matches \subseteq
          [player1 : Person, player2 : Person \union {Nobody}, completed : BOOLEAN]
    /\ request \in [crowd -> Memory]

Full == Cardinality(rows) >= MaxPlayers

(* Whether some request is not busy: a start or a result is a request too. *)
Free == \E r \in crowd : request[r] = Idle

Fresh == RowId \ Remembered

(* A new row with a fresh id; a fresh one is always left.                  *)
Adds(u) ==
    /\ Fresh # {}
    /\ rows' = rows \union {[id |-> CHOOSE i \in Fresh : TRUE, user |-> u, seed |-> 0]}

RowOf(u) == CHOOSE p \in rows : p.user = u

Init ==
    /\ crowd \in Crowds
    /\ status = "OPEN"
    /\ rows = {}
    /\ invite = [u \in Invited |-> "NONE"]
    /\ matches = {}
    /\ request = [r \in crowd |-> Idle]

(* A request has passed its checks and will write.                         *)
Read(r, next) ==
    /\ request[r] = Idle
    /\ request' = [request EXCEPT ![r] = next]
    /\ UNCHANGED <<crowd, status, rows, invite, matches>>

Done(r) ==
    /\ request' = [request EXCEPT ![r] = Idle]
    /\ UNCHANGED <<crowd, status>>

(* The write is refused.                                                   *)
Refused(r) ==
    /\ Done(r)
    /\ UNCHANGED <<rows, invite, matches>>

(* joinTournament, and joinTournamentAsGuest for a guest: the status is    *)
(* read here and not again.  A guest already seated is returned as is.     *)
Join(r, u) ==
    /\ status = "OPEN"
    /\ ~Full
    /\ u \notin Seated
    /\ Read(r, [step |-> "seat", user |-> u])

(* Mutant of Seat: the seat is taken on the word of the first count.       *)
SeatUncounted(r) ==
    /\ request[r].step = "seat"
    /\ Adds(request[r].user)
    /\ Done(r)
    /\ UNCHANGED <<invite, matches>>

(* The transaction counts the rows again; the row is unique by user.       *)
Seat(r) ==
    /\ request[r].step = "seat"
    /\ IF Full \/ request[r].user \in Seated
          THEN Refused(r)
          ELSE /\ Adds(request[r].user)
               /\ Done(r)
               /\ UNCHANGED <<invite, matches>>

(* inviteTournamentParticipant: an invitation once accepted is never sent  *)
(* again, not even to somebody who has left since.                         *)
Invite(r, u) ==
    /\ status = "OPEN"
    /\ ~Full
    /\ u \notin Seated
    /\ invite[u] \in {"NONE", "DECLINED"}
    /\ Read(r, [step |-> "send", user |-> u])

Send(r) ==
    /\ request[r].step = "send"
    /\ invite' = [invite EXCEPT ![request[r].user] = "PENDING"]
    /\ Done(r)
    /\ UNCHANGED <<rows, matches>>

(* respondToParticipantInvitation.                                         *)
Respond(r, u, accept) ==
    /\ invite[u] = "PENDING"
    /\ accept => status = "OPEN"
    /\ Read(r, [step |-> IF accept THEN "accept" ELSE "decline", user |-> u])

Decline(r) ==
    /\ request[r].step = "decline"
    /\ invite' = [invite EXCEPT ![request[r].user] = "DECLINED"]
    /\ Done(r)
    /\ UNCHANGED <<rows, matches>>

(* The transaction counts and looks for the row again, and reads neither   *)
(* the invitation nor the status.                                          *)
Accept(r) ==
    /\ request[r].step = "accept"
    /\ IF Full \/ request[r].user \in Seated
          THEN Refused(r)
          ELSE /\ Adds(request[r].user)
               /\ invite' = [invite EXCEPT ![request[r].user] = "ACCEPTED"]
               /\ Done(r)
               /\ UNCHANGED matches

(* leaveTournament, by the player or by staff.                             *)
Leave(r, u) ==
    /\ status = "OPEN"
    /\ u \in Seated
    /\ Read(r, [step |-> "unseat", user |-> u])

Unseat(r) ==
    /\ request[r].step = "unseat"
    /\ rows' = {p \in rows : p.user # request[r].user}
    /\ Done(r)
    /\ UNCHANGED <<invite, matches>>

(* updateSeed: the row is looked up again by user when it is written.      *)
UpdateSeed(r, u, s) ==
    /\ r \in Seeder
    /\ status = "OPEN"
    /\ u \in Seated
    /\ Read(r, [step |-> "seed", user |-> u, seed |-> s])

SetSeed(r) ==
    /\ request[r].step = "seed"
    /\ rows' = {IF p.user = request[r].user
                   THEN [p EXCEPT !.seed = request[r].seed]
                   ELSE p : p \in rows}
    /\ Done(r)
    /\ UNCHANGED <<invite, matches>>

Plays(m, u) == m.player1 = u \/ m.player2 = u

(* Mutant of ReplaceParticipant: it no longer asks what has been played.   *)
ReplaceParticipantAnytime(r, u, substitute) ==
    /\ status \in {"OPEN", "ONGOING"}
    /\ u \in Seated
    /\ substitute \notin Seated
    /\ Read(r, [step |-> "swap", user |-> u, row |-> RowOf(u).id,
                substitute |-> substitute])

(* replaceParticipant: only while none of the player's matches is          *)
(* completed, and for somebody who is not in the tournament.               *)
ReplaceParticipant(r, u, substitute) ==
    /\ status \in {"OPEN", "ONGOING"}
    /\ u \in Seated
    /\ substitute \notin Seated
    /\ ~\E m \in matches : m.completed /\ Plays(m, u)
    /\ Read(r, [step |-> "swap", user |-> u, row |-> RowOf(u).id,
                substitute |-> substitute])

Renamed(m, u, v) ==
    [m EXCEPT !.player1 = IF @ = u THEN v ELSE @,
              !.player2 = IF @ = u THEN v ELSE @]

(* The transaction writes the row it knows by id and every match still to  *)
(* be completed that names the player.  It fails when the row is gone or   *)
(* the substitute is seated by now.                                        *)
Swap(r) ==
    LET now == request[r] IN
    /\ now.step = "swap"
    /\ IF \/ \A p \in rows : p.id # now.row
          \/ now.substitute \in Seated
          THEN Refused(r)
          ELSE /\ rows' = {IF p.id = now.row
                              THEN [p EXCEPT !.user = now.substitute]
                              ELSE p : p \in rows}
               /\ matches' = {IF m.completed THEN m
                              ELSE Renamed(m, now.user, now.substitute)
                                 : m \in matches}
               /\ Done(r)
               /\ UNCHANGED invite

(* startTournament draws a first round: everybody is named once, a player  *)
(* without an opponent has a bye, which is completed at once.              *)
Start ==
    /\ Free
    /\ status = "OPEN"
    /\ Cardinality(rows) >= 2
    /\ \E u, v \in Seated :
          /\ u # v
          /\ matches' =
                {[player1 |-> u, player2 |-> v, completed |-> FALSE]} \union
                {[player1 |-> w, player2 |-> Nobody, completed |-> TRUE]
                    : w \in Seated \ {u, v}}
    /\ status' = "ONGOING"
    /\ UNCHANGED <<crowd, rows, invite, request>>

(* A result, which completes the match under the names it has.             *)
Report(m) ==
    /\ Free
    /\ ~m.completed
    /\ matches' = (matches \ {m}) \union {[m EXCEPT !.completed = TRUE]}
    /\ UNCHANGED <<crowd, status, rows, invite, request>>

Next ==
    \/ Start
    \/ \E m \in matches : Report(m)
    \/ \E r \in crowd :
          \/ \E u \in Person :
                \/ Join(r, u) \/ Leave(r, u)
                \/ \E s \in 1 .. MaxSeed : UpdateSeed(r, u, s)
                \/ \E v \in Person : ReplaceParticipant(r, u, v)
          \/ \E u \in Invited :
                Invite(r, u) \/ \E b \in BOOLEAN : Respond(r, u, b)
          \/ Seat(r) \/ Send(r) \/ Accept(r) \/ Decline(r) \/ Unseat(r)
          \/ SetSeed(r) \/ Swap(r)

Spec == Init /\ [][Next]_vars

(***************************************************************************)
(* Properties                                                              *)
(***************************************************************************)

Promise == INSTANCE Seats WITH
    People <- Person, MaxPlayers <- MaxPlayers,
    seated <- Seated

(* However many joins, answers, departures and replacements overlap, the   *)
(* roster moves one person at a time, never above the cap and never with   *)
(* one person twice (the transactions of joinTournament,                   *)
(* joinTournamentAsGuest, respondToParticipantInvitation and               *)
(* replaceParticipant).                                                    *)
RosterKeepsItsPromise == Promise!Spec

(* One request at a time, every match drawn names people who are in the    *)
(* tournament, the completed ones too: a replacement renames what is still *)
(* to be played, and is refused once something was (replaceParticipant).   *)
MatchesNameEntrants ==
    Cardinality(crowd) = 1 =>
        \A m \in matches : {m.player1, m.player2} \ {Nobody} \subseteq Seated
=============================================================================
