------------------------------- MODULE Guests -------------------------------
(***************************************************************************)
(* Guests: people entered by a name, without an account, whose results are *)
(* kept so that they can claim them by registering (guest-lifecycle, the   *)
(* guest parts of AuthService and ParticipantService).                     *)
(*                                                                         *)
(* One name and the identities that have held it.  A transaction is        *)
(* serializable and so one step.  Of a tournament there is the entry of    *)
(* the name, one match it may win, completion and its payment.             *)
(***************************************************************************)
EXTENDS FiniteSets, FiniteSetsExt, Naturals

CONSTANTS
    Tournament,
    Identity,     \* User rows for the name: bounds how often it is reassigned
    MaxPaid,      \* bounds how often a reopened tournament pays again
    Scenes,       \* what is explored: the requests, the tournaments, whether
                  \* results of finished tournaments are reset, and deletions
    NoOne

VARIABLES
    scene,
    status,       \* Tournament.status
    late,         \* tournaments whose 30 days since completion are over
    entry,        \* who sits in a tournament, by tournament
    won,          \* the tournaments whose match the entry has won
    user,         \* User rows: "unused", "guest", "retired", "registered", "deleted"
    holder,       \* the row that holds the name
    excluded,     \* GuestHistoryExclusion rows
    lifetime,     \* UserGlobalStats: wins and tournaments played
    leftOut,      \* history: the tournaments a claim did not count
    request

vars == <<scene, status, late, entry, won, user, holder, excluded, lifetime,
          leftOut, request>>

Idle == [step |-> "idle"]

Init ==
    /\ scene \in Scenes
    /\ status = [t \in Tournament |-> "OPEN"]
    /\ late = {}
    /\ entry = [t \in Tournament |-> NoOne]
    /\ won = {}
    /\ user = [u \in Identity |-> "unused"]
    /\ holder = NoOne
    /\ excluded = {}
    /\ lifetime = [u \in Identity |-> [wins |-> 0, played |-> 0]]
    /\ leftOut = {}
    /\ request = [r \in scene.crowd |-> Idle]

Entered(u) == {t \in Tournament : entry[t] = u}

Unfinished(u) == {t \in Entered(u) : status[t] # "COMPLETED"}

(* guestDeadline has passed: never before every tournament is finished.    *)
Overdue(u) == Unfinished(u) = {} /\ Entered(u) \intersect late # {}

(* guestClaimProblem has nothing to say.                                   *)
Claimable(u) == user[u] = "guest" /\ ~Overdue(u)

(* The request reads and will write.                                       *)
Reads(r, memory) ==
    /\ request[r] = Idle
    /\ request' = [request EXCEPT ![r] = memory]
    /\ UNCHANGED <<scene, status, late, entry, won, user, holder, excluded,
                   lifetime, leftOut>>

Writes(r, step) ==
    /\ request[r].step = step
    /\ request' = [request EXCEPT ![r] = Idle]
    /\ UNCHANGED scene

Free == \E r \in scene.crowd : request[r] = Idle

Unused == {u \in Identity : user[u] = "unused"}

Fresh == CHOOSE u \in Unused : TRUE

(* retireGuest and the new row with the name: refused when the name is a   *)
(* registered player's or of a guest with an unfinished tournament.        *)
MayName ==
    /\ Unused # {}
    /\ holder # NoOne => user[holder] = "guest" /\ Unfinished(holder) = {}

Named ==
    /\ holder' = Fresh
    /\ user' = [u \in Identity |-> IF u = Fresh THEN "guest"
                                   ELSE IF u = holder THEN "retired"
                                   ELSE user[u]]

(* CreateGuestUser: a walk-in, under a name nobody holds.                  *)
CreateGuestUser ==
    /\ Free
    /\ holder = NoOne
    /\ MayName
    /\ Named
    /\ UNCHANGED <<scene, status, late, entry, won, excluded, lifetime, leftOut, request>>

(* joinTournamentAsGuest: the status is read before the transaction.       *)
JoinAsGuest(r, t) ==
    /\ status[t] = "OPEN"
    /\ entry[t] = NoOne
    /\ Reads(r, [step |-> "enter", tournament |-> t])

Enter(r) ==
    /\ Writes(r, "enter")
    /\ LET t == request[r].tournament IN
       IF entry[t] = NoOne /\ MayName
          THEN Named /\ entry' = [entry EXCEPT ![t] = Fresh]
          ELSE UNCHANGED <<entry, user, holder>>
    /\ UNCHANGED <<status, late, won, excluded, lifetime, leftOut>>

(* joinTournament, by the registered holder of the name.                   *)
JoinRegistered(t) ==
    /\ Free
    /\ status[t] = "OPEN" /\ entry[t] = NoOne
    /\ holder # NoOne /\ user[holder] = "registered"
    /\ entry' = [entry EXCEPT ![t] = holder]
    /\ UNCHANGED <<scene, status, late, won, user, holder, excluded, lifetime, leftOut, request>>

Start(t) ==
    /\ Free
    /\ status[t] = "OPEN"
    /\ status' = [status EXCEPT ![t] = "ONGOING"]
    /\ UNCHANGED <<scene, late, entry, won, user, holder, excluded, lifetime, leftOut, request>>

(* Lifetime counters are kept for registered players only, never below 0.  *)
Lifetime(u, wins, played) ==
    IF u # NoOne /\ user[u] = "registered"
       THEN [lifetime EXCEPT ![u] =
                [wins |-> Max({0, @.wins + wins}), played |-> @.played + played]]
       ELSE lifetime

(* A result of the entry's match (applyMatchStats), and its reset, which   *)
(* opens a completed tournament again.                                     *)
Win(t) ==
    /\ Free
    /\ status[t] = "ONGOING" /\ entry[t] # NoOne /\ t \notin won
    /\ won' = won \union {t}
    /\ lifetime' = Lifetime(entry[t], 1, 0)
    /\ UNCHANGED <<scene, status, late, entry, user, holder, excluded, leftOut, request>>

ResetWin(t) ==
    /\ Free
    /\ t \in won
    /\ \/ status[t] = "ONGOING"
       \/ /\ status[t] = "COMPLETED" /\ scene.reopens
          /\ \A u \in Identity : lifetime[u].played < MaxPaid
    /\ won' = won \ {t}
    /\ lifetime' = Lifetime(entry[t], 0 - 1, 0)
    /\ status' = [status EXCEPT ![t] = "ONGOING"]
    /\ late' = late \ {t}
    /\ UNCHANGED <<scene, entry, user, holder, excluded, leftOut, request>>

(* completeTournament reads who is registered, and pays them in one        *)
(* transaction.                                                            *)
CompleteTournament(r, t) ==
    /\ status[t] = "ONGOING"
    /\ Reads(r, [step |-> "pay", tournament |-> t,
                 paid |-> entry[t] # NoOne /\ user[entry[t]] = "registered"])

Pay(r) ==
    /\ Writes(r, "pay")
    /\ LET t == request[r].tournament IN
       /\ status' = [status EXCEPT ![t] = "COMPLETED"]
       /\ lifetime' = IF request[r].paid THEN Lifetime(entry[t], 0, 1) ELSE lifetime
    /\ UNCHANGED <<late, entry, won, user, holder, excluded, leftOut>>

(* Thirty days pass.                                                       *)
Pass(t) ==
    /\ status[t] = "COMPLETED" /\ t \notin late
    /\ late' = late \union {t}
    /\ UNCHANGED <<scene, status, entry, won, user, holder, excluded, lifetime, leftOut, request>>

(* excludeGuestTournament, restoreGuestTournament.                         *)
Exclude(t) ==
    /\ Free
    /\ entry[t] # NoOne /\ user[entry[t]] = "guest"
    /\ excluded' = excluded \union {t}
    /\ UNCHANGED <<scene, status, late, entry, won, user, holder, lifetime, leftOut, request>>

Include(t) ==
    /\ Free
    /\ t \in excluded
    /\ excluded' = excluded \ {t}
    /\ UNCHANGED <<scene, status, late, entry, won, user, holder, lifetime, leftOut, request>>

(* convertGuest, under the same name or another.                           *)
ConvertGuest(r, u, keeps) ==
    /\ Claimable(u)
    /\ Reads(r, [step |-> "convert", user |-> u, keeps |-> keeps])

(* Mutant of History: an exclusion is fetched and not honoured.            *)
HistoryUnexcluded(u) ==
    [wins   |-> Cardinality(Entered(u) \intersect won),
     played |-> Cardinality({t \in Entered(u) : status[t] = "COMPLETED"})]

(* What a claim rebuilds: the tournaments entered and not excluded, played *)
(* when they are completed.                                                *)
History(u) ==
    LET counted == Entered(u) \ excluded IN
    [wins   |-> Cardinality(counted \intersect won),
     played |-> Cardinality({t \in counted : status[t] = "COMPLETED"})]

Convert(r) ==
    LET u == request[r].user IN
    /\ Writes(r, "convert")
    /\ IF Claimable(u)
          THEN /\ user' = [user EXCEPT ![u] = "registered"]
               /\ holder' = IF request[r].keeps THEN holder ELSE NoOne
               /\ lifetime' = [lifetime EXCEPT ![u] = History(u)]
               /\ leftOut' = leftOut \union
                     {[user |-> u, tournament |-> t, finished |-> status[t] = "COMPLETED"]
                         : t \in Entered(u) \intersect excluded}
          ELSE UNCHANGED <<user, holder, lifetime, leftOut>>
    /\ UNCHANGED <<status, late, entry, won, excluded>>

(* purgeExpiredGuests: the deadline is read for every guest, and again for *)
(* each in the transaction that retires it.                                *)
Purge(r, u) ==
    /\ user[u] = "guest" /\ Overdue(u)
    /\ Reads(r, [step |-> "retire", user |-> u])

(* Mutant of Retire: the deadline is not read again.                       *)
RetireUnasked(r) ==
    LET u == request[r].user IN
    /\ Writes(r, "retire")
    /\ IF user[u] = "guest"
          THEN /\ user' = [user EXCEPT ![u] = "retired"]
               /\ holder' = NoOne
          ELSE UNCHANGED <<user, holder>>
    /\ UNCHANGED <<status, late, entry, won, excluded, lifetime, leftOut>>

Retire(r) ==
    LET u == request[r].user IN
    /\ Writes(r, "retire")
    /\ IF user[u] = "guest" /\ Overdue(u)
          THEN /\ user' = [user EXCEPT ![u] = "retired"]
               /\ holder' = NoOne
          ELSE UNCHANGED <<user, holder>>
    /\ UNCHANGED <<status, late, entry, won, excluded, lifetime, leftOut>>

(* deleteUser: not while in a live tournament, which is read first.  The   *)
(* entries go with the row.                                                *)
DeleteUser(r, u) ==
    /\ scene.deletions
    /\ user[u] \in {"guest", "retired", "registered"}
    /\ Unfinished(u) = {}
    /\ Reads(r, [step |-> "delete", user |-> u])

Delete(r) ==
    LET u == request[r].user IN
    /\ Writes(r, "delete")
    /\ user' = [user EXCEPT ![u] = "deleted"]
    /\ holder' = IF holder = u THEN NoOne ELSE holder
    /\ entry' = [t \in Tournament |-> IF entry[t] = u THEN NoOne ELSE entry[t]]
    /\ excluded' = excluded \ Entered(u)
    /\ UNCHANGED <<status, late, won, lifetime, leftOut>>

Next ==
    \/ CreateGuestUser
    \/ \E t \in scene.tournaments :
          \/ JoinRegistered(t) \/ Start(t) \/ Win(t) \/ ResetWin(t) \/ Pass(t)
          \/ Exclude(t) \/ Include(t)
          \/ \E r \in scene.crowd : JoinAsGuest(r, t) \/ CompleteTournament(r, t)
    \/ \E r \in scene.crowd :
          \/ \E u \in Identity :
                \/ Purge(r, u) \/ DeleteUser(r, u)
                \/ \E keeps \in BOOLEAN : ConvertGuest(r, u, keeps)
          \/ Enter(r) \/ Pay(r) \/ Convert(r) \/ Retire(r) \/ Delete(r)

Spec == Init /\ [][Next]_vars

(***************************************************************************)
(* Properties                                                              *)
(***************************************************************************)

(* However requests overlap, and though a finished tournament may be       *)
(* reopened, nobody loses a guest row to a purge or a reassigned name      *)
(* while a tournament they are in is unfinished ("Unfinished events never  *)
(* lose entrants", guestDeadline and retireGuest).                         *)
UnfinishedEventsKeepEntrants ==
    [][\A u \in Identity :
          user[u] = "guest" /\ user'[u] = "retired" => Unfinished(u) = {}]_vars

(* One request at a time, and nothing finished being reopened, a result    *)
(* counts once in the lifetime of whoever earned it, whether it came before*)
(* they registered (convertGuest rebuilds it) or after (applyMatchStats and*)
(* completeTournament count it), and an excluded tournament, if it was     *)
(* finished by then, does not count.                                       *)
ResultsCountOnce ==
    Cardinality(scene.crowd) = 1 /\ ~scene.reopens =>
        \A u \in Identity :
            user[u] = "registered" /\ (\A x \in leftOut : x.user = u => x.finished) =>
                LET counted == Entered(u) \ {x.tournament : x \in {y \in leftOut : y.user = u}} IN
                lifetime[u] =
                    [wins   |-> Cardinality(counted \intersect won),
                     played |-> Cardinality({t \in counted : status[t] = "COMPLETED"})]
=============================================================================
