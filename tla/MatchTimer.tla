----------------------------- MODULE MatchTimer -----------------------------
(***************************************************************************)
(* The countdowns and coin flips of matches (UtilityService) and the job   *)
(* that announces countdowns that ran out (MatchTimerJob).                 *)
(*                                                                         *)
(* A request reads the row of its match and writes it later, by a plain    *)
(* update; a pass of the job reads all rows that ran out and then writes   *)
(* and announces them one by one.                                          *)
(***************************************************************************)
EXTENDS Naturals

CONSTANTS
    Match, Player,
    Request,      \* requests in flight at the same time
    Pass,         \* passes of the job that may be running at the same time
    Durations,    \* what staff set a countdown to
    QuickFlags,   \* whether, of what a pass does, only announcing takes time
    MaxTime,      \* bounds the clock
    MaxStarts,    \* bounds the countdowns started on a match
    None

VARIABLES
    now,
    woke,         \* when a pass last began
    row,          \* MatchUtilityState by match
    request,      \* what each request has read
    pass,         \* what each pass has read and not dealt with yet
    starts,       \* countdowns started, by match
    announced     \* countdowns announced, by match

vars == <<now, woke, row, request, pass, starts, announced>>

Idle == [step |-> "idle"]

(* A match without a row reads as one nobody has set.                      *)
Unset == [duration |-> None, paused |-> None, endsAt |-> None, running |-> FALSE,
          notified |-> FALSE, flips |-> {}]

Init ==
    /\ now = 0
    /\ woke = None
    /\ row = [m \in Match |-> Unset]
    /\ request = [r \in Request |-> Idle]
    /\ pass = [p \in Pass |-> Idle]
    /\ starts = [m \in Match |-> 0]
    /\ announced = [m \in Match |-> 0]

Tick ==
    /\ now < MaxTime
    /\ QuickFlags => \A p \in Pass : pass[p].step # "flag"
    /\ now' = now + 1
    /\ UNCHANGED <<woke, row, request, pass, starts, announced>>

(***************************************************************************)
(* Requests                                                                *)
(***************************************************************************)

(* loadContext.                                                            *)
Read(r, m, action) ==
    /\ request[r] = Idle
    /\ request' = [request EXCEPT ![r] =
                      [step |-> action, match |-> m, seen |-> row[m]]]
    /\ UNCHANGED <<now, woke, row, pass, starts, announced>>

(* persistAndBroadcast: only the columns of data are written.              *)
Persist(r, data) ==
    /\ row' = [row EXCEPT ![request[r].match] =
                  [c \in DOMAIN @ |-> IF c \in DOMAIN data THEN data[c] ELSE @[c]]]
    /\ request' = [request EXCEPT ![r] = Idle]
    /\ UNCHANGED <<now, woke, pass, announced>>

Set(r, d) ==
    /\ request[r].step = "set"
    /\ Persist(r, [duration |-> d, paused |-> d, endsAt |-> None,
                   running |-> FALSE, notified |-> FALSE])
    /\ UNCHANGED starts

Else(a, b) == IF a # None THEN a ELSE b

(* The duration sent, or what is left of a paused countdown, or all of it. *)
Start(r, d) ==
    LET seen == request[r].seen
        remaining == Else(d, Else(seen.paused, seen.duration)) IN
    /\ request[r].step = "start"
    /\ remaining \notin {None, 0}
    /\ starts[request[r].match] < MaxStarts
    /\ Persist(r, [duration |-> Else(d, Else(seen.duration, remaining)),
                   endsAt |-> now + remaining, running |-> TRUE,
                   paused |-> None, notified |-> FALSE])
    /\ starts' = [starts EXCEPT ![request[r].match] = @ + 1]

Pause(r) ==
    LET seen == request[r].seen
        left == IF seen.endsAt = None THEN Else(seen.paused, 0)
                ELSE IF seen.endsAt > now THEN seen.endsAt - now ELSE 0 IN
    /\ request[r].step = "pause"
    /\ Persist(r, [running |-> FALSE, paused |-> left, endsAt |-> None])
    /\ UNCHANGED starts

Reset(r) ==
    /\ request[r].step = "reset"
    /\ Persist(r, [running |-> FALSE, endsAt |-> None, notified |-> FALSE,
                   paused |-> request[r].seen.duration])
    /\ UNCHANGED starts

(* recordFlip: the map that was read, with this player's flip in it.       *)
Flip(r, u) ==
    /\ request[r].step = "flip"
    /\ Persist(r, [flips |-> request[r].seen.flips \union {u}])
    /\ UNCHANGED starts

(* "Set a duration before starting the timer".                             *)
Refused(r) ==
    /\ request[r].step = "start"
    /\ request[r].seen.paused = None /\ request[r].seen.duration = None
    /\ request' = [request EXCEPT ![r] = Idle]
    /\ UNCHANGED <<now, woke, row, pass, starts, announced>>

(***************************************************************************)
(* The job                                                                 *)
(***************************************************************************)

(* Mutant of RanOut: a countdown announced before is found again.          *)
RanOutAgain(m) == row[m].endsAt # None /\ row[m].endsAt <= now

RanOut(m) ==
    /\ row[m].running /\ ~row[m].notified
    /\ row[m].endsAt # None /\ row[m].endsAt <= now

(* handleCron begins, once a tick: the rows that ran out by now.           *)
Wake(p) ==
    /\ pass[p] = Idle
    /\ woke # now /\ woke' = now
    /\ \E m \in Match : RanOut(m)
    /\ pass' = [pass EXCEPT ![p] = [step |-> "flag", left |-> {m \in Match : RanOut(m)}]]
    /\ UNCHANGED <<now, row, request, starts, announced>>

(* One is flagged, whatever its row holds by now ...                       *)
Flag(p, m) ==
    /\ pass[p].step = "flag" /\ m \in pass[p].left
    /\ row' = [row EXCEPT ![m].notified = TRUE, ![m].running = FALSE]
    /\ pass' = [pass EXCEPT ![p] = [step |-> "notify", match |-> m, left |-> @.left \ {m}]]
    /\ UNCHANGED <<now, woke, request, starts, announced>>

(* ... and announced to the staff.                                         *)
Notify(p) ==
    /\ pass[p].step = "notify"
    /\ announced' = [announced EXCEPT ![pass[p].match] = @ + 1]
    /\ pass' = [pass EXCEPT ![p] = IF @.left = {} THEN Idle
                                   ELSE [step |-> "flag", left |-> @.left]]
    /\ UNCHANGED <<now, woke, row, request, starts>>

Next ==
    \/ Tick
    \/ \E r \in Request :
          \/ \E m \in Match, action \in {"set", "start", "pause", "reset", "flip"} :
                Read(r, m, action)
          \/ \E d \in Durations : Set(r, d)
          \/ \E d \in Durations \union {None} : Start(r, d)
          \/ Pause(r) \/ Reset(r) \/ Refused(r)
          \/ \E u \in Player : Flip(r, u)
    \/ \E p \in Pass : Wake(p) \/ Notify(p) \/ \E m \in Match : Flag(p, m)

Spec == Init /\ [][Next]_vars

(***************************************************************************)
(* Properties                                                              *)
(***************************************************************************)

(* Whatever requests set, pause, restart and reset from rows they read     *)
(* earlier, while a pass of the job that read the same rows flags and      *)
(* announces them, a countdown is announced at most once ("Flag first so a *)
(* slow notification pass can't double-fire on the next tick",             *)
(* MatchTimerJob).  So it is where passes do not overlap; two that do read *)
(* the same rows, and both announce.                                       *)
CountdownAnnouncedOnce == \A m \in Match : announced[m] <= starts[m]

=============================================================================
