---------------------------- MODULE MCMatchScoring ----------------------------
(***************************************************************************)
(* Instances of MatchScoring: which routes are called, and by whom.        *)
(***************************************************************************)
EXTENDS MatchScoring

(* A player's record from earlier matches: one won and one lost.           *)
OneWonOneLost == [games |-> 2, wins |-> 1, losses |-> 1, draws |-> 0, points |-> 3]

Tracked   == {"start", "tracker", "verify", "reject", "forfeit", "reset"}
Reported  == {"start", "game-result", "self-report", "verify", "reject", "result", "reset"}
Unforfeited == (Tracked \cup Reported) \ {"forfeit"}
Everyone  == {"STAFF", "PARTICIPANT"}
=============================================================================
