----------------------- MODULE MCTournamentLifecycle -----------------------
(***************************************************************************)
(* Instances of TournamentLifecycle: who runs at once, and which routes    *)
(* are called.                                                             *)
(***************************************************************************)
EXTENDS TournamentLifecycle, FiniteSetsExt, TLC

CONSTANTS r0, r1, r2

TheRequests == {r0, r1, r2}

Symmetry == Permutations(Player) \cup Permutations({r1, r2})

Registration == {"join", "leave", "start"}
Resettable   == Registration \cup {"result", "reset"}
Unsupervised == Resettable \cup {"complete", "delete"}
Supervised   == Registration \cup {"result", "complete", "delete", "status"}
Starting     == Registration \cup {"delete", "status"}

(* Three players and one request; any two of them and two requests, with   *)
(* every route but the status set by hand, and with that but without       *)
(* results.                                                                *)
Plans3 ==
    {Plan({r0}, Supervised, Player, 3, 1, 0)}
    \cup {Plan({r1, r2}, Unsupervised, pair, 2, 1, 1) : pair \in kSubset(2, Player)}
    \cup {Plan({r1, r2}, Starting, pair, 2, 1, 0) : pair \in kSubset(2, Player)}

(* One request, and a final that may be reset.                             *)
PlansReset == {Plan({r0}, Resettable, Player, 2, 0, 1)}
============================================================================
