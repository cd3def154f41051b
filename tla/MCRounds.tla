------------------------------ MODULE MCRounds ------------------------------
(***************************************************************************)
(* Instances of Rounds: small fields of every system, with requests one at *)
(* a time, and two at once for the smallest of them.                       *)
(***************************************************************************)
EXTENDS Rounds

CONSTANTS r1, r2

TheRequests == {r1, r2}

Alone == {r1}

(* Limits: what may happen besides results.                                *)
Limit(d, r, f, e) == [draws |-> d, resets |-> r, forfeits |-> f, extras |-> e]

Small ==
    {Field("SWISS", 3, 2, 0, Alone, Limit(1, 1, 1, 1)),
     Field("SWISS", 4, 2, 0, Alone, Limit(0, 1, 1, 0)),
     Field("SWISS", 4, 3, 0, Alone, Limit(0, 0, 0, 0)),
     Field("SWISS", 5, 3, 0, Alone, Limit(0, 0, 0, 0)),
     Field("ROUND_ROBIN", 3, 3, 0, Alone, Limit(0, 1, 1, 0)),
     Field("ROUND_ROBIN", 4, 3, 0, Alone, Limit(0, 0, 0, 0)),
     Field("HYBRID", 3, 2, 1, Alone, Limit(0, 1, 1, 0)),
     Field("HYBRID", 3, 2, 2, Alone, Limit(1, 1, 1, 0)),
     Field("HYBRID", 4, 2, 2, Alone, Limit(0, 0, 1, 0)),
     Field("SWISS", 4, 2, 0, TheRequests, Limit(0, 0, 0, 0))}
=============================================================================
