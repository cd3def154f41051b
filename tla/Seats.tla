-------------------------------- MODULE Seats --------------------------------
(***************************************************************************)
(* What a roster promises: at most MaxPlayers seats, nobody in two of      *)
(* them, and every change is one person coming, going or being replaced.   *)
(* Roster implements it.                                                   *)
(***************************************************************************)
EXTENDS FiniteSets, Naturals

CONSTANTS People, MaxPlayers

VARIABLE seated

(* Nobody has joined.                                                      *)
Init == seated = {}

(* Somebody takes a free seat.                                             *)
Come(p) ==
    /\ p \notin seated
    /\ Cardinality(seated) < MaxPlayers
    /\ seated' = seated \union {p}

(* Somebody leaves theirs.                                                 *)
Go(p) ==
    /\ p \in seated
    /\ seated' = seated \ {p}

(* Somebody takes the seat of somebody else.                               *)
Replace(p, q) ==
    /\ p \in seated
    /\ q \notin seated
    /\ seated' = (seated \ {p}) \union {q}

Next ==
    \/ \E p \in People : Come(p) \/ Go(p)
    \/ \E p, q \in People : Replace(p, q)

Spec == Init /\ [][Next]_seated
=============================================================================
