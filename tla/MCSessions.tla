----------------------------- MODULE MCSessions -----------------------------
(* Sessions, small enough for TLC.                                         *)
EXTENDS Sessions, TLC

(* Requests that are checked at the same time are interchangeable.         *)
Alike == Permutations(Guard)
=============================================================================
