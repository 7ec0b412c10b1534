----------------------------- MODULE MCRecordings -----------------------------
(* A series that two devices record, the first of them twice, and another one on the first. *)
EXTENDS Recordings, TLC

CONSTANTS d1, d2, s1, s2, r1, r2, r3, r4

MCHome == r1 :> <<d1, s1>> @@ r2 :> <<d2, s1>> @@ r3 :> <<d1, s2>> @@ r4 :> <<d1, s1>>

MCPositions == {-1, 0}
=============================================================================
