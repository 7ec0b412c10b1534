---------------------------- MODULE MCHttpStream ----------------------------
(* The HTTP stream with seeks in both directions. *)
EXTENDS HttpStream

MCDeltas == {-3, 0, 9}
=============================================================================
