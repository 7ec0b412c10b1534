-------------------------- MODULE MCRecordingRules --------------------------
(* The recording rules with rules that share a series. *)
EXTENDS RecordingRules

MCSeriesOf == [r \in Rules |-> CHOOSE s \in Series : TRUE]
=============================================================================
