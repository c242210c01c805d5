------------------------ MODULE MCAggregatorProcess -------------------------
(* An instance of AggregatorProcess for TLC.                               *)
EXTENDS AggregatorProcess

CONSTANTS metric, log
=============================================================================
