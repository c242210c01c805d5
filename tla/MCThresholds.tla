---------------------------- MODULE MCThresholds ----------------------------
(* Instances of Thresholds for TLC.                                        *)
EXTENDS Thresholds

CONSTANTS a1, a2, g1, r1, r2, r3, default
=============================================================================
