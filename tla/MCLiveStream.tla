---------------------------- MODULE MCLiveStream ----------------------------
(* An instance of LiveStream for TLC.                                      *)
EXTENDS LiveStream

CONSTANTS r1, r2
=============================================================================
