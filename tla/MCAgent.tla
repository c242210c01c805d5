------------------------------- MODULE MCAgent ------------------------------
(* An instance of Agent for TLC.                                           *)
EXTENDS Agent

CONSTANTS cpu, network
=============================================================================
