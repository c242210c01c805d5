------------------------------ MODULE NetRates ------------------------------
(***************************************************************************)
(* The network rates of the agent (streamNetwork in                        *)
(* cmd/agent/collector.go): two snapshots of an interface's byte counter,  *)
(* 500 ms apart, give a rate.  The counter is unsigned and wraps around;   *)
(* snapshots fail, the clock is stepped back, the interface disappears and *)
(* is created again.  prev is a map by interface name, so one interface    *)
(* and one direction stand for all.                                        *)
(***************************************************************************)
EXTENDS Integers

CONSTANTS Word,      \* values of a counter (2^64)
          MaxBytes   \* bound on the bytes sent, for model checking

ASSUME NetAssumption == Word \in Nat \ {0} /\ MaxBytes \in Nat

VARIABLES
    present,   \* the host has the interface
    counter,   \* its byte counter
    prev,      \* its counter in the previous snapshot
    reported,  \* reported rates times elapsed, since prev has the interface
    \* History: what really happened.
    bytes,     \* bytes sent since prev has the interface, up to that snapshot
    unread,    \* bytes sent since that snapshot
    replaced   \* the interface was created anew since prev has it

netVars == <<present, counter, prev, reported, bytes, unread, replaced>>

Absent == -1
Counters == 0..Word - 1

NetTypeOK == /\ present \in BOOLEAN
             /\ counter \in Counters
             /\ prev \in Counters \cup {Absent}
             /\ reported \in Nat
             /\ bytes \in Nat
             /\ unread \in Counters
             /\ replaced \in BOOLEAN

\* The first snapshot, which may fail: prev is then the nil map.
NetInit == /\ present \in BOOLEAN
           /\ counter \in Counters
           /\ prev \in {Absent} \cup (IF present THEN {counter} ELSE {})
           /\ reported = 0 /\ bytes = 0 /\ unread = 0
           /\ replaced = FALSE

\* Mutant: the counters are converted to float64 before the subtraction.
MinusSigned(c, p) == c - p

\* c - p, as unsigned integers
Minus(c, p) == IF c >= p THEN c - p ELSE c - p + Word

\* Traffic: less than a whole word between two snapshots.
Send(n) == /\ present
           /\ bytes + unread + n <= MaxBytes
           /\ unread + n < Word
           /\ unread' = unread + n
           /\ counter' = IF counter + n < Word THEN counter + n ELSE counter + n - Word
           /\ UNCHANGED <<present, prev, reported, bytes, replaced>>

Disappear == /\ present
             /\ present' = FALSE
             /\ UNCHANGED <<counter, prev, reported, bytes, unread, replaced>>

\* The interface is created: its counter starts from zero.
Appear == /\ ~present
          /\ present' = TRUE
          /\ counter' = 0
          /\ replaced' = (prev # Absent)
          /\ UNCHANGED <<prev, reported, bytes, unread>>

\* prev = cur, and the rates of what follows start afresh.
StartSeries == /\ prev' = IF present THEN counter ELSE Absent
               /\ reported' = 0
               /\ bytes' = 0
               /\ unread' = 0
               /\ replaced' = FALSE
               /\ UNCHANGED <<present, counter>>

\* A snapshot with elapsed > 0, where both snapshots have the interface.
Report == /\ present /\ prev # Absent
          /\ reported' = reported + Minus(counter, prev)
          /\ prev' = counter
          /\ bytes' = bytes + unread
          /\ unread' = 0
          /\ UNCHANGED <<present, counter, replaced>>

\* "prev[name]; if !ok { continue }", or the interface is no longer there.
FirstSeen == ~(present /\ prev # Absent) /\ StartSeries

\* "elapsed <= 0": this interval is not reported.
ClockWentBack == StartSeries

\* Mutant: prev, prevTime = cur, curTime although the snapshot failed.
SnapshotFailsTaken == /\ prev' = IF prev = Absent THEN Absent ELSE counter
                      /\ UNCHANGED <<present, counter, reported, bytes, unread, replaced>>

\* "cur == nil": prev is kept for the next snapshot.
SnapshotFails == UNCHANGED netVars

NetNext == \/ \E n \in 1..MaxBytes : Send(n)
           \/ Disappear \/ Appear
           \/ Report \/ FirstSeen \/ ClockWentBack \/ SnapshotFails

NetSpec == NetInit /\ [][NetNext]_netVars

-----------------------------------------------------------------------------
(* Properties *)

\* The reported rates add up to the traffic: nothing is counted twice, and
\* nothing is left out or made up by wrapped counters or failed snapshots.
\* The exception is an interface that was created anew between two snapshots:
\* its counter is smaller than before, as if it had wrapped.
RatesAddUp == ~replaced => reported = bytes
=============================================================================
