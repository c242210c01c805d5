--------------------------- MODULE TelemetrySink ---------------------------
(***************************************************************************)
(* What the pipeline from the TELEMETRY stream to PostgreSQL promises for  *)
(* a message, whatever consumers, replicas and retries lie between: a      *)
(* message that was accepted is settled only after it was recorded, unless *)
(* it cannot be decoded at all; the only other way out is the expiry of    *)
(* the stream's 24 h retention.  Recording is at least once, so recording  *)
(* again is a stuttering step here.                                        *)
(***************************************************************************)
CONSTANTS Messages,   \* the messages ever published
          Decodable   \* those whose payload json.Unmarshal accepts

VARIABLES accepted,   \* published to the stream
          recorded,   \* at least one row in PostgreSQL
          settled,    \* acknowledged: will not be delivered again
          dropped     \* aged out of the stream before being acknowledged

vars == <<accepted, recorded, settled, dropped>>

Init == /\ accepted = {}
        /\ recorded = {}
        /\ settled = {}
        /\ dropped = {}

Accept(m) == /\ m \notin accepted
             /\ accepted' = accepted \cup {m}
             /\ UNCHANGED <<recorded, settled, dropped>>

\* A handler may still hold a message that the stream has dropped.
Record(m) == /\ m \in (accepted \cap Decodable) \ settled
             /\ recorded' = recorded \cup {m}
             /\ UNCHANGED <<accepted, settled, dropped>>

Settle(m) == /\ m \in accepted \ dropped
             /\ m \in recorded \/ m \notin Decodable
             /\ settled' = settled \cup {m}
             /\ UNCHANGED <<accepted, recorded, dropped>>

Drop(m) == /\ m \in accepted \ settled
           /\ dropped' = dropped \cup {m}
           /\ UNCHANGED <<accepted, recorded, settled>>

Next == \E m \in Messages : Accept(m) \/ Record(m) \/ Settle(m) \/ Drop(m)

Spec == Init /\ [][Next]_vars
=============================================================================
