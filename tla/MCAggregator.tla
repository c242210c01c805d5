---------------------------- MODULE MCAggregator ----------------------------
(* Instances of Aggregator for TLC: the messages and what they are.        *)
EXTENDS Aggregator, TLC

CONSTANTS m1, m2,      \* metrics, m1 with a trace_id
          l1,          \* a log whose payload does not decode
          s1, s2, s3   \* spans, s3 a client's repeat of s1

MCKind == [m \in Messages |-> CASE m \in {m1, m2} -> "metric"
                                [] m = l1 -> "log"
                                [] OTHER -> "span"]
MCDecodable == Messages \ {l1}
MCTraced == Messages \cap {m1}
MCSpanID == [m \in Messages |-> IF m = s3 THEN s1 ELSE m]

\* The replicas are interchangeable.
ReplicaSymmetry == Permutations(Replicas)
=============================================================================
