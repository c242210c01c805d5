---------------------------- MODULE MCCollector -----------------------------
(* Instances of CollectorProcess for TLC: calls of each form.              *)
EXTENDS CollectorProcess

CONSTANTS t1,      \* a traced SendMetrics batch
          g1,      \* a gRPC call without a trace
          e1,      \* a traced call with an empty batch
          h1       \* an HTTP call

MCSize == [r \in Requests |-> CASE r = t1 -> 3
                                [] r = g1 -> 2
                                [] r = e1 -> 0
                                [] OTHER -> 1]
MCTraced == Requests \cap {t1, e1}
MCHttp == Requests \cap {h1}
=============================================================================
