----------------------------- MODULE MCPipeline -----------------------------
(* An instance of Pipeline for TLC: a traced batch, and a client that sends *)
(* a batch of spans and, when its call fails, sends its first span again.   *)
EXTENDS Pipeline

CONSTANTS t1,       \* a traced SendMetrics batch
          g1, g2,   \* a SendSpans batch, and one with its first span again
          r1, r2    \* the replicas

MCSize == [r \in Requests |-> IF r = g1 THEN 2 ELSE 1]
MCRequestKind == [r \in Requests |-> IF r = t1 THEN "metric" ELSE "span"]
MCTracedMetrics == {<<t1, 1>>}
MCSpanID == [x \in C!Items |-> IF x[1] = g2 THEN <<g1, x[2]>> ELSE x]

\* The behaviours checked: those of the traced batch, with faults, and those
\* of the spans, without.  One replica is enough for the latter: with one place
\* in the durable, and no fault, no two of them ever hold a delivery.
MCNext == /\ Next
          /\ call'[t1] = "new" \/ call'[g1] = "new"
          /\ call'[g1] # "new" => /\ faults' = 0
                                  /\ \A w \in A!Workers : buffer'[w] # <<>> => w[1] = r1
          /\ call'[g2] # "new" => call[g1] = "error"

MCFairSpec == Init /\ [][MCNext]_vars /\ A!Fairness
=============================================================================
