------------------------------ MODULE MCParts -------------------------------
(* An instance for TLC of five parts that share nothing.  A behaviour runs *)
(* one of them, and the others stay as they began.                         *)
EXTENDS LiveStream, NetRates, RateLimiter, Trace, ServerList

CONSTANTS r1, r2,           \* rows of the live stream
          c1, c2, c3, c4,   \* calls, c4 from another address
          s1, s2, s3,       \* spans of one trace
          t1, t2,           \* traces
          m1, m2, m3, m4    \* metrics: two mounts of a disk, an older value, a CPU

VARIABLE part

MCClient == [c \in Calls |-> IF c = c4 THEN "b" ELSE "a"]
MCTraceOf == [s \in Spans |-> t1]
MCStart == [s \in Spans |-> CASE s = s1 -> 1 [] s = s2 -> 2 [] OTHER -> 3]
MCService == [m \in Metrics |-> "host"]
MCName == [m \in Metrics |-> IF m = m4 THEN "cpu" ELSE "disk"]
MCWritten == [m \in Metrics |-> IF m = m1 THEN 1 ELSE 2]

MCVars == <<vars, netVars, limitVars, traceVars, listVars, part>>

\* The initial values of a part that does not run are fixed.
MCInit == /\ part \in {"stream", "net", "limit", "trace", "list"}
          /\ Init
          /\ NetInit /\ (part # "net" => present /\ counter = 0 /\ prev = Absent)
          /\ LimitInit
          /\ TraceInit /\ (part # "trace" => parent = [s \in Spans |-> NoParent] /\ field = t1)
          /\ ListInit

Stream == part = "stream" /\ Next /\ UNCHANGED <<netVars, limitVars, traceVars, listVars, part>>
Net == part = "net" /\ NetNext /\ UNCHANGED <<vars, limitVars, traceVars, listVars, part>>
Buckets == part = "limit" /\ LimitNext /\ UNCHANGED <<vars, netVars, traceVars, listVars, part>>
OneTrace == part = "trace" /\ TraceNext /\ UNCHANGED <<vars, netVars, limitVars, listVars, part>>
List == part = "list" /\ ListNext /\ UNCHANGED <<vars, netVars, limitVars, traceVars, part>>

MCSpec == /\ MCInit
          /\ [][Stream \/ Net \/ Buckets \/ OneTrace \/ List]_MCVars
          /\ part = "list" => ListFairness

\* Types of all parts.  The difference of two network counters is a counter
\* again, a bucket never holds more than Burst, no push overtakes another.
PartsTypeOK == TypeOK /\ NetTypeOK /\ LimitTypeOK /\ TraceTypeOK /\ ListTypeOK
=============================================================================
