------------------------------ MODULE Pipeline ------------------------------
(***************************************************************************)
(* Collector and Aggregator, joined by the stream TELEMETRY: an item that  *)
(* the NATS server stores for the collector is published to the durable    *)
(* consumers of the aggregator.  What json.Marshal writes in one,          *)
(* json.Unmarshal reads in the other.                                      *)
(***************************************************************************)
EXTENDS Integers, Sequences, FiniteSets

CONSTANTS Requests, Size, Traced, Http,   \* see Collector
          RequestKind,                    \* what the items of a request are
          TracedMetrics,                  \* metrics that carry a trace_id
          SpanID,                         \* span_id of the spans, see below
          Replicas, MaxAckPending, Prefetch, MaxFaults  \* see Aggregator

VARIABLES call, next, sent, stream                        \* Collector; call is its pc
VARIABLES status, buffer, pc, rows, aggSpans, faults      \* Aggregator

collectorVars == <<call, next, sent, stream>>
aggregatorVars == <<status, buffer, pc, rows, aggSpans, faults>>
vars == <<collectorVars, aggregatorVars>>

C == INSTANCE Collector WITH pc <- call

\* Items of a request are of its kind; the collector's own is a span.  A client
\* that repeats a failed call is another request, whose spans have the span_id
\* they had before.
ItemKind == [x \in C!Items |-> IF x = C!SpanOf(x[1]) THEN "span" ELSE RequestKind[x[1]]]

A == INSTANCE Aggregator WITH
        Messages <- C!Items, Kind <- ItemKind, Decodable <- C!Items,
        Traced <- TracedMetrics

ASSUME PipelineAssumption ==
    /\ IsFiniteSet(C!Items)
    /\ RequestKind \in [Requests -> A!Kinds]
    /\ \A r \in Traced : RequestKind[r] = "metric"
    /\ TracedMetrics \subseteq {x \in C!Items : ItemKind[x] = "metric"}
    /\ Size \in [Requests -> Nat]
    /\ Traced \subseteq Requests
    /\ Http \subseteq Requests \ Traced
    /\ \A r \in Http : Size[r] = 1
    /\ MaxAckPending \in Nat \ {0} /\ Prefetch \in Nat \ {0} /\ MaxFaults \in Nat

Init == C!Init /\ A!Init

Collect(r) == C!Receive(r) \/ C!Reject(r) \/ C!Handler(r) \/ C!Abort(r)

\* The server stores an item, and its durable consumer has it.
Store(x) == C!Store(x) /\ A!Publish(x)

Aggregate == \/ \E x \in C!Items : A!AckWait(x) \/ A!Expire(x)
             \/ \E x \in C!Items, w \in A!Workers : A!Deliver(w, x)
             \/ \E w \in A!Workers : A!Callback(w)
             \/ \E r \in Replicas : A!Crash(r)

Next == \/ \E r \in Requests : Collect(r) /\ UNCHANGED aggregatorVars
        \/ \E x \in sent : Store(x)
        \/ \E x \in sent : C!Lose(x) /\ UNCHANGED aggregatorVars
        \/ Aggregate /\ UNCHANGED collectorVars

Spec == Init /\ [][Next]_vars

\* What is in the stream is for the aggregator to bring on: nothing is assumed
\* of the collector.
FairSpec == Spec /\ A!Fairness

-----------------------------------------------------------------------------
(* Properties *)

\* What a client was told is accepted is in the tables, is on its way there,
\* or was dropped unacknowledged by the 24 h retention of the stream: it is
\* never settled unstored, and never was outside the stream.
AcceptedIsKept ==
    \A r \in Requests :
       call[r] = "ok" =>
          \A i \in 1..Size[r] :
             LET x == <<r, i>> IN
             /\ status[x] # "none"
             /\ status[x] = "acked" => rows[x] > 0

\* A collector span in the table comes after the whole of its batch: each of
\* its metrics was published before it.
SpanRowHasItsMetrics ==
    \A r \in C!Spanned :
       rows[C!SpanOf(r)] > 0 => \A i \in 1..Size[r] : status[<<r, i>>] # "none"

\* Accepted metrics and logs come to be stored unless the stream drops them,
\* whatever becomes of the spans.
AcceptedIsStoredInTheEnd ==
    \A r \in {q \in Requests : RequestKind[q] # "span"} :
       call[r] = "ok" ~>
          \A i \in 1..Size[r] : rows[<<r, i>>] > 0 \/ status[<<r, i>>] = "expired"

\* The promises of the aggregator, kept for what the collector publishes.
NoLoss == A!NoLoss
DuplicatesNeedFaults == A!DuplicatesNeedFaults
SpansSettleWithoutFaults == A!SpansSettleWithoutFaults
=============================================================================
