----------------------------- MODULE Aggregator -----------------------------
(***************************************************************************)
(* The aggregator (cmd/aggregator) between the JetStream stream TELEMETRY  *)
(* and PostgreSQL.  Each replica runs one goroutine per kind of telemetry; *)
(* the replicas share one durable consumer per kind ("agg-metrics",        *)
(* "agg-logs", "agg-spans").  The NATS server is modelled as the code      *)
(* configures it (internal/nats/jetstream.go): explicit acknowledgement,   *)
(* at most MaxAckPending deliveries outstanding per durable, redelivery on *)
(* Nak or after AckWait, no limit on redeliveries, messages aged out after *)
(* MaxAge.  A worker prefetches deliveries and runs its callback on one at *)
(* a time.                                                                 *)
(***************************************************************************)
EXTENDS Integers, Sequences, FiniteSets

CONSTANTS Messages,       \* messages published on telemetry.*
          Replicas,       \* aggregator processes
          Kind,           \* Kind[m]: the subject m is published on
          Decodable,      \* messages whose payload json.Unmarshal accepts
          Traced,         \* metric messages that carry a trace_id
          SpanID,         \* SpanID[m]: span_id of a span message
          MaxAckPending,  \* deliveries outstanding per durable (512)
          Prefetch,       \* deliveries a worker buffers (nats.go: 500)
          MaxFaults       \* bound on faults, see the variable

Kinds == {"metric", "log", "span"}

ASSUME AggregatorAssumption ==
    /\ IsFiniteSet(Messages)
    /\ Kind \in [Messages -> Kinds]
    /\ Decodable \subseteq Messages
    /\ Traced \subseteq {m \in Messages : Kind[m] = "metric"}
    /\ MaxAckPending \in Nat \ {0}
    /\ Prefetch \in Nat \ {0}
    /\ MaxFaults \in Nat

Workers == Replicas \X Kinds   \* one goroutine per replica and kind
OfKind(k) == {m \in Messages : Kind[m] = k}

VARIABLES
    \* The stream and its durable consumers (the NATS server).
    status,    \* where a message stands at its durable consumer
    \* The aggregator replicas.
    buffer,    \* deliveries prefetched by a worker; the head is handled
    pc,        \* what the callback of a worker does next
    \* PostgreSQL.
    rows,      \* rows stored for a message
    aggSpans,  \* "aggregator.insert_metric" span rows stored for a metric
    \* Faults so far: lost acknowledgements, crashes, inserts whose error
    \* hides a commit, deliveries whose AckWait ends while they are held.
    faults

workerVars == <<buffer, pc>>
dbVars == <<rows, aggSpans>>
vars == <<status, workerVars, dbVars, faults>>

Status == {"none", "waiting", "pending", "redeliver", "acked", "expired"}
Steps == {"idle", "traced", "ack", "nak"}

\* A worker holds messages of its own kind only, and a callback under way
\* always has its message.
TypeOK == /\ status \in [Messages -> Status]
          /\ buffer \in [Workers -> Seq(Messages)]
          /\ pc \in [Workers -> Steps]
          /\ rows \in [Messages -> Nat]
          /\ aggSpans \in [Messages -> Nat]
          /\ faults \in 0..MaxFaults
          /\ \A w \in Workers :
                /\ buffer[w] \in Seq(OfKind(w[2]))
                /\ pc[w] # "idle" => buffer[w] # <<>>

Init == /\ status = [m \in Messages |-> "none"]
        /\ buffer = [w \in Workers |-> <<>>]
        /\ pc = [w \in Workers |-> "idle"]
        /\ rows = [m \in Messages |-> 0]
        /\ aggSpans = [m \in Messages |-> 0]
        /\ faults = 0

-----------------------------------------------------------------------------
(* Helpers *)

Published == {m \in Messages : status[m] # "none"}
\* Mutant: one durable consumer for all of telemetry.*.
OutstandingOfAll(k) == {m \in Messages : status[m] \in {"pending", "redeliver"}}

Outstanding(k) == {m \in OfKind(k) : status[m] \in {"pending", "redeliver"}}
Held(m) == \E w \in Workers : \E i \in DOMAIN buffer[w] : buffer[w][i] = m
Handling(w) == buffer[w] # <<>> /\ pc[w] = "idle"
Fault == faults < MaxFaults /\ faults' = faults + 1

\* idx_spans_span_id is a UNIQUE index; metrics and logs have none.
Conflict(m) == /\ Kind[m] = "span"
               /\ \E n \in OfKind("span") : SpanID[n] = SpanID[m] /\ rows[n] > 0

-----------------------------------------------------------------------------
(* The NATS server *)

\* A collector's js.Publish is stored.
Publish(m) == /\ m \notin Published
              /\ status' = [status EXCEPT ![m] = "waiting"]
              /\ UNCHANGED <<workerVars, dbVars, faults>>

\* Redeliveries go first, and MaxAckPending does not hold them back.  Which of
\* several messages is next is left open.
Deliver(w, m) ==
    /\ Kind[m] = w[2]
    /\ Len(buffer[w]) < Prefetch
    /\ \/ status[m] = "redeliver"
       \/ /\ status[m] = "waiting"
          /\ \A n \in OfKind(Kind[m]) : status[n] # "redeliver"
          /\ Cardinality(Outstanding(Kind[m])) < MaxAckPending
    /\ status' = [status EXCEPT ![m] = "pending"]
    /\ buffer' = [buffer EXCEPT ![w] = Append(@, m)]
    /\ UNCHANGED <<pc, dbVars, faults>>

\* AckWait ends: a delivery nobody holds any more, or one that still waits
\* behind a slow handler.
AckWait(m) == /\ status[m] = "pending"
              /\ IF Held(m) THEN Fault ELSE UNCHANGED faults
              /\ status' = [status EXCEPT ![m] = "redeliver"]
              /\ UNCHANGED <<workerVars, dbVars>>

\* MaxAge removes a message from the stream.
Expire(m) == /\ status[m] \in {"waiting", "pending", "redeliver"}
             /\ status' = [status EXCEPT ![m] = "expired"]
             /\ UNCHANGED <<workerVars, dbVars, faults>>

-----------------------------------------------------------------------------
(* The callback of a worker *)

Goto(w, step) == pc' = [pc EXCEPT ![w] = step]
Store(m) == rows' = [rows EXCEPT ![m] = @ + 1]

\* json.Unmarshal fails: "bad message: ack and skip".
Skip(w) == /\ Handling(w)
           /\ Head(buffer[w]) \notin Decodable
           /\ Goto(w, "ack")
           /\ UNCHANGED <<status, buffer, dbVars, faults>>

InsertOk(w) ==
    LET m == Head(buffer[w]) IN
    /\ Handling(w)
    /\ m \in Decodable
    /\ ~Conflict(m)
    /\ Store(m)
    /\ Goto(w, IF m \in Traced THEN "traced" ELSE "ack")
    /\ UNCHANGED <<status, buffer, aggSpans, faults>>

\* Mutant: the handler logs the error but returns nil.
InsertFailsAcked(w) ==
    /\ Handling(w)
    /\ Head(buffer[w]) \in Decodable
    /\ Goto(w, "ack")
    /\ UNCHANGED <<status, buffer, dbVars, faults>>

\* Mutant: the handler goes on after the error of InsertMetric.
InsertFailsGoesOn(w) ==
    LET m == Head(buffer[w]) IN
    /\ Handling(w)
    /\ m \in Decodable
    /\ Goto(w, IF m \in Traced THEN "traced" ELSE "nak")
    /\ UNCHANGED <<status, buffer, dbVars, faults>>

\* The insert returns an error; the row may have been committed all the same
\* (the context was cancelled, or the connection broke, before the reply).
InsertFails(w) ==
    LET m == Head(buffer[w]) IN
    /\ Handling(w)
    /\ m \in Decodable
    /\ \/ UNCHANGED <<rows, faults>>
       \/ ~Conflict(m) /\ Store(m) /\ Fault
    /\ Goto(w, "nak")
    /\ UNCHANGED <<status, buffer, aggSpans>>

\* Mutant: the error of the aggregator's span fails the metric.
InsertAggregatorSpanOrNak(w) ==
    LET m == Head(buffer[w]) IN
    /\ pc[w] = "traced"
    /\ \/ aggSpans' = [aggSpans EXCEPT ![m] = @ + 1] /\ Goto(w, "ack")
       \/ UNCHANGED aggSpans /\ Goto(w, "nak")
    /\ UNCHANGED <<status, buffer, rows, faults>>

\* The aggregator's own span of a traced metric: its error is ignored.
InsertAggregatorSpan(w) ==
    LET m == Head(buffer[w]) IN
    /\ pc[w] = "traced"
    /\ \/ aggSpans' = [aggSpans EXCEPT ![m] = @ + 1]
       \/ UNCHANGED aggSpans
    /\ Goto(w, "ack")
    /\ UNCHANGED <<status, buffer, rows, faults>>

\* The callback returns; the next prefetched delivery is its worker's turn.
Return(w) == /\ buffer' = [buffer EXCEPT ![w] = Tail(@)]
             /\ Goto(w, "idle")
             /\ UNCHANGED dbVars

\* Mutant: the success path forgets the Ack.
AckForgotten(w) == /\ pc[w] = "ack"
                   /\ Return(w)
                   /\ UNCHANGED <<status, faults>>

\* _ = msg.Ack().  The server takes the Ack of any delivery of a message.
Ack(w) ==
    LET m == Head(buffer[w]) IN
    /\ pc[w] = "ack"
    /\ \/ /\ status' = IF status[m] \in {"pending", "redeliver"}
                       THEN [status EXCEPT ![m] = "acked"] ELSE status
          /\ UNCHANGED faults
       \/ Fault /\ UNCHANGED status   \* lost
    /\ Return(w)

\* Mutant: msg.Term() where the code has msg.Nak().
NakTerminates(w) ==
    LET m == Head(buffer[w]) IN
    /\ pc[w] = "nak"
    /\ status' = [status EXCEPT ![m] = "acked"]
    /\ Return(w)
    /\ UNCHANGED faults

\* _ = msg.Nak()
Nak(w) ==
    LET m == Head(buffer[w]) IN
    /\ pc[w] = "nak"
    /\ \/ /\ status' = IF status[m] = "pending"
                       THEN [status EXCEPT ![m] = "redeliver"] ELSE status
          /\ UNCHANGED faults
       \/ Fault /\ UNCHANGED status   \* lost
    /\ Return(w)

\* Mutant: the restarted replica goes on where it was.
CrashKeepsPc(r) ==
    /\ \E k \in Kinds : buffer[<<r, k>>] # <<>>
    /\ buffer' = [w \in Workers |-> IF w[1] = r THEN <<>> ELSE buffer[w]]
    /\ Fault
    /\ UNCHANGED <<status, pc, dbVars>>

\* A replica is killed, or stops on SIGTERM (cc.Stop drops what it has
\* prefetched), and is started again by its Deployment.
Crash(r) == /\ \E k \in Kinds : buffer[<<r, k>>] # <<>>
            /\ buffer' = [w \in Workers |-> IF w[1] = r THEN <<>> ELSE buffer[w]]
            /\ pc' = [w \in Workers |-> IF w[1] = r THEN "idle" ELSE pc[w]]
            /\ Fault
            /\ UNCHANGED <<status, dbVars>>

Server == \E m \in Messages :
             Publish(m) \/ AckWait(m) \/ Expire(m) \/ \E w \in Workers : Deliver(w, m)

Callback(w) == \/ Skip(w)
               \/ InsertOk(w)
               \/ InsertFails(w)
               \/ InsertAggregatorSpan(w)
               \/ Ack(w)
               \/ Nak(w)

Next == \/ Server
        \/ \E w \in Workers : Callback(w)
        \/ \E r \in Replicas : Crash(r)

Spec == Init /\ [][Next]_vars

-----------------------------------------------------------------------------
(* Fairness.  The server delivers what it may deliver and ends the AckWait *)
(* of deliveries nobody holds; a callback that runs goes on; PostgreSQL    *)
(* does not fail for ever.  Nothing is assumed of publishers, of faults or *)
(* of MaxAge.                                                              *)

DeliverKind(k) == \E m \in OfKind(k), w \in Workers : Deliver(w, m)
LostDelivery(m) == ~Held(m) /\ AckWait(m)

Fairness == /\ \A k \in Kinds : WF_vars(DeliverKind(k))
            /\ \A m \in Messages : WF_vars(LostDelivery(m))
            /\ \A w \in Workers : WF_vars(Callback(w)) /\ SF_vars(InsertOk(w))

FairSpec == Spec /\ Fairness

-----------------------------------------------------------------------------
(* Properties *)

\* A message is acknowledged only when it is stored or can never be decoded:
\* the handlers return nil only then (consumer.go), across redeliveries,
\* crashes, lost and late acknowledgements.
NoLoss == \A m \in Messages :
             status[m] = "acked" => m \notin Decodable \/ rows[m] > 0

\* A clean failure never duplicates telemetry: every row of a message beyond
\* the first is paid for by a fault, however often it is redelivered, and a
\* span_id has one row at most (idx_spans_span_id).
DuplicatesNeedFaults ==
    /\ \A m \in Messages : rows[m] <= 1 + faults
    /\ \A m, n \in OfKind("span") :
          SpanID[m] = SpanID[n] => rows[m] + rows[n] <= IF m = n THEN 2 ELSE 1

\* An aggregator span in a trace stands for a stored data point: a metric has
\* no more of them than rows, and only a traced metric that decodes has any.
\* The converse is not claimed: a row has no span when the second insert fails,
\* when a crash comes between the two, and when the first reports an error
\* although it has committed.
AggregatorSpansMatchRows ==
    \A m \in Messages : /\ aggSpans[m] <= rows[m]
                        /\ aggSpans[m] > 0 => m \in Traced \cap Decodable

Sink == INSTANCE TelemetrySink WITH
           accepted <- Published,
           recorded <- {m \in Messages : rows[m] > 0},
           settled <- {m \in Messages : status[m] = "acked"},
           dropped <- {m \in Messages : status[m] = "expired"}

\* The aggregator implements the at-least-once sink.
ImplementsSink == Sink!Spec

Settled(m) == status[m] \in {"acked", "expired"}

\* No client has repeated a call with a span in it.
SpansDiffer == \A m, n \in OfKind("span") \cap Published : SpanID[m] = SpanID[n] => m = n

\* Spans get through, each past those before it that hold places of the
\* durable, as long as nothing makes the aggregator store a span_id twice: no
\* fault, and no client that sends a span again.  Inserts may fail cleanly.
SpansSettleWithoutFaults ==
    [](faults = 0 /\ SpansDiffer) =>
       \A m \in OfKind("span") : m \in Published ~> Settled(m)

\* README, "guaranteed delivery": a published span with an identifier of its
\* own is stored, unless it ages out of the stream first.
SpansAreDelivered ==
    \A m \in OfKind("span") :
       m \in Published ~> rows[m] > 0 \/ status[m] = "expired"
=============================================================================
