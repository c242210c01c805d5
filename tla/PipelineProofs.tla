--------------------------- MODULE PipelineProofs ---------------------------
(***************************************************************************)
(* Theorems about Pipeline: the collector and the aggregator keep their    *)
(* promises when they are joined, and together they keep that of the       *)
(* pipeline, from the client's answer to the tables.  The invariants of    *)
(* the parts are taken over from their own proofs.                         *)
(***************************************************************************)
EXTENDS Pipeline, TLAPS

CP == INSTANCE CollectorProofs WITH pc <- call

AP == INSTANCE AggregatorProofs WITH
         Messages <- C!Items, Kind <- ItemKind, Decodable <- C!Items,
         Traced <- TracedMetrics

LEMMA CollectorAssumed == CP!CollectorAssumption
  BY PipelineAssumption DEF CP!CollectorAssumption

LEMMA AggregatorAssumed == AP!AggregatorAssumption
<1>1. ASSUME NEW x \in C!Items PROVE ItemKind[x] \in A!Kinds
  <2>1. x[1] \in Requests
    BY DEF C!Items
  <2> QED BY <2>1, PipelineAssumption DEF ItemKind, A!Kinds
<1>2. ItemKind \in [C!Items -> A!Kinds]
  BY <1>1 DEF ItemKind
<1>3. AP!IsFiniteSet(C!Items)
  BY PipelineAssumption DEF IsFiniteSet, AP!IsFiniteSet
<1>4. AP!Kinds = A!Kinds
  BY DEF AP!Kinds, A!Kinds
<1> QED BY <1>2, <1>3, <1>4, PipelineAssumption DEF AP!AggregatorAssumption

\* What the collector does in the pipeline, it may do alone.
LEMMA CollectorInside == Spec => CP!Spec
<1>1. Init => CP!Init
  BY DEF Init, C!Init, CP!Init
<1>2. [Next]_vars => [CP!Next]_(CP!vars)
  BY DEF Next, vars, collectorVars, Collect, Store, Aggregate,
         CP!Next, CP!vars, CP!Handler, CP!Receive, CP!Reject, CP!Abort, CP!Store, CP!Lose,
         CP!Send, CP!Acked, CP!Failed, CP!Advance, CP!Goto, CP!Current, CP!Last, CP!Spanned,
         C!Handler, C!Receive, C!Reject, C!Abort, C!Store, C!Lose,
         C!Send, C!Acked, C!Failed, C!Advance, C!Goto, C!Current, C!Last, C!Spanned
<1> QED BY <1>1, <1>2, PTL DEF Spec, CP!Spec

\* The steps of Aggregate are those of the aggregator but Publish.
LEMMA AggregateIsWork == Aggregate => AP!Work
<1>w. A!Workers = AP!Workers
  BY DEF A!Workers, AP!Workers, A!Kinds, AP!Kinds
<1> USE DEF A!Kinds, AP!Kinds, A!OfKind, AP!OfKind, A!Held, AP!Held, A!Fault, AP!Fault,
            A!Handling, AP!Handling, A!Outstanding, AP!Outstanding, A!Goto, AP!Goto,
            A!workerVars, AP!workerVars, A!dbVars, AP!dbVars
<1>1. ASSUME NEW x \in C!Items, A!AckWait(x) \/ A!Expire(x) PROVE AP!AckWait(x) \/ AP!Expire(x)
  BY <1>1, <1>w DEF A!AckWait, A!Expire, AP!AckWait, AP!Expire
<1>2. ASSUME NEW x \in C!Items, NEW w \in A!Workers, A!Deliver(w, x) PROVE AP!Deliver(w, x)
  <2>1. A!Outstanding(ItemKind[x]) = AP!Outstanding(ItemKind[x])
    OBVIOUS
  <2>2. A!Cardinality(A!Outstanding(ItemKind[x])) = AP!Cardinality(AP!Outstanding(ItemKind[x]))
    BY <2>1 DEF A!Cardinality, AP!Cardinality
  <2> QED BY <1>2, <1>w, <2>2 DEF A!Deliver, AP!Deliver
<1>3. ASSUME NEW w \in A!Workers, A!Callback(w) PROVE AP!Callback(w)
  BY <1>3, <1>w DEF A!Callback, AP!Callback, A!Skip, AP!Skip, A!InsertOk, AP!InsertOk,
     A!InsertFails, AP!InsertFails, A!InsertAggregatorSpan, AP!InsertAggregatorSpan,
     A!Ack, AP!Ack, A!Nak, AP!Nak, A!Return, AP!Return, A!Store, AP!Store,
     A!Conflict, AP!Conflict
<1>4. ASSUME NEW r \in Replicas, A!Crash(r) PROVE AP!Crash(r)
  BY <1>4, <1>w DEF A!Crash, AP!Crash
<1> QED BY <1>w, <1>1, <1>2, <1>3, <1>4 DEF Aggregate, AP!Work

\* What it hands to the server are items of its requests, so what the
\* aggregator does in the pipeline, it may do alone.
LEMMA AggregatorInside == Spec => AP!Spec
<1>1. Init => AP!Init
  BY DEF Init, A!Init, AP!Init, A!Workers, AP!Workers, A!Kinds, AP!Kinds
<1>2. CP!IInv /\ [Next]_vars => [AP!Next]_(AP!vars)
  <2> SUFFICES ASSUME CP!IInv, [Next]_vars PROVE [AP!Next]_(AP!vars)
    OBVIOUS
  <2>1. ASSUME NEW x \in sent, Store(x) PROVE AP!Next
    <3>1. x \in C!Items
      BY DEF CP!IInv, CP!TypeOK, CP!Items, C!Items, CP!Last, C!Last, CP!Spanned, C!Spanned
    <3> QED BY <2>1, <3>1 DEF Store, A!Publish, AP!Next, AP!Server, AP!Publish,
              A!Published, AP!Published, AP!workerVars, A!workerVars, AP!dbVars, A!dbVars
  <2>2. CASE UNCHANGED aggregatorVars
    BY <2>2 DEF aggregatorVars, AP!vars, AP!workerVars, AP!dbVars
  <2>3. CASE Aggregate
    <3>1. AP!Work
      BY <2>3, AggregateIsWork
    <3> QED BY <3>1 DEF AP!Work, AP!Next, AP!Server
  <2> QED BY <2>1, <2>2, <2>3 DEF Next, vars
<1> QED BY <1>1, <1>2, CollectorInside, CollectorAssumed, CP!Invariance, PTL DEF Spec, AP!Spec

\* The stream of the collector and the messages of the aggregator are one.
Joined == \A x \in C!Items : x \in stream <=> status[x] # "none"

LEMMA JoinedStep ==
    AP!IInv /\ AP!IInv' /\ Joined /\ [Next]_vars => Joined'
<1> SUFFICES ASSUME AP!IInv, AP!IInv', Joined, [Next]_vars PROVE Joined'
  OBVIOUS
<1>t. status \in [C!Items -> AP!Status]
  BY DEF AP!IInv, AP!TypeOK
<1>1. ASSUME NEW r \in Requests, Collect(r), UNCHANGED aggregatorVars PROVE Joined'
  <2>1. stream' = stream
    BY <1>1 DEF Collect, C!Receive, C!Reject, C!Handler, C!Send, C!Acked, C!Failed, C!Abort
  <2> QED BY <1>1, <2>1 DEF aggregatorVars, Joined
<1>2. ASSUME NEW x \in sent, Store(x) PROVE Joined'
  BY <1>t, <1>2 DEF Store, C!Store, A!Publish, Joined
<1>3. ASSUME NEW x \in sent, C!Lose(x), UNCHANGED aggregatorVars PROVE Joined'
  BY <1>3 DEF C!Lose, aggregatorVars, Joined
<1>4. CASE Aggregate /\ UNCHANGED collectorVars
  <2>1. AP!Published' = AP!Published
    BY <1>4, AggregateIsWork, AggregatorAssumed, AP!WorkPublishesNothing
  <2> QED BY <1>4, <2>1 DEF collectorVars, Joined, AP!Published
<1>5. CASE UNCHANGED vars
  BY <1>5 DEF vars, collectorVars, aggregatorVars, Joined
<1> QED BY <1>1, <1>2, <1>3, <1>4, <1>5 DEF Next

LEMMA StreamIsOne == Spec => []Joined
<1>1. Init => Joined
  BY DEF Init, C!Init, A!Init, Joined
<1> QED BY <1>1, JoinedStep, AggregatorInside, AggregatorAssumed, AP!Invariance, PTL DEF Spec

LEMMA ItemsOf ==
    ASSUME NEW r \in Requests
    PROVE  /\ Size[r] \in Nat
           /\ \A i \in 1..Size[r] : <<r, i>> \in C!Items
           /\ r \in C!Spanned => C!SpanOf(r) \in C!Items
<1>1. Size[r] \in Nat /\ C!Last(r) \in Nat /\ Size[r] <= C!Last(r)
      /\ (r \in C!Spanned => C!Last(r) = Size[r] + 1)
  BY PipelineAssumption DEF C!Last
<1>2. \A i \in 1..C!Last(r) : <<r, i>> \in C!Items
  BY DEF C!Items
<1> QED BY <1>1, <1>2 DEF C!SpanOf

\* From the client to the tables: what SendMetrics, SendLogs, SendSpans or an
\* HTTP handler accepted is never settled without a row, for any requests,
\* replicas and limits, through lost and late publishes, redeliveries, crashes
\* and failed inserts.
THEOREM EndToEnd == Spec => []AcceptedIsKept
<1>1. CP!OkMeansStored /\ AP!NoLoss /\ Joined => AcceptedIsKept
  <2> SUFFICES ASSUME CP!OkMeansStored, AP!NoLoss, Joined,
                      NEW r \in Requests, call[r] = "ok", NEW i \in 1..Size[r]
               PROVE  /\ status[<<r, i>>] # "none"
                      /\ status[<<r, i>>] = "acked" => rows[<<r, i>>] > 0
    BY DEF AcceptedIsKept
  <2>1. <<r, i>> \in C!Items
    BY ItemsOf
  <2>2. <<r, i>> \in stream
    BY DEF CP!OkMeansStored, CP!Stored
  <2> QED BY <2>1, <2>2 DEF Joined, AP!NoLoss
<1> QED BY <1>1, CollectorAssumed, AggregatorAssumed, CollectorInside, AggregatorInside,
           CP!AcceptedIsStored, AP!NothingLost, StreamIsOne, PTL

\* A collector span found in the table belongs to a batch that the stream
\* took in whole.
THEOREM SpanRowAfterMetrics == Spec => []SpanRowHasItsMetrics
<1>1. CP!SpanHasItsMetrics /\ AP!RowsArePublished /\ Joined => SpanRowHasItsMetrics
  <2> SUFFICES ASSUME CP!SpanHasItsMetrics, AP!RowsArePublished, Joined,
                      NEW r \in C!Spanned, rows[C!SpanOf(r)] > 0, NEW i \in 1..Size[r]
               PROVE  status[<<r, i>>] # "none"
    BY DEF SpanRowHasItsMetrics
  <2>1. r \in Requests /\ r \in CP!Spanned /\ CP!SpanOf(r) = C!SpanOf(r)
    BY PipelineAssumption DEF C!Spanned, CP!Spanned, C!SpanOf, CP!SpanOf
  <2>2. <<r, i>> \in C!Items /\ C!SpanOf(r) \in C!Items
    BY <2>1, ItemsOf
  <2>3. C!SpanOf(r) \in stream
    BY <2>2 DEF AP!RowsArePublished, AP!Published, Joined
  <2>4. <<r, i>> \in stream
    BY <2>1, <2>3 DEF CP!SpanHasItsMetrics, CP!Stored
  <2> QED BY <2>2, <2>4 DEF Joined
<1> QED BY <1>1, CollectorAssumed, AggregatorAssumed, CollectorInside, AggregatorInside,
           CP!SpanAfterMetrics, AP!OnlyPublishedRows, StreamIsOne, PTL

\* The aggregator keeps its promise inside the pipeline.
THEOREM PipelineLosesNothing == Spec => []NoLoss
<1>1. AP!NoLoss => NoLoss
  BY DEF AP!NoLoss, NoLoss, A!NoLoss
<1> QED BY <1>1, AggregatorAssumed, AggregatorInside, AP!NothingLost, PTL

\* Repeated rows of what the collector publishes are paid for by faults of the
\* aggregator, one each.
THEOREM PipelinePaysForDuplicates == Spec => []DuplicatesNeedFaults
<1>1. AP!DuplicatesNeedFaults => DuplicatesNeedFaults
  BY DEF AP!DuplicatesNeedFaults, DuplicatesNeedFaults, A!DuplicatesNeedFaults,
         AP!OfKind, A!OfKind
<1> QED BY <1>1, AggregatorAssumed, AggregatorInside, AP!DuplicatesArePaidFor, PTL

\* Collector and aggregator together implement the at-least-once sink: what
\* the collector stores in the stream is accepted, and settled only when it is
\* in the tables or has aged out.
THEOREM PipelineIsASink == Spec => A!ImplementsSink
<1>1. AP!Sink!Init => A!Sink!Init
  BY DEF AP!Sink!Init, A!Sink!Init, AP!Published, A!Published
<1>2. [AP!Sink!Next]_(AP!Sink!vars) => [A!Sink!Next]_(A!Sink!vars)
  BY DEF AP!Sink!Next, AP!Sink!Accept, AP!Sink!Record, AP!Sink!Settle, AP!Sink!Drop,
         AP!Sink!vars, AP!Published,
         A!Sink!Next, A!Sink!Accept, A!Sink!Record, A!Sink!Settle, A!Sink!Drop,
         A!Sink!vars, A!Published
<1> QED BY <1>1, <1>2, AggregatorAssumed, AggregatorInside, AP!Refinement, PTL
        DEF AP!ImplementsSink, A!ImplementsSink, AP!Sink!Spec, A!Sink!Spec
=============================================================================
