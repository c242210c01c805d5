-------------------------- MODULE AggregatorProofs --------------------------
(***************************************************************************)
(* Theorems about Aggregator, for any messages, replicas and limits: the   *)
(* type invariant; that nothing is acknowledged unstored; that every row   *)
(* beyond the first is paid for by a fault, and every trace span stands    *)
(* for a row; and that the aggregator implements the at-least-once sink.   *)
(***************************************************************************)
EXTENDS Aggregator, FiniteSetTheorems, TLAPS

\* The head and the tail of a nonempty queue of deliveries: what Return and
\* the handlers take from buffer[w].
LEMMA HeadTail ==
    ASSUME NEW S, NEW s \in Seq(S), s # <<>>
    PROVE  /\ Head(s) \in S
           /\ Tail(s) \in Seq(S)
  OBVIOUS

\* Appending a delivery keeps what is in the queue: what Deliver does.
LEMMA AppendLast ==
    ASSUME NEW S, NEW s \in Seq(S), NEW e \in S
    PROVE  /\ Append(s, e) \in Seq(S)
           /\ Append(s, e) # <<>>
           /\ s # <<>> => Head(Append(s, e)) = Head(s)
<1>1. Append(s, e) \in Seq(S)
  OBVIOUS
<1>2. Append(s, e) # <<>>
  <2>1. Len(Append(s, e)) = Len(s) + 1 /\ Len(s) \in Nat /\ Len(<<>>) = 0
    OBVIOUS
  <2> QED BY <2>1
<1>3. ASSUME s # <<>> PROVE Head(Append(s, e)) = Head(s)
  <2>1. Len(s) \in Nat /\ Len(s) > 0
    BY <1>3
  <2>2. Append(s, e)[1] = s[1]
    BY <2>1
  <2>3. Head(s) = s[1] /\ Head(Append(s, e)) = Append(s, e)[1]
    BY <1>2, <1>3
  <2> QED BY <2>2, <2>3
<1> QED BY <1>1, <1>2, <1>3

LEMMA SeqSubset ==
    ASSUME NEW S, NEW T, S \subseteq T, NEW s \in Seq(S)
    PROVE  s \in Seq(T)
  OBVIOUS

\* A message whose handler has succeeded is stored, or cannot be decoded.
HandledIsStored ==
    \A w \in Workers : pc[w] \in {"traced", "ack"} =>
       \/ Head(buffer[w]) \notin Decodable
       \/ rows[Head(buffer[w])] > 0

\* Only what was published is ever in a worker's hands.
HeldIsPublished == \A w \in Workers : buffer[w] \in Seq(Published)

\* NoLoss alone is not inductive: it says nothing of the callback that is
\* about to acknowledge.
IInv == TypeOK /\ HandledIsStored /\ HeldIsPublished /\ NoLoss

\* The types hold in every step, whatever the step: Next preserves TypeOK.
LEMMA TypeStep == TypeOK /\ [Next]_vars => TypeOK'
<1> SUFFICES ASSUME TypeOK, [Next]_vars PROVE TypeOK'
  OBVIOUS
<1> MaxFaults \in Nat
  BY AggregatorAssumption
<1> USE DEF TypeOK, Status, Steps, Goto, Fault
<1>1. ASSUME NEW m \in Messages, Publish(m) PROVE TypeOK'
  BY <1>1 DEF Publish, workerVars, dbVars
<1>2. ASSUME NEW m \in Messages, NEW w \in Workers, Deliver(w, m) PROVE TypeOK'
  <2>1. /\ buffer' \in [Workers -> Seq(Messages)]
        /\ buffer'[w] = Append(buffer[w], m)
        /\ \A v \in Workers \ {w} : buffer'[v] = buffer[v]
        /\ Kind[m] = w[2]
    BY <1>2, AppendLast DEF Deliver
  <2>2. ASSUME NEW v \in Workers
        PROVE  buffer'[v] \in Seq(OfKind(v[2])) /\ (pc[v] # "idle" => buffer'[v] # <<>>)
    <3>1. CASE v = w
      <4>1. m \in OfKind(w[2]) /\ buffer[w] \in Seq(OfKind(w[2]))
        BY <2>1 DEF OfKind
      <4>2. buffer'[w] \in Seq(OfKind(w[2]))
        BY <2>1, <4>1, AppendLast
      <4>3. buffer'[w] # <<>>
        BY <2>1, AppendLast
      <4> QED BY <3>1, <4>2, <4>3
    <3> QED BY <2>1, <3>1
  <2> QED BY <1>2, <2>1, <2>2 DEF Deliver, dbVars
<1>3. ASSUME NEW m \in Messages, AckWait(m) PROVE TypeOK'
  BY <1>3 DEF AckWait, workerVars, dbVars
<1>4. ASSUME NEW m \in Messages, Expire(m) PROVE TypeOK'
  BY <1>4 DEF Expire, workerVars, dbVars
<1>5. ASSUME NEW w \in Workers, Skip(w) PROVE TypeOK'
  BY <1>5 DEF Skip, Handling, dbVars
<1>6. ASSUME NEW w \in Workers, InsertOk(w) PROVE TypeOK'
  <2>1. Head(buffer[w]) \in Messages /\ buffer[w] # <<>>
    BY <1>6, HeadTail DEF InsertOk, Handling
  <2> QED BY <1>6, <2>1 DEF InsertOk, Store
<1>7. ASSUME NEW w \in Workers, InsertFails(w) PROVE TypeOK'
  <2>1. Head(buffer[w]) \in Messages /\ buffer[w] # <<>>
    BY <1>7, HeadTail DEF InsertFails, Handling
  <2>2. rows' = rows \/ rows' = [rows EXCEPT ![Head(buffer[w])] = @ + 1]
    BY <1>7 DEF InsertFails, Store
  <2>3. faults' \in 0..MaxFaults
    BY <1>7 DEF InsertFails
  <2>4. pc' = [pc EXCEPT ![w] = "nak"]
    BY <1>7 DEF InsertFails
  <2>5. rows' \in [Messages -> Nat] /\ pc' \in [Workers -> Steps]
    BY <2>1, <2>2, <2>4
  <2>6. \A v \in Workers : pc'[v] # "idle" => buffer[v] # <<>>
    BY <2>1, <2>4
  <2> QED BY <1>7, <2>3, <2>5, <2>6 DEF InsertFails
<1>8. ASSUME NEW w \in Workers, InsertAggregatorSpan(w) PROVE TypeOK'
  <2>1. Head(buffer[w]) \in Messages /\ buffer[w] # <<>>
    BY <1>8, HeadTail DEF InsertAggregatorSpan
  <2>2. pc' = [pc EXCEPT ![w] = "ack"]
    BY <1>8 DEF InsertAggregatorSpan
  <2>3. aggSpans' \in [Messages -> Nat]
    <3>1. \/ aggSpans' = aggSpans
          \/ aggSpans' = [aggSpans EXCEPT ![Head(buffer[w])] = @ + 1]
      BY <1>8 DEF InsertAggregatorSpan
    <3> QED BY <2>1, <3>1
  <2>4. pc' \in [Workers -> Steps] /\ \A v \in Workers : pc'[v] # "idle" => buffer[v] # <<>>
    BY <2>1, <2>2
  <2> QED BY <1>8, <2>3, <2>4 DEF InsertAggregatorSpan
<1>9. ASSUME NEW w \in Workers, Ack(w) \/ Nak(w) PROVE TypeOK'
  <2>0. /\ buffer[w] \in Seq(Messages)
        /\ buffer[w] \in Seq(OfKind(w[2]))
        /\ buffer[w] # <<>>
    BY <1>9 DEF Ack, Nak
  <2>1. /\ Head(buffer[w]) \in Messages
        /\ Tail(buffer[w]) \in Seq(Messages)
        /\ Tail(buffer[w]) \in Seq(OfKind(w[2]))
    BY <2>0, HeadTail
  <2>2. Return(w)
    BY <1>9 DEF Ack, Nak
  <2>3. /\ buffer' \in [Workers -> Seq(Messages)]
        /\ pc' \in [Workers -> Steps]
        /\ \A v \in Workers : /\ buffer'[v] \in Seq(OfKind(v[2]))
                              /\ pc'[v] # "idle" => buffer'[v] # <<>>
    BY <2>1, <2>2 DEF Return
  <2>4. status' \in [Messages -> Status]
    BY <1>9, <2>1 DEF Ack, Nak
  <2>5. faults' \in 0..MaxFaults
    BY <1>9 DEF Ack, Nak
  <2> QED BY <2>2, <2>3, <2>4, <2>5 DEF Return, dbVars
<1>10. ASSUME NEW r \in Replicas, Crash(r) PROVE TypeOK'
  <2>1. /\ buffer' = [w \in Workers |-> IF w[1] = r THEN <<>> ELSE buffer[w]]
        /\ pc' = [w \in Workers |-> IF w[1] = r THEN "idle" ELSE pc[w]]
    BY <1>10 DEF Crash
  <2>2. buffer' \in [Workers -> Seq(Messages)] /\ pc' \in [Workers -> Steps]
    BY <2>1
  <2>3. ASSUME NEW w \in Workers
        PROVE  buffer'[w] \in Seq(OfKind(w[2])) /\ (pc'[w] # "idle" => buffer'[w] # <<>>)
    <3>1. CASE w[1] = r
      <4>1. buffer'[w] = <<>> /\ pc'[w] = "idle"
        BY <2>1, <3>1
      <4>2. <<>> \in Seq(OfKind(w[2]))
        OBVIOUS
      <4> QED BY <4>1, <4>2
    <3>2. CASE w[1] # r
      BY <2>1, <3>2
    <3> QED BY <3>1, <3>2
  <2>4. faults' \in 0..MaxFaults
    BY <1>10 DEF Crash
  <2> QED BY <1>10, <2>2, <2>3, <2>4 DEF Crash, dbVars
<1>11. CASE UNCHANGED vars
  BY <1>11 DEF vars, workerVars, dbVars
<1> QED
  BY <1>1, <1>2, <1>3, <1>4, <1>5, <1>6, <1>7, <1>8, <1>9, <1>10, <1>11
     DEF Next, Server, Callback

\* Type correctness: Aggregator's state has the shape the code gives it, and a
\* worker only ever holds messages of its own subject.
THEOREM TypeCorrect == Spec => []TypeOK
<1>1. Init => TypeOK
  BY AggregatorAssumption DEF Init, TypeOK, Status, Steps
<1> QED BY <1>1, TypeStep, PTL DEF Spec
\* A delivery puts a published message into a buffer, and none is unpublished.
LEMMA HeldStep == TypeOK /\ HeldIsPublished /\ [Next]_vars => HeldIsPublished'
<1> SUFFICES ASSUME TypeOK, HeldIsPublished, [Next]_vars PROVE HeldIsPublished'
  OBVIOUS
<1>t. status \in [Messages -> Status] /\ buffer \in [Workers -> Seq(Messages)]
  BY DEF TypeOK
<1>p. \A w \in Workers : buffer[w] \in Seq(Published)
  BY DEF HeldIsPublished
<1>1. ASSUME NEW m \in Messages, NEW s \in Status \ {"none"},
             status' = [status EXCEPT ![m] = s]
      PROVE  Published \subseteq Published' /\ m \in Published'
  BY <1>t, <1>1 DEF Published
<1>2. ASSUME NEW m \in Messages, Publish(m) \/ AckWait(m) \/ Expire(m)
      PROVE  HeldIsPublished'
  <2>1. \E s \in Status \ {"none"} : status' = [status EXCEPT ![m] = s]
    BY <1>2 DEF Publish, AckWait, Expire, Status
  <2>2. Published \subseteq Published' /\ buffer' = buffer
    BY <1>1, <1>2, <2>1 DEF Publish, AckWait, Expire, workerVars
  <2> QED BY <1>p, <2>2, SeqSubset DEF HeldIsPublished
<1>3. ASSUME NEW m \in Messages, NEW w \in Workers, Deliver(w, m)
      PROVE  HeldIsPublished'
  <2>1. Published \subseteq Published' /\ m \in Published'
    <3>1. "pending" \in Status \ {"none"} /\ status' = [status EXCEPT ![m] = "pending"]
      BY <1>3 DEF Deliver, Status
    <3> QED BY <1>1, <3>1
  <2>2. ASSUME NEW v \in Workers PROVE buffer'[v] \in Seq(Published')
    <3>1. buffer'[v] = IF v = w THEN Append(buffer[v], m) ELSE buffer[v]
      BY <1>3, <1>t DEF Deliver
    <3>2. buffer[v] \in Seq(Published')
      BY <1>p, <2>1, SeqSubset
    <3> QED BY <2>1, <3>1, <3>2, AppendLast
  <2> QED BY <2>2 DEF HeldIsPublished
<1>4. ASSUME NEW w \in Workers,
             Skip(w) \/ InsertOk(w) \/ InsertFails(w) \/ InsertAggregatorSpan(w)
      PROVE  HeldIsPublished'
  BY <1>4, <1>p
     DEF Skip, InsertOk, InsertFails, InsertAggregatorSpan, HeldIsPublished, Published
<1>5. ASSUME NEW w \in Workers, Ack(w) \/ Nak(w) PROVE HeldIsPublished'
  <2>1. Published \subseteq Published'
    BY <1>5, <1>t DEF Ack, Nak, Published
  <2>2. buffer' = [buffer EXCEPT ![w] = Tail(@)] /\ pc[w] # "idle"
    BY <1>5 DEF Ack, Nak, Return
  <2>3. buffer[w] # <<>>
    BY <2>2 DEF TypeOK
  <2>4. ASSUME NEW v \in Workers PROVE buffer'[v] \in Seq(Published)
    <3>1. buffer'[v] = IF v = w THEN Tail(buffer[v]) ELSE buffer[v]
      BY <1>t, <2>2
    <3> QED BY <1>p, <2>3, <3>1, HeadTail
  <2> QED BY <2>1, <2>4, SeqSubset DEF HeldIsPublished
<1>6. ASSUME NEW r \in Replicas, Crash(r) PROVE HeldIsPublished'
  <2>1. Published' = Published
    BY <1>6 DEF Crash, Published
  <2>2. ASSUME NEW v \in Workers PROVE buffer'[v] \in Seq(Published)
    <3>1. buffer'[v] = <<>> \/ buffer'[v] = buffer[v]
      BY <1>6 DEF Crash
    <3>2. <<>> \in Seq(Published)
      OBVIOUS
    <3> QED BY <1>p, <3>1, <3>2
  <2> QED BY <2>1, <2>2 DEF HeldIsPublished
<1>7. CASE UNCHANGED vars
  BY <1>7, <1>p DEF vars, workerVars, HeldIsPublished, Published
<1> QED BY <1>2, <1>3, <1>4, <1>5, <1>6, <1>7 DEF Next, Server, Callback

\* Rows are never deleted by the aggregator, and no step but Ack settles a
\* message or lets a callback run on without an insert.
LEMMA InvStep == IInv /\ [Next]_vars => IInv'
<1> SUFFICES ASSUME IInv, [Next]_vars PROVE HandledIsStored' /\ NoLoss'
  BY TypeStep, HeldStep DEF IInv
<1> USE DEF IInv, HandledIsStored, NoLoss
<1>t. /\ status \in [Messages -> Status]
      /\ buffer \in [Workers -> Seq(Messages)]
      /\ pc \in [Workers -> Steps]
      /\ rows \in [Messages -> Nat]
      /\ \A w \in Workers : pc[w] # "idle" => buffer[w] # <<>>
  BY DEF TypeOK
<1>h. \A w \in Workers : buffer[w] # <<>> => Head(buffer[w]) \in Messages
  BY <1>t, HeadTail
<1>1. ASSUME NEW m \in Messages, Publish(m) \/ AckWait(m) \/ Expire(m)
      PROVE  HandledIsStored' /\ NoLoss'
  <2>1. \E s \in Status \ {"acked"} : status' = [status EXCEPT ![m] = s]
    BY <1>1 DEF Publish, AckWait, Expire, Status
  <2> QED BY <1>1, <1>t, <2>1 DEF Publish, AckWait, Expire, workerVars, dbVars
<1>2. ASSUME NEW m \in Messages, NEW w \in Workers, Deliver(w, m)
      PROVE  HandledIsStored' /\ NoLoss'
  <2>1. ASSUME NEW v \in Workers, pc[v] # "idle" PROVE Head(buffer'[v]) = Head(buffer[v])
    <3>1. buffer'[v] = IF v = w THEN Append(buffer[v], m) ELSE buffer[v]
      BY <1>2, <1>t DEF Deliver
    <3>2. buffer[v] \in Seq(Messages) /\ buffer[v] # <<>>
      BY <1>t, <2>1
    <3> QED BY <3>1, <3>2, AppendLast
  <2> QED BY <1>2, <1>t, <2>1 DEF Deliver, dbVars
<1>3. ASSUME NEW w \in Workers, Skip(w) PROVE HandledIsStored' /\ NoLoss'
  BY <1>3, <1>t DEF Skip, Goto, dbVars
<1>4. ASSUME NEW w \in Workers, InsertOk(w) PROVE HandledIsStored' /\ NoLoss'
  <2>1. Head(buffer[w]) \in Messages
    BY <1>4, <1>h DEF InsertOk, Handling
  <2>2. rows' = [rows EXCEPT ![Head(buffer[w])] = @ + 1]
    BY <1>4 DEF InsertOk, Store
  <2>3. rows'[Head(buffer[w])] > 0 /\ \A m \in Messages : rows[m] > 0 => rows'[m] > 0
    BY <1>t, <2>1, <2>2
  <2>4. \A v \in Workers \ {w} : pc'[v] = pc[v]
    BY <1>4, <1>t DEF InsertOk, Goto
  <2>5. buffer' = buffer /\ status' = status
    BY <1>4 DEF InsertOk
  <2>6. \A v \in Workers : pc[v] # "idle" => Head(buffer[v]) \in Messages
    BY <1>t, <1>h
  <2> QED BY <2>3, <2>4, <2>5, <2>6
<1>5. ASSUME NEW w \in Workers, InsertFails(w) PROVE HandledIsStored' /\ NoLoss'
  <2>1. Head(buffer[w]) \in Messages
    BY <1>5, <1>h DEF InsertFails, Handling
  <2>2. rows' = rows \/ rows' = [rows EXCEPT ![Head(buffer[w])] = @ + 1]
    BY <1>5 DEF InsertFails, Store
  <2>3. \A m \in Messages : rows[m] > 0 => rows'[m] > 0
    BY <1>t, <2>1, <2>2
  <2>4. pc' = [pc EXCEPT ![w] = "nak"]
    BY <1>5 DEF InsertFails, Goto
  <2>5. buffer' = buffer /\ status' = status
    BY <1>5 DEF InsertFails
  <2>6. \A v \in Workers : pc[v] # "idle" => Head(buffer[v]) \in Messages
    BY <1>t, <1>h
  <2> QED BY <1>t, <2>3, <2>4, <2>5, <2>6
<1>6. ASSUME NEW w \in Workers, InsertAggregatorSpan(w) PROVE HandledIsStored' /\ NoLoss'
  <2>1. pc[w] = "traced" /\ pc' = [pc EXCEPT ![w] = "ack"] /\ rows' = rows
    BY <1>6 DEF InsertAggregatorSpan, Goto
  <2>2. buffer' = buffer /\ status' = status
    BY <1>6 DEF InsertAggregatorSpan
  <2> QED BY <1>t, <2>1, <2>2
<1>7. ASSUME NEW w \in Workers, Ack(w) \/ Nak(w) PROVE HandledIsStored' /\ NoLoss'
  <2>1. /\ buffer' = [buffer EXCEPT ![w] = Tail(@)]
        /\ pc' = [pc EXCEPT ![w] = "idle"]
        /\ rows' = rows
    BY <1>7 DEF Ack, Nak, Return, Goto, dbVars
  <2>2. HandledIsStored'
    BY <1>t, <2>1
  <2>3. CASE Ack(w)
    <3>1. pc[w] = "ack" /\ Head(buffer[w]) \in Messages
      BY <1>t, <1>h, <2>3 DEF Ack
    <3>2. status' = status \/ status' = [status EXCEPT ![Head(buffer[w])] = "acked"]
      BY <2>3 DEF Ack
    <3> QED BY <1>t, <2>1, <2>2, <3>1, <3>2
  <2>4. CASE Nak(w)
    <3>1. status' = status \/ status' = [status EXCEPT ![Head(buffer[w])] = "redeliver"]
      BY <2>4 DEF Nak
    <3> QED BY <1>t, <2>1, <2>2, <3>1
  <2> QED BY <1>7, <2>3, <2>4
<1>8. ASSUME NEW r \in Replicas, Crash(r) PROVE HandledIsStored' /\ NoLoss'
  BY <1>8, <1>t DEF Crash, dbVars
<1>9. CASE UNCHANGED vars
  BY <1>9 DEF vars, workerVars, dbVars
<1> QED BY <1>1, <1>2, <1>3, <1>4, <1>5, <1>6, <1>7, <1>8, <1>9
        DEF Next, Server, Callback

LEMMA InvInit == Init => IInv
  BY AggregatorAssumption
     DEF Init, IInv, TypeOK, HandledIsStored, HeldIsPublished, NoLoss, Status, Steps

\* IInv is inductive, hence invariant.
LEMMA Invariance == Spec => []IInv
  BY InvInit, InvStep, PTL DEF Spec

\* Nothing is lost at the aggregator: whatever is redelivered, crashes or goes
\* unanswered, an acknowledged message is stored or could not be decoded.
THEOREM NothingLost == Spec => []NoLoss
<1>1. IInv => NoLoss
  BY DEF IInv
<1> QED BY Invariance, <1>1, PTL

-----------------------------------------------------------------------------
(* What is published: for those who compose Aggregator with a publisher.    *)

\* The steps of the aggregator and of its durable consumers.
Work == \/ \E m \in Messages : AckWait(m) \/ Expire(m)
        \/ \E m \in Messages, w \in Workers : Deliver(w, m)
        \/ \E w \in Workers : Callback(w)
        \/ \E r \in Replicas : Crash(r)

\* No redelivery, acknowledgement or expiry makes a message one that was never
\* published.
LEMMA WorkPublishesNothing == IInv /\ Work => Published' = Published
<1> SUFFICES ASSUME IInv, Work PROVE Published' = Published
  OBVIOUS
<1>t. /\ status \in [Messages -> Status]
      /\ \A w \in Workers : buffer[w] # <<>> => Head(buffer[w]) \in Messages
      /\ \A w \in Workers : pc[w] # "idle" => buffer[w] # <<>>
  BY HeadTail DEF IInv, TypeOK
<1>1. ASSUME NEW m \in Messages, status[m] # "none",
             NEW s \in Status \ {"none"}, status' = [status EXCEPT ![m] = s]
      PROVE  Published' = Published
  BY <1>t, <1>1 DEF Published
<1>2. ASSUME status' = status PROVE Published' = Published
  BY <1>2 DEF Published
<1>3. ASSUME NEW m \in Messages,
             AckWait(m) \/ Expire(m) \/ \E w \in Workers : Deliver(w, m)
      PROVE  Published' = Published
  BY <1>1, <1>3 DEF AckWait, Expire, Deliver, Status
<1>4. ASSUME NEW w \in Workers, Ack(w) \/ Nak(w) PROVE Published' = Published
  <2>1. Head(buffer[w]) \in Messages
    BY <1>t, <1>4 DEF Ack, Nak
  <2>2. \/ status' = status
        \/ /\ status[Head(buffer[w])] # "none"
           /\ \E s \in Status \ {"none"} : status' = [status EXCEPT ![Head(buffer[w])] = s]
    BY <1>4 DEF Ack, Nak, Status
  <2> QED BY <1>1, <1>2, <2>1, <2>2
<1>5. ASSUME NEW w \in Workers,
             Skip(w) \/ InsertOk(w) \/ InsertFails(w) \/ InsertAggregatorSpan(w)
      PROVE  Published' = Published
  BY <1>2, <1>5 DEF Skip, InsertOk, InsertFails, InsertAggregatorSpan
<1>6. ASSUME NEW r \in Replicas, Crash(r) PROVE Published' = Published
  BY <1>2, <1>6 DEF Crash
<1> QED BY <1>3, <1>4, <1>5, <1>6 DEF Work, Callback

RowsArePublished == \A m \in Messages : rows[m] > 0 => m \in Published

\* Only what was published is ever stored.
THEOREM OnlyPublishedRows == Spec => []RowsArePublished
<1>1. Init => RowsArePublished
  BY DEF Init, RowsArePublished
<1>2. IInv /\ RowsArePublished /\ [Next]_vars => RowsArePublished'
  <2> SUFFICES ASSUME IInv, RowsArePublished, [Next]_vars PROVE RowsArePublished'
    OBVIOUS
  <2>t. /\ status \in [Messages -> Status]
        /\ rows \in [Messages -> Nat]
        /\ \A w \in Workers : buffer[w] # <<>> => Head(buffer[w]) \in Messages
        /\ \A w \in Workers : buffer[w] # <<>> => Head(buffer[w]) \in Published
    BY HeadTail DEF IInv, TypeOK, HeldIsPublished
  <2>1. ASSUME NEW m \in Messages, Publish(m) PROVE RowsArePublished'
    BY <2>t, <2>1 DEF Publish, dbVars, RowsArePublished, Published
  <2>2. CASE UNCHANGED vars
    BY <2>2 DEF vars, dbVars, RowsArePublished, Published
  <2>3. ASSUME Work PROVE RowsArePublished'
    <3>1. Published' = Published
      BY <2>3, WorkPublishesNothing
    <3>2. ASSUME NEW w \in Workers, InsertOk(w) \/ InsertFails(w) PROVE RowsArePublished'
      <4>1. Head(buffer[w]) \in Messages /\ Head(buffer[w]) \in Published
        BY <2>t, <3>2 DEF InsertOk, InsertFails, Handling
      <4>2. rows' = rows \/ rows' = [rows EXCEPT ![Head(buffer[w])] = @ + 1]
        BY <3>2 DEF InsertOk, InsertFails, Store
      <4> QED BY <2>t, <3>1, <4>1, <4>2 DEF RowsArePublished
    <3>3. rows' = rows \/ \E w \in Workers : InsertOk(w) \/ InsertFails(w)
      BY <2>3 DEF Work, AckWait, Expire, Deliver, Callback, Skip, InsertAggregatorSpan,
                  Ack, Nak, Return, Crash, dbVars
    <3> QED BY <3>1, <3>2, <3>3 DEF RowsArePublished
  <2> QED BY <2>1, <2>2, <2>3 DEF Next, Server, Work
<1> QED BY Invariance, <1>1, <1>2, PTL DEF Spec

-----------------------------------------------------------------------------
(* How often a message may be stored.                                      *)

\* A delivery in hand that may still insert its message: any but the head of a
\* worker whose callback has inserted it.
IsCopy(p, m) == /\ p[2] \in 1..Len(buffer[p[1]])
                /\ buffer[p[1]][p[2]] = m
                /\ ~(p[2] = 1 /\ pc[p[1]] \in {"traced", "ack"})

Copies(m) == {p \in Workers \X (Nat \ {0}) : IsCopy(p, m)}

\* The delivery the server owes, or will owe when AckWait ends.
Owed(m) == \/ status[m] \in {"none", "waiting", "redeliver"}
           \/ status[m] = "pending" /\ ~Held(m)

Owes(m) == IF Owed(m) THEN 1 ELSE 0

\* Rows, deliveries that may insert and the delivery that is owed: one in all
\* without faults, and one more for each fault.
Budget(m) == /\ IsFiniteSet(Copies(m))
             /\ rows[m] + Cardinality(Copies(m)) + Owes(m) <= 1 + faults

\* One span at most has a row of those with one identifier.
SpansStoredOnce ==
    \A m, n \in OfKind("span") :
       SpanID[m] = SpanID[n] => rows[m] + rows[n] <= IF m = n THEN 2 ELSE 1

\* What Owes is, in this state and the next.
LEMMA OwesIs ==
    ASSUME NEW m \in Messages
    PROVE  /\ Owed(m) => Owes(m) = 1
           /\ ~Owed(m) => Owes(m) = 0
           /\ Owes(m) = 0 \/ Owes(m) = 1
           /\ Owed(m)' => Owes(m)' = 1
           /\ ~Owed(m)' => Owes(m)' = 0
           /\ Owes(m)' = 0 \/ Owes(m)' = 1
  BY Zenon DEF Owes

\* A step that inserts nothing, takes up no delivery, and lets the server owe
\* one more only at the cost of a fault.
LEMMA BudgetKept ==
    ASSUME NEW m \in Messages, TypeOK, Budget(m),
           Copies(m)' \subseteq Copies(m), rows'[m] = rows[m],
           faults' \in Nat,
           \/ faults' = faults /\ (Owed(m)' => Owed(m))
           \/ faults' = faults + 1
    PROVE  Budget(m)'
<1>1. /\ IsFiniteSet(Copies(m)') /\ Cardinality(Copies(m)') <= Cardinality(Copies(m))
      /\ Cardinality(Copies(m)) \in Nat /\ Cardinality(Copies(m)') \in Nat
  BY FS_Subset, FS_CardinalityType DEF Budget
<1>2. rows[m] \in Nat /\ faults \in Nat
  BY DEF TypeOK
<1>3. faults' = faults + 1 \/ (faults' = faults /\ (Owes(m)' = 0 \/ Owes(m) = 1))
  BY OwesIs, Zenon
<1>4. (Owes(m) = 0 \/ Owes(m) = 1) /\ (Owes(m)' = 0 \/ Owes(m)' = 1)
  BY OwesIs, Zenon
<1>5. rows[m] + Cardinality(Copies(m)) + Owes(m) <= 1 + faults
  BY DEF Budget
<1>6. rows'[m] + Cardinality(Copies(m)') + Owes(m)' <= 1 + faults'
  BY <1>1, <1>2, <1>3, <1>4, <1>5
<1> QED BY <1>1, <1>6 DEF Budget

\* Where the queues are left alone, so is what is held, and a callback that
\* goes on adds no delivery to those that may insert.
LEMMA SameQueues ==
    ASSUME NEW m \in Messages, buffer' = buffer,
           \A w \in Workers : pc[w] \in {"traced", "ack"} => pc'[w] \in {"traced", "ack"}
    PROVE  Held(m)' = Held(m) /\ Copies(m)' \subseteq Copies(m)
<1>1. Held(m)' = Held(m)
  BY DEF Held
<1>2. ASSUME NEW p \in Copies(m)' PROVE p \in Copies(m)
  <2>1. p \in Workers \X (Nat \ {0}) /\ IsCopy(p, m)'
    BY DEF Copies
  <2>2. p[1] \in Workers
    BY <2>1
  <2>3. IsCopy(p, m)
    BY <2>1, <2>2 DEF IsCopy
  <2> QED BY <2>1, <2>3 DEF Copies
<1> QED BY <1>1, <1>2

\* A callback returns: the deliveries behind it move up by one.
LEMMA QueueMovesUp ==
    ASSUME NEW m \in Messages, NEW w \in Workers, TypeOK, IsFiniteSet(Copies(m)),
           pc[w] \in {"ack", "nak"}, Return(w)
    PROVE  /\ IsFiniteSet(Copies(m)')
           /\ Cardinality(Copies(m)') <= Cardinality(Copies(m) \ {<<w, 1>>})
           /\ m # Head(buffer[w]) => Held(m)' = Held(m)
<1> DEFINE Rest == Copies(m) \ {<<w, 1>>}
           f == [p \in Rest |-> IF p[1] = w THEN <<w, p[2] - 1>> ELSE p]
           Queues == Workers \X (Nat \ {0})
<1>t. /\ buffer \in [Workers -> Seq(Messages)]
      /\ pc \in [Workers -> Steps]
      /\ buffer[w] # <<>> /\ Len(buffer[w]) \in Nat /\ Len(buffer[w]) > 0
  BY DEF TypeOK
<1>b. /\ buffer' = [buffer EXCEPT ![w] = Tail(@)]
      /\ pc' = [pc EXCEPT ![w] = "idle"]
  BY DEF Return, Goto
<1>w. /\ buffer'[w] = Tail(buffer[w]) /\ pc'[w] = "idle"
      /\ \A v \in Workers \ {w} : buffer'[v] = buffer[v] /\ pc'[v] = pc[v]
  BY <1>t, <1>b
<1>s. /\ Len(Tail(buffer[w])) = Len(buffer[w]) - 1
      /\ \A i \in 1..Len(buffer[w]) - 1 : Tail(buffer[w])[i] = buffer[w][i + 1]
  BY <1>t
<1>1. IsFiniteSet(Rest)
  BY FS_Subset
<1>2. ASSUME NEW p \in Rest PROVE f[p] \in Copies(m)'
  <2>1. p \in Queues /\ IsCopy(p, m)
    BY DEF Copies
  <2>2. CASE p[1] # w
    <3>1. f[p] = p
      BY <2>2
    <3>2. IsCopy(p, m)'
      BY <2>1, <2>2, <1>w DEF IsCopy
    <3> QED BY <2>1, <3>1, <3>2 DEF Copies
  <2>3. CASE p[1] = w
    <3>1. f[p] = <<w, p[2] - 1>>
      BY <2>3
    <3>2. p[2] # 1 /\ p[2] \in 2..Len(buffer[w]) /\ buffer[w][p[2]] = m
      BY <2>1, <2>3, <1>t DEF IsCopy
    <3>3. /\ p[2] - 1 \in 1..Len(Tail(buffer[w]))
          /\ Tail(buffer[w])[p[2] - 1] = m
      BY <3>2, <1>s, <1>t
    <3>4. IsCopy(<<w, p[2] - 1>>, m)'
      BY <3>3, <1>w DEF IsCopy
    <3> QED BY <3>1, <3>3, <3>4, <1>t DEF Copies
  <2> QED BY <2>2, <2>3
<1>3. ASSUME NEW q \in Copies(m)' PROVE \E p \in Rest : f[p] = q
  <2>1. q \in Queues /\ IsCopy(q, m)'
    BY DEF Copies
  <2>2. CASE q[1] # w
    <3>1. q \in Copies(m)
      <4>1. q[1] \in Workers \ {w}
        BY <2>1, <2>2
      <4>2. IsCopy(q, m)
        BY <2>1, <4>1, <1>w DEF IsCopy
      <4> QED BY <2>1, <4>2 DEF Copies
    <3>2. q \in Rest /\ f[q] = q
      BY <3>1, <2>2
    <3> QED BY <3>2
  <2>3. CASE q[1] = w
    <3> DEFINE p == <<w, q[2] + 1>>
    <3>0. q[2] \in 1..Len(Tail(buffer[w])) /\ Tail(buffer[w])[q[2]] = m
      <4>1. buffer'[w] = Tail(buffer[w])
        BY <1>w
      <4>2. q[2] \in 1..Len(buffer'[w]) /\ buffer'[w][q[2]] = m
        BY <2>1, <2>3, Zenon DEF IsCopy
      <4> QED BY <4>1, <4>2
    <3>1. q[2] \in 1..Len(buffer[w]) - 1 /\ Tail(buffer[w])[q[2]] = m
      BY <3>0, <1>s, <1>t
    <3>2. q[2] + 1 \in 2..Len(buffer[w]) /\ buffer[w][q[2] + 1] = m
      BY <3>1, <1>s, <1>t
    <3>3. p \in Rest
      BY <3>2, <1>t DEF Copies, IsCopy
    <3>4. f[p] = q
      BY <3>3, <2>1, <2>3
    <3> QED BY <3>3, <3>4
  <2> QED BY <2>2, <2>3
<1>4. f \in Surjection(Rest, Copies(m)')
  BY <1>2, <1>3 DEF Surjection
<1>5. IsFiniteSet(Copies(m)') /\ Cardinality(Copies(m)') <= Cardinality(Rest)
  BY <1>1, <1>4, FS_Surjection
<1>6. ASSUME m # Head(buffer[w]) PROVE Held(m)' = Held(m)
  <2>1. \A i \in DOMAIN buffer[w] : buffer[w][i] = m => i \in 2..Len(buffer[w])
    BY <1>6, <1>t
  <2>2. (\E i \in DOMAIN buffer[w] : buffer[w][i] = m)
        <=> (\E i \in DOMAIN Tail(buffer[w]) : Tail(buffer[w])[i] = m)
    <3>1. ASSUME NEW i \in DOMAIN buffer[w], buffer[w][i] = m
          PROVE  i - 1 \in 1..Len(buffer[w]) - 1 /\ Tail(buffer[w])[i - 1] = m
      BY <2>1, <3>1, <1>s, <1>t
    <3>2. ASSUME NEW i \in DOMAIN Tail(buffer[w]), Tail(buffer[w])[i] = m
          PROVE  i + 1 \in DOMAIN buffer[w] /\ buffer[w][i + 1] = m
      BY <3>2, <1>s, <1>t
    <3>3. DOMAIN Tail(buffer[w]) = 1..Len(buffer[w]) - 1
      BY <1>s, <1>t
    <3> QED BY <3>1, <3>2, <3>3
  <2> DEFINE Has(b) == \E i \in DOMAIN b : b[i] = m
  <2>3. Has(buffer'[w]) <=> Has(buffer[w])
    BY <2>2, <1>w
  <2>4. ASSUME NEW v \in Workers \ {w} PROVE Has(buffer'[v]) <=> Has(buffer[v])
    BY <1>w
  <2>5. (\E v \in Workers : Has(buffer'[v])) <=> (\E v \in Workers : Has(buffer[v]))
    <3> HIDE DEF Has
    <3> QED BY <2>3, <2>4, Zenon
  <2> QED BY <2>5 DEF Held
<1> QED BY <1>5, <1>6

\* The head of a worker's queue may insert its message, unless its callback has.
LEMMA HeadIsCopy ==
    ASSUME NEW w \in Workers, TypeOK, buffer[w] # <<>>
    PROVE  /\ Head(buffer[w]) \in Messages
           /\ Held(Head(buffer[w]))
           /\ pc[w] \notin {"traced", "ack"} => <<w, 1>> \in Copies(Head(buffer[w]))
           /\ pc[w] \in {"traced", "ack"} =>
                 \A m \in Messages : <<w, 1>> \notin Copies(m)
<1>1. buffer[w] \in Seq(Messages) /\ Len(buffer[w]) \in Nat /\ Len(buffer[w]) > 0
  BY DEF TypeOK
<1>2. Head(buffer[w]) = buffer[w][1] /\ Head(buffer[w]) \in Messages
      /\ 1 \in DOMAIN buffer[w] /\ 1 \in 1..Len(buffer[w])
  BY <1>1
<1>3. Held(Head(buffer[w]))
  BY <1>2 DEF Held
<1>4. ASSUME pc[w] \notin {"traced", "ack"} PROVE <<w, 1>> \in Copies(Head(buffer[w]))
  BY <1>2, <1>4 DEF Copies, IsCopy
<1>5. ASSUME pc[w] \in {"traced", "ack"}, NEW m \in Messages PROVE <<w, 1>> \notin Copies(m)
  BY <1>5 DEF Copies, IsCopy
<1> QED BY <1>2, <1>3, <1>4, <1>5

\* The steps of the server: only an AckWait that ends while the delivery is
\* held makes it owe more, and a delivery it owed becomes one that may insert.
LEMMA BudgetServerStep ==
    ASSUME NEW m \in Messages, TypeOK, TypeOK', Budget(m), Server
    PROVE  Budget(m)'
<1>t. /\ status \in [Messages -> Status] /\ buffer \in [Workers -> Seq(Messages)]
      /\ pc \in [Workers -> Steps]
      /\ rows[m] \in Nat /\ faults \in Nat /\ faults' \in Nat
      /\ \A v \in Workers : pc[v] # "idle" => buffer[v] # <<>>
  BY AggregatorAssumption DEF TypeOK
<1>1. ASSUME NEW n \in Messages, Publish(n) \/ AckWait(n) \/ Expire(n) PROVE Budget(m)'
  <2>1. Held(m)' = Held(m) /\ Copies(m)' \subseteq Copies(m) /\ rows'[m] = rows[m]
    BY <1>1, SameQueues DEF Publish, AckWait, Expire, workerVars, dbVars
  <2>2. CASE n # m
    <3>1. status'[m] = status[m] /\ (faults' = faults \/ faults' = faults + 1)
      BY <1>1, <1>t, <2>2 DEF Publish, AckWait, Expire, Fault
    <3>2. Owed(m)' => Owed(m)
      BY <2>1, <3>1, Zenon DEF Owed
    <3> QED BY <1>t, <2>1, <3>1, <3>2, BudgetKept
  <2>3. CASE n = m /\ Publish(m)
    <3>1. status[m] = "none" /\ faults' = faults
      BY <2>3, <1>t DEF Publish, Published
    <3>2. Owed(m)
      BY <3>1 DEF Owed
    <3> QED BY <1>t, <2>1, <3>1, <3>2, BudgetKept
  <2>4. CASE n = m /\ AckWait(m)
    <3>1. status[m] = "pending"
      BY <2>4 DEF AckWait
    <3>2. CASE Held(m)
      <4>1. faults' = faults + 1
        BY <2>4, <3>2 DEF AckWait, Fault
      <4> QED BY <1>t, <2>1, <4>1, BudgetKept
    <3>3. CASE ~Held(m)
      <4>1. faults' = faults
        BY <2>4, <3>3 DEF AckWait
      <4>2. Owed(m)
        BY <3>1, <3>3, Zenon DEF Owed
      <4> QED BY <1>t, <2>1, <4>1, <4>2, BudgetKept
    <3> QED BY <3>2, <3>3
  <2>5. CASE n = m /\ Expire(m)
    <3>1. status'[m] = "expired" /\ faults' = faults
      BY <2>5, <1>t DEF Expire
    <3>2. ~Owed(m)'
      BY <3>1 DEF Owed
    <3> QED BY <1>t, <2>1, <3>1, <3>2, BudgetKept
  <2> QED BY <1>1, <2>2, <2>3, <2>4, <2>5
<1>2. ASSUME NEW n \in Messages, NEW w \in Workers, Deliver(w, n) PROVE Budget(m)'
  <2> DEFINE last == <<w, Len(buffer[w]) + 1>>
  <2>1. /\ buffer'[w] = Append(buffer[w], n)
        /\ \A v \in Workers \ {w} : buffer'[v] = buffer[v]
        /\ pc' = pc /\ rows' = rows /\ faults' = faults
        /\ status' = [status EXCEPT ![n] = "pending"]
    BY <1>2, <1>t DEF Deliver, dbVars
  <2>2. /\ Len(buffer[w]) \in Nat
        /\ Len(buffer'[w]) = Len(buffer[w]) + 1
        /\ buffer'[w][Len(buffer[w]) + 1] = n
        /\ \A i \in 1..Len(buffer[w]) : buffer'[w][i] = buffer[w][i]
        /\ buffer[w] \in Seq(Messages) /\ buffer'[w] \in Seq(Messages)
    BY <1>t, <2>1
  <2>3. ASSUME NEW p \in Copies(m)' PROVE p \in Copies(m) \/ (p = last /\ n = m)
    <3>1. p \in Workers \X (Nat \ {0}) /\ IsCopy(p, m)'
      BY DEF Copies
    <3>2. CASE p[1] # w
      <4>1. IsCopy(p, m)
        BY <2>1, <3>1, <3>2 DEF IsCopy
      <4> QED BY <3>1, <4>1 DEF Copies
    <3>3. CASE p[1] = w /\ p[2] \in 1..Len(buffer[w])
      <4>1. IsCopy(p, m)
        BY <2>1, <2>2, <3>1, <3>3 DEF IsCopy
      <4> QED BY <3>1, <4>1 DEF Copies
    <3>4. CASE p[1] = w /\ p[2] \notin 1..Len(buffer[w])
      <4>1. p[2] = Len(buffer[w]) + 1 /\ buffer'[w][p[2]] = m
        BY <2>2, <3>1, <3>4 DEF IsCopy
      <4> QED BY <2>2, <3>1, <3>4, <4>1
    <3> QED BY <3>2, <3>3, <3>4
  <2>4. Held(m) => Held(m)'
    <3> SUFFICES ASSUME NEW v \in Workers, NEW i \in DOMAIN buffer[v], buffer[v][i] = m
                 PROVE  i \in DOMAIN buffer'[v] /\ buffer'[v][i] = m
      BY Zenon DEF Held
    <3>1. CASE v = w
      BY <2>2, <3>1
    <3>2. CASE v # w
      BY <2>1, <3>2
    <3> QED BY <3>1, <3>2
  <2>5. CASE n # m
    <3>1. Copies(m)' \subseteq Copies(m)
      BY <2>3, <2>5
    <3>2. status'[m] = status[m]
      BY <1>t, <2>1, <2>5
    <3>3. Owed(m)' => Owed(m)
      BY <2>4, <3>2, Zenon DEF Owed
    <3> QED BY <1>t, <2>1, <3>1, <3>3, BudgetKept
  <2>6. CASE n = m
    <3>1. Owed(m)
      BY <1>2, <2>6 DEF Deliver, Owed
    <3>2. ~Owed(m)'
      <4>1. Held(m)'
        BY <2>2, <2>6 DEF Held
      <4>2. status'[m] = "pending"
        BY <1>t, <2>1, <2>6
      <4> QED BY <4>1, <4>2 DEF Owed
    <3>3. Owes(m) = 1 /\ Owes(m)' = 0
      BY <3>1, <3>2, OwesIs, Zenon
    <3> DEFINE More == Copies(m) \cup {last}
    <3>4. /\ IsFiniteSet(More) /\ Copies(m)' \subseteq More
          /\ Cardinality(More) <= Cardinality(Copies(m)) + 1
          /\ Cardinality(Copies(m)) \in Nat
      <4>1. IsFiniteSet(Copies(m)) /\ Cardinality(Copies(m)) \in Nat
        BY FS_CardinalityType DEF Budget
      <4>2. /\ IsFiniteSet(More)
            /\ \/ Cardinality(More) = Cardinality(Copies(m)) + 1
               \/ Cardinality(More) = Cardinality(Copies(m))
        BY <4>1, FS_AddElement
      <4>3. Copies(m)' \subseteq More
        BY <2>3
      <4> HIDE DEF More
      <4> QED BY <4>1, <4>2, <4>3
    <3>5. /\ IsFiniteSet(Copies(m)') /\ Cardinality(Copies(m)') <= Cardinality(More)
          /\ Cardinality(Copies(m)') \in Nat /\ Cardinality(More) \in Nat
      BY <3>4, FS_Subset, FS_CardinalityType
    <3> HIDE DEF More
    <3>6. rows[m] + Cardinality(Copies(m)) + Owes(m) <= 1 + faults
      BY DEF Budget
    <3>7. rows'[m] + Cardinality(Copies(m)') + Owes(m)' <= 1 + faults'
      BY <1>t, <2>1, <3>3, <3>4, <3>5, <3>6
    <3> QED BY <3>5, <3>7 DEF Budget
  <2> QED BY <2>5, <2>6
<1> QED BY <1>1, <1>2 DEF Server

\* The steps of a callback: an insert spends the delivery it came with, or a
\* fault; a delivery that comes back is spent when its queue moves up.
LEMMA BudgetCallbackStep ==
    ASSUME NEW m \in Messages, TypeOK, TypeOK', Budget(m), NEW w \in Workers, Callback(w)
    PROVE  Budget(m)'
<1>t. /\ status \in [Messages -> Status] /\ buffer \in [Workers -> Seq(Messages)]
      /\ pc \in [Workers -> Steps] /\ rows \in [Messages -> Nat]
      /\ rows[m] \in Nat /\ faults \in Nat /\ faults' \in Nat
      /\ \A v \in Workers : pc[v] # "idle" => buffer[v] # <<>>
  BY AggregatorAssumption DEF TypeOK
<1>a. rows[m] \in Nat /\ faults \in Nat /\ faults' \in Nat
  BY <1>t
<1>n. rows[m] + Cardinality(Copies(m)) + Owes(m) <= 1 + faults /\ IsFiniteSet(Copies(m))
      /\ Cardinality(Copies(m)) \in Nat
  BY FS_CardinalityType DEF Budget
<1>1. ASSUME Skip(w) \/ InsertOk(w) \/ InsertFails(w) \/ InsertAggregatorSpan(w)
      PROVE  /\ buffer' = buffer /\ status' = status
             /\ faults' = faults \/ faults' = faults + 1
             /\ Held(m)' = Held(m) /\ Copies(m)' \subseteq Copies(m)
             /\ Owed(m)' = Owed(m) /\ Owes(m)' = Owes(m)
             /\ buffer[w] # <<>>
  <2>1. /\ buffer' = buffer /\ status' = status
        /\ faults' = faults \/ faults' = faults + 1
        /\ buffer[w] # <<>>
    BY <1>1, <1>t DEF Skip, InsertOk, InsertFails, InsertAggregatorSpan, Fault, Handling
  <2>2. \A v \in Workers : pc[v] \in {"traced", "ack"} => pc'[v] \in {"traced", "ack"}
    <3>1. \E s \in Steps : /\ pc' = [pc EXCEPT ![w] = s]
                           /\ pc[w] \in {"traced", "ack"} => s \in {"traced", "ack"}
      BY <1>1 DEF Skip, InsertOk, InsertFails, InsertAggregatorSpan, Handling, Goto, Steps
    <3> QED BY <3>1, <1>t
  <2>3. Held(m)' = Held(m) /\ Copies(m)' \subseteq Copies(m)
    BY <2>1, <2>2, SameQueues
  <2>4. Owed(m)' = Owed(m)
    BY <2>1, <2>3, Zenon DEF Owed
  <2>5. Owes(m)' = Owes(m)
    BY <2>4, Zenon DEF Owes
  <2> QED BY <2>1, <2>3, <2>4, <2>5
<1>2. ASSUME Skip(w) \/ InsertAggregatorSpan(w) PROVE Budget(m)'
  BY <1>1, <1>2, <1>t, BudgetKept DEF Skip, InsertAggregatorSpan, dbVars
<1>3. ASSUME InsertOk(w) PROVE Budget(m)'
  <2>1. /\ rows' = [rows EXCEPT ![Head(buffer[w])] = @ + 1] /\ faults' = faults
        /\ pc[w] = "idle" /\ pc'[w] \in {"traced", "ack"}
    BY <1>3, <1>t DEF InsertOk, Store, Handling, Goto
  <2>2. CASE m # Head(buffer[w])
    <3>1. rows'[m] = rows[m]
      BY <1>t, <2>1, <2>2
    <3> QED BY <1>1, <1>3, <1>t, <2>1, <3>1, BudgetKept
  <2>3. CASE m = Head(buffer[w])
    <3>1. <<w, 1>> \in Copies(m)
      BY <1>1, <1>3, <2>1, <2>3, HeadIsCopy
    <3>2. Copies(m)' \subseteq Copies(m) \ {<<w, 1>>}
      BY <1>1, <1>3, <2>1 DEF Copies, IsCopy
    <3>3. /\ IsFiniteSet(Copies(m) \ {<<w, 1>>})
          /\ Cardinality(Copies(m) \ {<<w, 1>>}) = Cardinality(Copies(m)) - 1
      BY <1>n, <3>1, FS_RemoveElement
    <3>4. /\ IsFiniteSet(Copies(m)') /\ Cardinality(Copies(m)') \in Nat
          /\ Cardinality(Copies(m)') <= Cardinality(Copies(m)) - 1
      BY <3>2, <3>3, FS_Subset, FS_CardinalityType
    <3>5. rows'[m] = rows[m] + 1 /\ faults' = faults
      BY <1>t, <2>1, <2>3
    <3>6. Owes(m)' = Owes(m) /\ (Owes(m) = 0 \/ Owes(m) = 1)
      BY <1>1, <1>3, OwesIs
    <3>7. rows'[m] + Cardinality(Copies(m)') + Owes(m)' <= 1 + faults'
      BY <1>n, <1>a, <3>4, <3>5, <3>6
    <3> QED BY <3>4, <3>7 DEF Budget
  <2> QED BY <2>2, <2>3
<1>4. ASSUME InsertFails(w) PROVE Budget(m)'
  <2>1. \/ rows' = rows /\ faults' = faults
        \/ rows' = [rows EXCEPT ![Head(buffer[w])] = @ + 1] /\ faults' = faults + 1
    BY <1>4 DEF InsertFails, Store, Fault
  <2>2. CASE rows'[m] = rows[m]
    BY <1>1, <1>4, <1>t, <2>2, BudgetKept
  <2>3. CASE rows'[m] # rows[m]
    <3>1. rows'[m] = rows[m] + 1 /\ faults' = faults + 1
      BY <1>t, <2>1, <2>3
    <3>2. /\ IsFiniteSet(Copies(m)') /\ Cardinality(Copies(m)') \in Nat
          /\ Cardinality(Copies(m)') <= Cardinality(Copies(m))
      BY <1>1, <1>4, <1>n, FS_Subset, FS_CardinalityType
    <3>3. Owes(m)' = Owes(m) /\ (Owes(m) = 0 \/ Owes(m) = 1)
      BY <1>1, <1>4, OwesIs
    <3>4. rows'[m] + Cardinality(Copies(m)') + Owes(m)' <= 1 + faults'
      BY <1>n, <1>a, <3>1, <3>2, <3>3
    <3> QED BY <3>2, <3>4 DEF Budget
  <2> QED BY <2>2, <2>3
<1>5. ASSUME Ack(w) \/ Nak(w) PROVE Budget(m)'
  <2>1. /\ Return(w) /\ buffer[w] # <<>> /\ rows' = rows
        /\ faults' = faults \/ (faults' = faults + 1 /\ status' = status)
    BY <1>5, <1>t DEF Ack, Nak, Return, dbVars, Fault
  <2>2. /\ IsFiniteSet(Copies(m)')
        /\ Cardinality(Copies(m)') <= Cardinality(Copies(m) \ {<<w, 1>>})
        /\ m # Head(buffer[w]) => Held(m)' = Held(m)
    BY <1>5, <1>n, <2>1, QueueMovesUp DEF Ack, Nak
  <2>3. /\ Cardinality(Copies(m)') \in Nat
        /\ Cardinality(Copies(m) \ {<<w, 1>>}) \in Nat
        /\ Cardinality(Copies(m)') <= Cardinality(Copies(m))
    <3>1. /\ IsFiniteSet(Copies(m) \ {<<w, 1>>})
          /\ Cardinality(Copies(m) \ {<<w, 1>>}) <= Cardinality(Copies(m))
      BY <1>n, FS_Subset
    <3> QED BY <1>n, <2>2, <3>1, FS_CardinalityType
  <2>4. ASSUME faults' = faults + 1 \/ (faults' = faults /\ (Owed(m)' => Owed(m)))
        PROVE  Budget(m)'
    <3>1. faults' = faults + 1 \/ (faults' = faults /\ (Owes(m)' = 0 \/ Owes(m) = 1))
      BY <2>4, OwesIs, Zenon
    <3>2. (Owes(m) = 0 \/ Owes(m) = 1) /\ (Owes(m)' = 0 \/ Owes(m)' = 1)
      BY OwesIs, Zenon
    <3>3. rows'[m] + Cardinality(Copies(m)') + Owes(m)' <= 1 + faults'
      <4>1. rows'[m] = rows[m]
        BY <2>1
      <4> QED BY <1>n, <1>a, <2>3, <3>1, <3>2, <4>1
    <3> QED BY <2>2, <3>3 DEF Budget
  <2>5. CASE faults' = faults + 1
    BY <2>4, <2>5
  <2>6. CASE faults' = faults /\ m # Head(buffer[w])
    <3>1. status'[m] = status[m]
      BY <1>5, <1>t, <2>6 DEF Ack, Nak
    <3>2. Owed(m)' => Owed(m)
      BY <2>2, <2>6, <3>1, Zenon DEF Owed
    <3> QED BY <2>4, <2>6, <3>2
  <2>7. CASE faults' = faults /\ m = Head(buffer[w]) /\ Ack(w)
    <3>1. ~(faults' = faults + 1)
      BY <1>t, <2>7
    <3>2. status' = IF status[m] \in {"pending", "redeliver"}
                    THEN [status EXCEPT ![m] = "acked"] ELSE status
      BY <2>7, <3>1 DEF Ack, Fault
    <3>3. Owed(m)' => Owed(m)
      <4>1. CASE status[m] \in {"pending", "redeliver"}
        <5>1. status'[m] = "acked"
          BY <1>t, <3>2, <4>1
        <5>2. ~Owed(m)'
          BY <5>1 DEF Owed
        <5> QED BY <5>2
      <4>2. CASE status[m] \notin {"pending", "redeliver"}
        <5>1. status'[m] = status[m] /\ status[m] # "pending"
          BY <3>2, <4>2
        <5> QED BY <5>1, Zenon DEF Owed
      <4> QED BY <4>1, <4>2
    <3> QED BY <2>4, <2>7, <3>3
  <2>8. CASE faults' = faults /\ m = Head(buffer[w]) /\ Nak(w)
    <3>1. <<w, 1>> \in Copies(m)
      <4>1. pc[w] = "nak"
        BY <2>8 DEF Nak
      <4> QED BY <2>1, <2>8, <4>1, HeadIsCopy
    <3>2. Cardinality(Copies(m) \ {<<w, 1>>}) = Cardinality(Copies(m)) - 1
      BY <1>n, <3>1, FS_RemoveElement
    <3>3. (Owes(m) = 0 \/ Owes(m) = 1) /\ (Owes(m)' = 0 \/ Owes(m)' = 1)
      BY OwesIs, Zenon
    <3>4. rows'[m] + Cardinality(Copies(m)') + Owes(m)' <= 1 + faults'
      <4>1. rows'[m] = rows[m] /\ faults' = faults
        BY <2>1, <2>8
      <4> QED BY <1>n, <1>a, <2>2, <2>3, <3>2, <3>3, <4>1
    <3> QED BY <2>2, <3>4 DEF Budget
  <2> QED BY <1>5, <2>1, <2>5, <2>6, <2>7, <2>8
<1> QED BY <1>2, <1>3, <1>4, <1>5 DEF Callback

\* A crash drops deliveries, and is a fault itself.
LEMMA BudgetCrashStep ==
    ASSUME NEW m \in Messages, TypeOK, TypeOK', Budget(m), NEW r \in Replicas, Crash(r)
    PROVE  Budget(m)'
<1>1. /\ buffer' = [w \in Workers |-> IF w[1] = r THEN <<>> ELSE buffer[w]]
      /\ pc' = [w \in Workers |-> IF w[1] = r THEN "idle" ELSE pc[w]]
      /\ faults' = faults + 1 /\ rows' = rows
  BY DEF Crash, Fault, dbVars
<1>2. ASSUME NEW p \in Copies(m)' PROVE p \in Copies(m)
  <2>1. p \in Workers \X (Nat \ {0}) /\ IsCopy(p, m)'
    BY DEF Copies
  <2>2. p[1] \in Workers /\ p[2] \in 1..Len(buffer'[p[1]])
    BY <2>1 DEF IsCopy
  <2>3. CASE p[1][1] = r
    <3>1. buffer'[p[1]] = <<>>
      BY <1>1, <2>2, <2>3
    <3>2. Len(buffer'[p[1]]) = 0
      BY <3>1
    <3> QED BY <2>2, <3>2
  <2>4. CASE p[1][1] # r
    <3>1. buffer'[p[1]] = buffer[p[1]] /\ pc'[p[1]] = pc[p[1]]
      BY <1>1, <2>2, <2>4
    <3>2. IsCopy(p, m)
      BY <2>1, <3>1 DEF IsCopy
    <3> QED BY <2>1, <3>2 DEF Copies
  <2> QED BY <2>3, <2>4
<1>3. faults' \in Nat
  BY AggregatorAssumption DEF TypeOK
<1> QED BY <1>1, <1>2, <1>3, BudgetKept

LEMMA BudgetStep ==
    TypeOK /\ (\A m \in Messages : Budget(m)) /\ [Next]_vars => (\A m \in Messages : Budget(m))'
<1> SUFFICES ASSUME TypeOK, \A n \in Messages : Budget(n), [Next]_vars, NEW m \in Messages
             PROVE  Budget(m)'
  OBVIOUS
<1>1. TypeOK'
  BY TypeStep
<1>2. Budget(m)
  OBVIOUS
<1>3. CASE UNCHANGED vars
  <2>1. Held(m)' = Held(m) /\ Copies(m)' = Copies(m)
    BY <1>3 DEF vars, workerVars, Held, Copies, IsCopy
  <2>2. rows' = rows /\ faults' = faults /\ status' = status /\ faults' \in Nat
    BY <1>3, AggregatorAssumption DEF vars, workerVars, dbVars, TypeOK
  <2>3. Owed(m)' = Owed(m)
    BY <2>1, <2>2, Zenon DEF Owed
  <2> QED BY <1>2, <2>1, <2>2, <2>3, BudgetKept
<1> QED BY <1>1, <1>2, <1>3, BudgetServerStep, BudgetCallbackStep, BudgetCrashStep DEF Next

\* idx_spans_span_id lets a row in only where no span has its identifier yet.
LEMMA SpansStoredOnceStep == TypeOK /\ SpansStoredOnce /\ [Next]_vars => SpansStoredOnce'
<1> SUFFICES ASSUME TypeOK, SpansStoredOnce, [Next]_vars PROVE SpansStoredOnce'
  OBVIOUS
<1>1. rows \in [Messages -> Nat] /\ OfKind("span") \subseteq Messages
  BY DEF TypeOK, OfKind
<1>2. CASE rows' = rows
  BY <1>2 DEF SpansStoredOnce, OfKind
<1>3. ASSUME NEW w \in Workers, ~Conflict(Head(buffer[w])), Store(Head(buffer[w])),
             buffer[w] # <<>>
      PROVE  SpansStoredOnce'
  <2> DEFINE m == Head(buffer[w])
  <2>1. m \in Messages
    BY <1>3, HeadTail DEF TypeOK
  <2>2. rows' = [rows EXCEPT ![m] = @ + 1]
    BY <1>3 DEF Store
  <2>3. ASSUME m \in OfKind("span") PROVE \A n \in OfKind("span") : SpanID[n] = SpanID[m] => rows[n] = 0
    <3>1. ~\E n \in OfKind("span") : SpanID[n] = SpanID[m] /\ rows[n] > 0
      BY <1>3, <2>3 DEF Conflict, OfKind
    <3> QED BY <1>1, <3>1
  <2> HIDE DEF m
  <2>4. ASSUME NEW x \in OfKind("span"), NEW y \in OfKind("span"), SpanID[x] = SpanID[y]
        PROVE  rows'[x] + rows'[y] <= IF x = y THEN 2 ELSE 1
    <3>1. CASE x = m \/ y = m
      <4>1. rows[x] = 0 /\ rows[y] = 0
        BY <2>3, <2>4, <3>1
      <4>2. \A z \in {x, y} : rows'[z] = IF z = m THEN rows[z] + 1 ELSE rows[z]
        BY <1>1, <2>1, <2>2
      <4> QED BY <3>1, <4>1, <4>2
    <3>2. CASE x # m /\ y # m
      <4>1. rows'[x] = rows[x] /\ rows'[y] = rows[y]
        BY <1>1, <2>1, <2>2, <3>2
      <4> QED BY <2>4, <4>1 DEF SpansStoredOnce
    <3> QED BY <3>1, <3>2
  <2>5. OfKind("span")' = OfKind("span")
    BY DEF OfKind
  <2> QED BY <2>4, <2>5 DEF SpansStoredOnce
<1>4. ASSUME NEW m \in Messages, Publish(m) \/ AckWait(m) \/ Expire(m) PROVE rows' = rows
  BY <1>4 DEF Publish, AckWait, Expire, dbVars
<1>5. ASSUME NEW m \in Messages, NEW w \in Workers, Deliver(w, m) PROVE rows' = rows
  BY <1>5 DEF Deliver, dbVars
<1>6. ASSUME NEW w \in Workers, Skip(w) \/ InsertAggregatorSpan(w) \/ Ack(w) \/ Nak(w)
      PROVE  rows' = rows
  BY <1>6 DEF Skip, InsertAggregatorSpan, Ack, Nak, Return, dbVars
<1>7. ASSUME NEW w \in Workers, InsertOk(w) \/ InsertFails(w) PROVE SpansStoredOnce'
  <2>1. rows' = rows \/ (~Conflict(Head(buffer[w])) /\ Store(Head(buffer[w])))
    BY <1>7 DEF InsertOk, InsertFails
  <2>2. buffer[w] # <<>>
    BY <1>7 DEF InsertOk, InsertFails, Handling
  <2> QED BY <1>2, <1>3, <2>1, <2>2
<1>8. ASSUME NEW r \in Replicas, Crash(r) PROVE rows' = rows
  BY <1>8 DEF Crash, dbVars
<1>9. CASE UNCHANGED vars
  BY <1>9, <1>2 DEF vars, dbVars
<1> QED BY <1>2, <1>4, <1>5, <1>6, <1>7, <1>8, <1>9 DEF Next, Server, Callback

\* Every row of a message beyond the first is paid for by a fault, and a
\* span_id has one row at most: Budget and SpansStoredOnce are inductive.
THEOREM DuplicatesArePaidFor == Spec => []DuplicatesNeedFaults
<1> DEFINE Inv == TypeOK /\ SpansStoredOnce /\ \A m \in Messages : Budget(m)
<1>1. Init => Inv
  <2> SUFFICES ASSUME Init PROVE Inv
    OBVIOUS
  <2>1. TypeOK
    BY AggregatorAssumption DEF Init, TypeOK, Status, Steps
  <2>2. SpansStoredOnce
    BY DEF Init, SpansStoredOnce, OfKind
  <2>3. ASSUME NEW m \in Messages PROVE Budget(m)
    <3>1. Copies(m) = {}
      <4> SUFFICES ASSUME NEW p \in Copies(m) PROVE FALSE
        OBVIOUS
      <4>1. p[1] \in Workers /\ p[2] \in 1..Len(buffer[p[1]])
        BY DEF Copies, IsCopy
      <4>2. buffer[p[1]] = <<>>
        BY <4>1 DEF Init
      <4>3. Len(buffer[p[1]]) = 0
        BY <4>2
      <4> QED BY <4>1, <4>3
    <3>2. IsFiniteSet(Copies(m)) /\ Cardinality(Copies(m)) = 0
      BY <3>1, FS_EmptySet
    <3>3. rows[m] = 0 /\ faults = 0
      BY DEF Init
    <3>4. Owes(m) = 0 \/ Owes(m) = 1
      BY OwesIs, Zenon
    <3> QED BY <3>2, <3>3, <3>4 DEF Budget
  <2> QED BY <2>1, <2>2, <2>3
<1>2. Inv /\ [Next]_vars => Inv'
  BY TypeStep, BudgetStep, SpansStoredOnceStep
<1>3. Inv => DuplicatesNeedFaults
  <2> SUFFICES ASSUME Inv PROVE DuplicatesNeedFaults
    OBVIOUS
  <2>1. ASSUME NEW m \in Messages PROVE rows[m] <= 1 + faults
    <3>1. /\ rows[m] \in Nat /\ faults \in Nat
          /\ Cardinality(Copies(m)) \in Nat
          /\ rows[m] + Cardinality(Copies(m)) + Owes(m) <= 1 + faults
      BY AggregatorAssumption, FS_CardinalityType DEF Budget, TypeOK
    <3>2. Owes(m) = 0 \/ Owes(m) = 1
      BY OwesIs, Zenon
    <3> QED BY <3>1, <3>2
  <2> QED BY <2>1 DEF DuplicatesNeedFaults, SpansStoredOnce
<1> QED BY <1>1, <1>2, <1>3, PTL DEF Spec

-----------------------------------------------------------------------------
(* How many trace spans stand for a message.                               *)

\* Workers that have stored m and not yet its trace span.
Holding(m) == {w \in Workers : pc[w] = "traced" /\ Head(buffer[w]) = m}

\* Each of them has a row to its credit.
SpanBudget(m) == /\ IsFiniteSet(Holding(m))
                 /\ aggSpans[m] + Cardinality(Holding(m)) <= rows[m]
                 /\ rows[m] > 0 => m \in Decodable
                 /\ aggSpans[m] > 0 => m \in Traced
                 /\ Holding(m) # {} => m \in Traced

\* A step that adds no span, and none that may come without a row.
LEMMA SpanBudgetKept ==
    ASSUME NEW m \in Messages, TypeOK, TypeOK', SpanBudget(m), Holding(m)' \subseteq Holding(m),
           aggSpans'[m] = aggSpans[m], rows'[m] >= rows[m], rows'[m] > 0 => m \in Decodable
    PROVE  SpanBudget(m)'
<1>1. /\ IsFiniteSet(Holding(m)') /\ Cardinality(Holding(m)') <= Cardinality(Holding(m))
      /\ Cardinality(Holding(m)) \in Nat /\ Cardinality(Holding(m)') \in Nat
  BY FS_Subset, FS_CardinalityType DEF SpanBudget
<1>2. rows[m] \in Nat /\ rows'[m] \in Nat /\ aggSpans[m] \in Nat
  BY DEF TypeOK
<1>3. aggSpans[m] + Cardinality(Holding(m)) <= rows[m]
  BY DEF SpanBudget
<1>4. aggSpans'[m] + Cardinality(Holding(m)') <= rows'[m]
  BY <1>1, <1>2, <1>3
<1> QED BY <1>1, <1>4 DEF SpanBudget

LEMMA SpanBudgetCallbackStep ==
    ASSUME NEW m \in Messages, TypeOK, TypeOK', SpanBudget(m), NEW w \in Workers, Callback(w)
    PROVE  SpanBudget(m)'
<1>t. /\ buffer \in [Workers -> Seq(Messages)] /\ pc \in [Workers -> Steps]
      /\ rows \in [Messages -> Nat] /\ aggSpans \in [Messages -> Nat]
      /\ \A v \in Workers : pc[v] # "idle" => buffer[v] # <<>>
  BY DEF TypeOK
<1>a. rows[m] \in Nat /\ aggSpans[m] \in Nat /\ rows'[m] \in Nat
  BY DEF TypeOK
<1>n. /\ aggSpans[m] + Cardinality(Holding(m)) <= rows[m] /\ IsFiniteSet(Holding(m))
      /\ Cardinality(Holding(m)) \in Nat
      /\ rows[m] > 0 => m \in Decodable
  BY FS_CardinalityType DEF SpanBudget
<1>1. ASSUME NEW s \in Steps \ {"traced"}, pc' = [pc EXCEPT ![w] = s],
             \A v \in Workers \ {w} : buffer'[v] = buffer[v]
      PROVE  Holding(m)' \subseteq Holding(m) \ {w}
  BY <1>1, <1>t DEF Holding
<1>2. ASSUME Skip(w) \/ Ack(w) \/ Nak(w) PROVE SpanBudget(m)'
  <2>1. /\ \E s \in Steps \ {"traced"} : pc' = [pc EXCEPT ![w] = s]
        /\ \A v \in Workers \ {w} : buffer'[v] = buffer[v]
        /\ rows' = rows /\ aggSpans' = aggSpans
    BY <1>2, <1>t DEF Skip, Ack, Nak, Return, Goto, dbVars, Steps
  <2>2. Holding(m)' \subseteq Holding(m)
    BY <1>1, <2>1
  <2> QED BY <1>a, <1>n, <2>1, <2>2, SpanBudgetKept
<1>3. ASSUME InsertFails(w) PROVE SpanBudget(m)'
  <2>1. /\ pc' = [pc EXCEPT ![w] = "nak"] /\ buffer' = buffer /\ aggSpans' = aggSpans
        /\ rows' = rows \/ rows' = [rows EXCEPT ![Head(buffer[w])] = @ + 1]
        /\ Head(buffer[w]) \in Decodable
    BY <1>3 DEF InsertFails, Goto, Store
  <2>2. Holding(m)' \subseteq Holding(m)
    BY <1>1, <2>1 DEF Steps
  <2>3. rows'[m] = rows[m] \/ (rows'[m] = rows[m] + 1 /\ m \in Decodable)
    BY <1>t, <2>1
  <2>4. rows'[m] >= rows[m] /\ (rows'[m] > 0 => m \in Decodable)
    BY <1>a, <1>n, <2>3
  <2> QED BY <2>1, <2>2, <2>4, SpanBudgetKept
<1>4. ASSUME InsertOk(w) PROVE SpanBudget(m)'
  <2> DEFINE h == Head(buffer[w])
  <2>1. /\ pc' = [pc EXCEPT ![w] = IF h \in Traced THEN "traced" ELSE "ack"]
        /\ buffer' = buffer /\ aggSpans' = aggSpans
        /\ rows' = [rows EXCEPT ![h] = @ + 1]
        /\ h \in Decodable /\ pc[w] = "idle" /\ buffer[w] # <<>>
    BY <1>4 DEF InsertOk, Goto, Store, Handling
  <2>2. h \in Messages
    BY <1>t, <2>1, HeadTail
  <2>3. ASSUME ~(h = m /\ h \in Traced) PROVE SpanBudget(m)'
    <3>1. Holding(m)' \subseteq Holding(m)
      BY <1>t, <2>1, <2>3 DEF Holding
    <3>2. rows'[m] = rows[m] \/ (rows'[m] = rows[m] + 1 /\ m \in Decodable)
      BY <1>t, <2>1, <2>2
    <3>3. rows'[m] >= rows[m] /\ (rows'[m] > 0 => m \in Decodable)
      BY <1>a, <1>n, <3>2
    <3> QED BY <2>1, <3>1, <3>3, SpanBudgetKept
  <2>4. ASSUME h = m, h \in Traced PROVE SpanBudget(m)'
    <3> DEFINE More == Holding(m) \cup {w}
    <3>1. Holding(m)' \subseteq More
      BY <1>t, <2>1 DEF Holding
    <3>2. IsFiniteSet(More) /\ Cardinality(More) = Cardinality(Holding(m)) + 1
      <4>1. w \notin Holding(m)
        BY <2>1 DEF Holding
      <4> QED BY <1>n, <4>1, FS_AddElement
    <3>3. /\ IsFiniteSet(Holding(m)') /\ Cardinality(Holding(m)') <= Cardinality(More)
          /\ Cardinality(Holding(m)') \in Nat /\ Cardinality(More) \in Nat
      BY <3>1, <3>2, FS_Subset, FS_CardinalityType
    <3> HIDE DEF More
    <3>4. rows'[m] = rows[m] + 1 /\ aggSpans'[m] = aggSpans[m] /\ m \in Decodable /\ m \in Traced
      BY <1>t, <2>1, <2>2, <2>4
    <3>5. aggSpans'[m] + Cardinality(Holding(m)') <= rows'[m]
      BY <1>a, <1>n, <3>2, <3>3, <3>4
    <3> QED BY <3>3, <3>4, <3>5 DEF SpanBudget
  <2> QED BY <2>3, <2>4
<1>5. ASSUME InsertAggregatorSpan(w) PROVE SpanBudget(m)'
  <2> DEFINE h == Head(buffer[w])
  <2>1. /\ pc' = [pc EXCEPT ![w] = "ack"] /\ buffer' = buffer /\ rows' = rows
        /\ aggSpans' = aggSpans \/ aggSpans' = [aggSpans EXCEPT ![h] = @ + 1]
        /\ pc[w] = "traced" /\ buffer[w] # <<>>
    BY <1>5, <1>t DEF InsertAggregatorSpan, Goto
  <2>2. h \in Messages
    BY <1>t, <2>1, HeadTail
  <2>3. Holding(m)' \subseteq Holding(m) \ {w}
    BY <1>1, <2>1 DEF Steps
  <2>4. CASE aggSpans'[m] = aggSpans[m]
    <3>1. Holding(m)' \subseteq Holding(m) /\ rows'[m] = rows[m]
      BY <2>1, <2>3
    <3> QED BY <1>a, <1>n, <2>4, <3>1, SpanBudgetKept
  <2>5. CASE aggSpans'[m] # aggSpans[m]
    <3>1. h = m /\ aggSpans'[m] = aggSpans[m] + 1
      BY <1>t, <2>1, <2>2, <2>5
    <3>2. w \in Holding(m)
      BY <2>1, <3>1 DEF Holding
    <3>3. /\ IsFiniteSet(Holding(m) \ {w})
          /\ Cardinality(Holding(m) \ {w}) = Cardinality(Holding(m)) - 1
      BY <1>n, <3>2, FS_RemoveElement
    <3>4. /\ IsFiniteSet(Holding(m)') /\ Cardinality(Holding(m)') \in Nat
          /\ Cardinality(Holding(m)') <= Cardinality(Holding(m)) - 1
      BY <2>3, <3>3, FS_Subset, FS_CardinalityType
    <3>5. rows'[m] = rows[m] /\ m \in Traced
      BY <2>1, <3>2 DEF SpanBudget
    <3>6. aggSpans'[m] + Cardinality(Holding(m)') <= rows'[m]
      BY <1>a, <1>n, <3>1, <3>4, <3>5
    <3> QED BY <1>n, <3>4, <3>5, <3>6 DEF SpanBudget
  <2> QED BY <2>4, <2>5
<1> QED BY <1>2, <1>3, <1>4, <1>5 DEF Callback

LEMMA SpanBudgetStep ==
    TypeOK /\ (\A m \in Messages : SpanBudget(m)) /\ [Next]_vars
      => (\A m \in Messages : SpanBudget(m))'
<1> SUFFICES ASSUME TypeOK, \A n \in Messages : SpanBudget(n), [Next]_vars, NEW m \in Messages
             PROVE  SpanBudget(m)'
  OBVIOUS
<1>t. /\ buffer \in [Workers -> Seq(Messages)]
      /\ \A v \in Workers : pc[v] # "idle" => buffer[v] # <<>>
      /\ rows[m] \in Nat
      /\ rows[m] > 0 => m \in Decodable
      /\ TypeOK' /\ SpanBudget(m)
  BY TypeStep DEF TypeOK, SpanBudget
<1>1. ASSUME rows' = rows, aggSpans' = aggSpans, Holding(m)' \subseteq Holding(m)
      PROVE  SpanBudget(m)'
  BY <1>t, <1>1, SpanBudgetKept
<1>2. ASSUME NEW n \in Messages, Publish(n) \/ AckWait(n) \/ Expire(n) PROVE SpanBudget(m)'
  BY <1>1, <1>2 DEF Publish, AckWait, Expire, workerVars, dbVars, Holding
<1>3. ASSUME NEW n \in Messages, NEW w \in Workers, Deliver(w, n) PROVE SpanBudget(m)'
  <2>1. ASSUME NEW v \in Workers, pc[v] = "traced" PROVE Head(buffer'[v]) = Head(buffer[v])
    <3>1. buffer'[v] = IF v = w THEN Append(buffer[v], n) ELSE buffer[v]
      BY <1>3, <1>t DEF Deliver
    <3>2. buffer[v] \in Seq(Messages) /\ buffer[v] # <<>>
      BY <1>t, <2>1
    <3> QED BY <3>1, <3>2, AppendLast
  <2>2. pc' = pc /\ rows' = rows /\ aggSpans' = aggSpans
    BY <1>3 DEF Deliver, dbVars
  <2>3. Holding(m)' \subseteq Holding(m)
    BY <2>1, <2>2 DEF Holding
  <2> QED BY <1>1, <2>2, <2>3
<1>4. ASSUME NEW r \in Replicas, Crash(r) PROVE SpanBudget(m)'
  <2>1. ASSUME NEW v \in Workers, pc'[v] = "traced" PROVE pc[v] = "traced" /\ buffer'[v] = buffer[v]
    BY <1>4, <2>1 DEF Crash
  <2>2. Holding(m)' \subseteq Holding(m)
    BY <2>1 DEF Holding
  <2> QED BY <1>1, <1>4, <2>2 DEF Crash, dbVars
<1>5. CASE UNCHANGED vars
  BY <1>1, <1>5 DEF vars, workerVars, dbVars, Holding
<1> QED BY <1>t, <1>2, <1>3, <1>4, <1>5, SpanBudgetCallbackStep DEF Next, Server

\* A trace span stands for a row: SpanBudget counts the rows whose span is
\* still to be inserted.
THEOREM SpansStandForRows == Spec => []AggregatorSpansMatchRows
<1> DEFINE Inv == TypeOK /\ \A m \in Messages : SpanBudget(m)
<1>1. Init => Inv
  <2> SUFFICES ASSUME Init PROVE Inv
    OBVIOUS
  <2>1. TypeOK
    BY AggregatorAssumption DEF Init, TypeOK, Status, Steps
  <2>2. ASSUME NEW m \in Messages PROVE SpanBudget(m)
    <3>1. Holding(m) = {} /\ rows[m] = 0 /\ aggSpans[m] = 0
      BY DEF Init, Holding
    <3> QED BY <3>1, FS_EmptySet DEF SpanBudget
  <2> QED BY <2>1, <2>2
<1>2. Inv /\ [Next]_vars => Inv'
  BY TypeStep, SpanBudgetStep
<1>3. Inv => AggregatorSpansMatchRows
  <2> SUFFICES ASSUME Inv, NEW m \in Messages
               PROVE  aggSpans[m] <= rows[m] /\ (aggSpans[m] > 0 => m \in Traced \cap Decodable)
    BY DEF AggregatorSpansMatchRows
  <2>1. /\ rows[m] \in Nat /\ aggSpans[m] \in Nat /\ Cardinality(Holding(m)) \in Nat
        /\ aggSpans[m] + Cardinality(Holding(m)) <= rows[m]
        /\ rows[m] > 0 => m \in Decodable
        /\ aggSpans[m] > 0 => m \in Traced
    BY FS_CardinalityType DEF TypeOK, SpanBudget
  <2> QED BY <2>1
<1> QED BY <1>1, <1>2, <1>3, PTL DEF Spec

-----------------------------------------------------------------------------
(* Refinement *)

LEMMA SinkInit == Init => Sink!Init
  BY DEF Init, Sink!Init, Published

\* Every step of the aggregator is a step of the sink, or none.
LEMMA SinkStep == IInv /\ IInv' /\ [Next]_vars => [Sink!Next]_(Sink!vars)
<1> SUFFICES ASSUME IInv, IInv', [Next]_vars PROVE [Sink!Next]_(Sink!vars)
  OBVIOUS
<1> DEFINE Recorded == {m \in Messages : rows[m] > 0}
<1> DEFINE Acked == {m \in Messages : status[m] = "acked"}
<1> DEFINE Expired == {m \in Messages : status[m] = "expired"}
<1>t. /\ status \in [Messages -> Status]
      /\ rows \in [Messages -> Nat]
      /\ \A w \in Workers : buffer[w] # <<>> => Head(buffer[w]) \in Messages
      /\ \A w \in Workers : pc[w] # "idle" => buffer[w] # <<>>
  BY HeadTail DEF IInv, TypeOK
<1>s. ASSUME status' = status, rows' = rows PROVE UNCHANGED Sink!vars
  BY <1>s DEF Sink!vars, Published
<1>1. ASSUME NEW m \in Messages, Publish(m) PROVE Sink!Accept(m)
  <2>1. m \notin Published /\ status' = [status EXCEPT ![m] = "waiting"] /\ rows' = rows
    BY <1>1 DEF Publish, dbVars
  <2>2. Published' = Published \cup {m} /\ Acked' = Acked /\ Expired' = Expired
    BY <1>t, <2>1 DEF Published, Status
  <2> QED BY <2>1, <2>2 DEF Sink!Accept
<1>2. ASSUME NEW m \in Messages, Expire(m) PROVE Sink!Drop(m)
  <2>1. /\ status[m] \in {"waiting", "pending", "redeliver"}
        /\ status' = [status EXCEPT ![m] = "expired"]
        /\ rows' = rows
    BY <1>2 DEF Expire, dbVars
  <2>2. /\ Published' = Published /\ Acked' = Acked /\ Expired' = Expired \cup {m}
        /\ m \in Published /\ m \notin Acked
    BY <1>t, <2>1 DEF Published, Status
  <2> QED BY <2>1, <2>2 DEF Sink!Drop
\* A step between the states a message passes on its way is invisible.
<1>3. ASSUME NEW m \in Messages,
             status[m] \in {"waiting", "pending", "redeliver"},
             status' \in {[status EXCEPT ![m] = s] : s \in {"pending", "redeliver"}},
             rows' = rows
      PROVE  UNCHANGED Sink!vars
  <2>1. Published' = Published /\ Acked' = Acked /\ Expired' = Expired
    BY <1>t, <1>3 DEF Published, Status
  <2> QED BY <1>3, <2>1 DEF Sink!vars
<1>4. ASSUME NEW w \in Workers, InsertOk(w) \/ InsertFails(w)
      PROVE  Sink!Next \/ UNCHANGED Sink!vars
  <2>0. PICK m \in Messages : m = Head(buffer[w])
    BY <1>4, <1>t DEF InsertOk, InsertFails, Handling
  <2>1. m \in Messages /\ m \in Decodable /\ status' = status
    BY <1>4, <2>0 DEF InsertOk, InsertFails, Handling
  <2>2. rows' = rows \/ rows' = [rows EXCEPT ![m] = @ + 1]
    BY <1>4, <2>0 DEF InsertOk, InsertFails, Store
  <2>3. CASE rows' = [rows EXCEPT ![m] = @ + 1] /\ rows[m] = 0 /\ m \in Published
    <3>1. Recorded' = Recorded \cup {m}
      BY <1>t, <2>1, <2>3
    <3>2. m \notin Acked
      BY <2>1, <2>3 DEF IInv, NoLoss
    <3>3. Sink!Record(m)
      BY <2>1, <2>3, <3>1, <3>2 DEF Sink!Record, Published
    <3> QED BY <2>1, <3>3 DEF Sink!Next
  <2>4. CASE rows' = rows \/ rows[m] > 0
    <3>1. Recorded' = Recorded
      BY <1>t, <2>1, <2>2, <2>4
    <3> QED BY <2>1, <3>1 DEF Sink!vars, Published
  <2>5. m \in Published
    BY <1>4, <2>0, HeadTail DEF InsertOk, InsertFails, Handling, IInv, HeldIsPublished
  <2> QED BY <1>t, <2>1, <2>2, <2>3, <2>4, <2>5
<1>5. ASSUME NEW w \in Workers, Ack(w) PROVE Sink!Next \/ UNCHANGED Sink!vars
  <2>0. PICK m \in Messages : m = Head(buffer[w])
    BY <1>5, <1>t DEF Ack
  <2>1. pc[w] = "ack" /\ rows' = rows
    BY <1>5 DEF Ack, Return, dbVars
  <2>2. CASE status' = status
    BY <1>s, <2>1, <2>2
  <2>3. CASE /\ status[m] \in {"pending", "redeliver"}
             /\ status' = [status EXCEPT ![m] = "acked"]
    <3>1. /\ Published' = Published /\ Acked' = Acked \cup {m} /\ Expired' = Expired
          /\ m \in Published /\ m \notin Expired
      BY <1>t, <2>1, <2>3 DEF Published, Status
    <3>2. m \in Recorded \/ m \notin Decodable
      BY <2>0, <2>1 DEF IInv, HandledIsStored
    <3>3. Sink!Settle(m)
      BY <2>1, <3>1, <3>2 DEF Sink!Settle
    <3> QED BY <2>1, <3>3 DEF Sink!Next
  <2> QED BY <1>5, <2>0, <2>2, <2>3 DEF Ack
<1>6. ASSUME NEW w \in Workers, Nak(w) PROVE UNCHANGED Sink!vars
  <2>1. rows' = rows /\ Head(buffer[w]) \in Messages
    BY <1>6, <1>t DEF Nak, Return, dbVars
  <2>2. \/ status' = status
        \/ /\ status[Head(buffer[w])] = "pending"
           /\ status' = [status EXCEPT ![Head(buffer[w])] = "redeliver"]
    BY <1>6 DEF Nak
  <2> QED BY <1>3, <1>s, <2>1, <2>2
<1>7. ASSUME NEW m \in Messages, NEW w \in Workers, Deliver(w, m) PROVE UNCHANGED Sink!vars
  BY <1>3, <1>7 DEF Deliver, dbVars
<1>8. ASSUME NEW m \in Messages, AckWait(m) PROVE UNCHANGED Sink!vars
  BY <1>3, <1>8 DEF AckWait, dbVars
<1>9. ASSUME NEW w \in Workers, Skip(w) \/ InsertAggregatorSpan(w)
      PROVE  UNCHANGED Sink!vars
  BY <1>s, <1>9 DEF Skip, InsertAggregatorSpan, dbVars
<1>10. ASSUME NEW r \in Replicas, Crash(r) PROVE UNCHANGED Sink!vars
  BY <1>s, <1>10 DEF Crash, dbVars
<1>11. CASE UNCHANGED vars
  BY <1>s, <1>11 DEF vars, dbVars
<1> QED
  BY <1>1, <1>2, <1>4, <1>5, <1>6, <1>7, <1>8, <1>9, <1>10, <1>11
     DEF Next, Server, Callback, Sink!Next

\* The aggregator is an at-least-once sink: every behaviour of it is one of
\* TelemetrySink, with the stream and the tables read as its sets.
THEOREM Refinement == Spec => ImplementsSink
<1> QED BY SinkInit, SinkStep, Invariance, PTL DEF Spec, ImplementsSink, Sink!Spec
=============================================================================
