--------------------------- MODULE CollectorProofs --------------------------
(***************************************************************************)
(* Theorems about Collector, for any calls of any sizes: what an answer    *)
(* says about the stream.                                                  *)
(***************************************************************************)
EXTENDS Collector, TLAPS

\* How far a handler has come, and what that says about its items: those
\* before next[r] are stored, and none after it was ever handed on.  This is
\* what makes the three properties below hold through lost, late and
\* unacknowledged publishes.
Progress ==
    \A r \in Requests :
       /\ pc[r] = "new" => next[r] = 1
       /\ pc[r] \in {"publish", "wait"} => next[r] <= Last(r)
       /\ pc[r] = "ok" => next[r] > Size[r]
       /\ \A i \in 1..Last(r) : i <= Size[r] /\ i < next[r] => <<r, i>> \in stream
       /\ \A i \in 1..Last(r) : <<r, i>> \in stream \cup sent => i <= next[r]

IInv == TypeOK /\ Progress

\* A call has its items, and its span after them.
LEMMA LastBounds ==
    ASSUME NEW r \in Requests
    PROVE  /\ Size[r] \in Nat
           /\ Last(r) \in Nat
           /\ Size[r] <= Last(r)
           /\ Last(r) <= Size[r] + 1
           /\ r \in Spanned => Last(r) = Size[r] + 1
  BY CollectorAssumption DEF Last

LEMMA ItemOf ==
    ASSUME NEW x \in Items
    PROVE  \E r \in Requests : \E i \in 1..Last(r) : x = <<r, i>>
  BY DEF Items

LEMMA InItems ==
    ASSUME NEW r \in Requests, NEW i \in 1..Last(r)
    PROVE  <<r, i>> \in Items
  BY DEF Items

LEMMA InvInit == Init => IInv
<1> SUFFICES ASSUME Init PROVE IInv
  OBVIOUS
<1>1. TypeOK
  BY LastBounds DEF Init, TypeOK, Finished
<1>2. Progress
  BY LastBounds DEF Init, Progress
<1> QED BY <1>1, <1>2 DEF IInv

\* The handler of r moves on, or another one is left alone.
LEMMA InvStep == IInv /\ [Next]_vars => IInv'
<1> SUFFICES ASSUME IInv, [Next]_vars PROVE IInv'
  OBVIOUS
<1> DEFINE Pcs == {"new", "publish", "wait"} \cup Finished
<1>t. /\ pc \in [Requests -> Pcs]
      /\ next \in [Requests -> Nat]
      /\ \A r \in Requests : next[r] \in 1..Last(r) + 1
      /\ sent \subseteq Items
      /\ stream \subseteq Items
  BY DEF IInv, TypeOK
<1>p. Progress
  BY DEF IInv
\* A step that changes only where a handler is, and not to a place that
\* promises more than Progress already says.
<1>g. ASSUME NEW r \in Requests, NEW place \in Pcs \ {"new"}, Goto(r, place),
             place \in {"publish", "wait"} => next[r] <= Last(r),
             place = "ok" => next[r] > Size[r],
             next' = next, sent' = sent, stream' = stream
      PROVE  IInv'
  <2>1. pc' = [pc EXCEPT ![r] = place]
    BY <1>g DEF Goto
  <2>2. TypeOK'
    BY <1>t, <1>g, <2>1 DEF TypeOK
  <2>3. Progress'
    BY <1>t, <1>p, <1>g, <2>1 DEF Progress
  <2> QED BY <2>2, <2>3 DEF IInv
\* The handler goes on after item next[r], which is stored if it must be.
<1>a. ASSUME NEW r \in Requests, pc[r] = "wait", Advance(r),
             next[r] <= Size[r] => Current(r) \in stream,
             sent' = sent, stream' = stream
      PROVE  IInv'
  <2> DEFINE place == IF next[r] < Last(r) THEN "publish" ELSE "ok"
  <2>1. /\ pc' = [pc EXCEPT ![r] = place]
        /\ next' = [next EXCEPT ![r] = @ + 1]
    BY <1>a DEF Advance, Goto
  <2>2. next[r] \in 1..Last(r) /\ Last(r) \in Nat /\ Size[r] \in Nat /\ Size[r] <= Last(r)
    BY <1>t, <1>p, <1>a, LastBounds DEF Progress
  <2>3. TypeOK'
    <3>1. pc' \in [Requests -> Pcs] /\ next' \in [Requests -> Nat]
      BY <1>t, <2>1 DEF Finished
    <3>2. \A q \in Requests : next'[q] \in 1..Last(q) + 1
      BY <1>t, <2>1, <2>2
    <3> QED BY <1>t, <1>a, <3>1, <3>2 DEF TypeOK
  <2>4. ASSUME NEW q \in Requests
        PROVE  /\ pc'[q] = "new" => next'[q] = 1
               /\ pc'[q] \in {"publish", "wait"} => next'[q] <= Last(q)
               /\ pc'[q] = "ok" => next'[q] > Size[q]
               /\ \A i \in 1..Last(q) : i <= Size[q] /\ i < next'[q] => <<q, i>> \in stream
               /\ \A i \in 1..Last(q) : <<q, i>> \in stream \cup sent => i <= next'[q]
    <3>1. CASE q = r
      <4>1. next'[r] = next[r] + 1 /\ pc'[r] = place
        BY <1>t, <2>1
      <4>2. \A i \in 1..Last(r) : i <= Size[r] /\ i < next[r] + 1 => <<r, i>> \in stream
        BY <1>p, <1>a, <2>2 DEF Progress, Current
      <4>3. \A i \in 1..Last(r) : <<r, i>> \in stream \cup sent => i <= next[r] + 1
        BY <1>p, <2>2 DEF Progress
      <4> QED BY <2>2, <3>1, <4>1, <4>2, <4>3
    <3>2. CASE q # r
      <4>1. next'[q] = next[q] /\ pc'[q] = pc[q]
        BY <1>t, <2>1, <3>2
      <4> QED BY <1>p, <4>1 DEF Progress
    <3> QED BY <3>1, <3>2
  <2> QED BY <1>a, <2>3, <2>4 DEF IInv, Progress
<1>1. ASSUME NEW r \in Requests, Receive(r) PROVE IInv'
  <2>1. pc[r] = "new" /\ next[r] = 1 /\ Last(r) \in Nat /\ Size[r] \in Nat /\ Size[r] <= Last(r)
    BY <1>p, <1>1, LastBounds DEF Receive, Progress
  <2>2. UNCHANGED <<next, sent, stream>>
    BY <1>1 DEF Receive
  <2>3. CASE Last(r) = 0 /\ Goto(r, "ok")
    BY <1>g, <2>1, <2>2, <2>3 DEF Finished
  <2>4. CASE Last(r) # 0 /\ Goto(r, "publish")
    BY <1>g, <2>1, <2>2, <2>4
  <2> QED BY <1>1, <2>3, <2>4 DEF Receive
<1>2. ASSUME NEW r \in Requests, Reject(r) PROVE IInv'
  BY <1>g, <1>2 DEF Reject, Finished
<1>3. ASSUME NEW r \in Requests, Abort(r) PROVE IInv'
  BY <1>g, <1>3 DEF Abort, Finished
<1>4. ASSUME NEW r \in Requests, Send(r) PROVE IInv'
  <2>1. /\ pc[r] = "publish" /\ pc' = [pc EXCEPT ![r] = "wait"]
        /\ sent' = sent \cup {<<r, next[r]>>} /\ next' = next /\ stream' = stream
    BY <1>4 DEF Send, Goto, Current
  <2>2. next[r] \in 1..Last(r)
    BY <1>t, <1>p, <2>1, LastBounds DEF Progress
  <2>3. TypeOK'
    BY <1>t, <2>1, <2>2, InItems DEF TypeOK
  <2>4. Progress'
    BY <1>t, <1>p, <2>1, <2>2 DEF Progress
  <2> QED BY <2>3, <2>4 DEF IInv
<1>5. ASSUME NEW r \in Requests, Acked(r) PROVE IInv'
  BY <1>a, <1>5 DEF Acked
<1>6. ASSUME NEW r \in Requests, Failed(r) PROVE IInv'
  <2>1. CASE next[r] <= Size[r]
    BY <1>g, <1>6, <2>1 DEF Failed, Finished
  <2>2. CASE ~(next[r] <= Size[r])
    BY <1>a, <1>6, <2>2 DEF Failed
  <2> QED BY <2>1, <2>2
<1>7. ASSUME NEW x \in sent, Store(x) \/ Lose(x) PROVE IInv'
  <2>1. /\ pc' = pc /\ next' = next
        /\ stream \subseteq stream' /\ stream' \subseteq stream \cup {x}
        /\ sent' \subseteq sent
    BY <1>7 DEF Store, Lose
  <2>2. TypeOK'
    BY <1>t, <2>1 DEF TypeOK
  <2>3. Progress'
    BY <1>p, <1>7, <2>1 DEF Progress
  <2> QED BY <2>2, <2>3 DEF IInv
<1>8. CASE UNCHANGED vars
  BY <1>t, <1>p, <1>8 DEF vars, IInv, TypeOK, Progress
<1> QED BY <1>1, <1>2, <1>3, <1>4, <1>5, <1>6, <1>7, <1>8 DEF Next, Handler

LEMMA Invariance == Spec => []IInv
  BY InvInit, InvStep, PTL DEF Spec

\* An accepted call is in the stream, all of it: SendMetrics, SendLogs,
\* SendSpans and the HTTP handlers never acknowledge what NATS has not.
THEOREM AcceptedIsStored == Spec => []OkMeansStored
<1>1. IInv => OkMeansStored
  BY LastBounds DEF IInv, TypeOK, Progress, OkMeansStored, Stored
<1> QED BY Invariance, <1>1, PTL

\* A collector span in the stream has all the metrics of its batch with it.
THEOREM SpanAfterMetrics == Spec => []SpanHasItsMetrics
<1>1. IInv => SpanHasItsMetrics
  <2> SUFFICES ASSUME IInv, NEW r \in Spanned, SpanOf(r) \in stream
               PROVE  Stored(r) = 1..Size[r]
    BY DEF SpanHasItsMetrics
  <2>1. r \in Requests /\ Last(r) = Size[r] + 1 /\ Size[r] \in Nat
    BY CollectorAssumption, LastBounds DEF Spanned
  <2>2. Size[r] + 1 <= next[r]
    BY <2>1 DEF IInv, Progress, SpanOf
  <2>3. \A i \in 1..Size[r] : <<r, i>> \in stream
    BY <2>1, <2>2 DEF IInv, TypeOK, Progress
  <2> QED BY <2>3 DEF Stored
<1> QED BY Invariance, <1>1, PTL

\* What a call leaves in the stream is a prefix of its items, with at most one
\* item the handler was not told about.
THEOREM StoredPrefix == Spec => []StoredIsPrefix
<1>1. IInv => StoredIsPrefix
  <2> SUFFICES ASSUME IInv, NEW r \in Requests
               PROVE  \E k \in {next[r] - 1, next[r]} : Stored(r) = 1..k \cap 1..Size[r]
    BY DEF StoredIsPrefix
  <2>1. next[r] \in Nat /\ Size[r] \in Nat /\ Last(r) \in Nat /\ Size[r] <= Last(r)
    BY LastBounds DEF IInv, TypeOK
  <2>2. \A i \in 1..Size[r] : i < next[r] => <<r, i>> \in stream
    BY <2>1 DEF IInv, Progress
  <2>3. \A i \in 1..Size[r] : <<r, i>> \in stream => i <= next[r]
    BY <2>1 DEF IInv, Progress
  <2>4. CASE <<r, next[r]>> \in stream
    <3>1. Stored(r) = 1..next[r] \cap 1..Size[r]
      BY <2>1, <2>2, <2>3, <2>4 DEF Stored
    <3> QED BY <3>1
  <2>5. CASE <<r, next[r]>> \notin stream
    <3>1. Stored(r) = 1..(next[r] - 1) \cap 1..Size[r]
      BY <2>1, <2>2, <2>3, <2>5 DEF Stored
    <3> QED BY <3>1
  <2> QED BY <2>4, <2>5
<1> QED BY Invariance, <1>1, PTL
=============================================================================
