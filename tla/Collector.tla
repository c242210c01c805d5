----------------------------- MODULE Collector ------------------------------
(***************************************************************************)
(* The collector (cmd/collector): concurrent gRPC and HTTP handlers that   *)
(* publish the items of their requests to JetStream, one at a time, each   *)
(* waiting for the server's answer.  A SendMetrics call that carries a     *)
(* trace-id publishes one item more, the collector's own span, which every *)
(* metric of the batch already names as its parent.                        *)
(*                                                                         *)
(* Item i of request r is <<r, i>>; the collector span of a traced batch   *)
(* comes last, as item Size[r] + 1.                                        *)
(***************************************************************************)
EXTENDS Integers, FiniteSets

CONSTANTS Requests,  \* calls made to the collector
          Size,      \* metrics, logs or spans in a call
          Traced,    \* SendMetrics calls whose metadata has a trace-id
          Http       \* calls over HTTP: one item, checked before it is sent

ASSUME CollectorAssumption ==
    /\ Size \in [Requests -> Nat]
    /\ Traced \subseteq Requests
    /\ Http \subseteq Requests \ Traced
    /\ \A r \in Http : Size[r] = 1

\* An empty batch writes no span: "traceID != "" && len(req.Metrics) > 0".
Spanned == {r \in Traced : Size[r] > 0}
Last(r) == IF r \in Spanned THEN Size[r] + 1 ELSE Size[r]
SpanOf(r) == <<r, Size[r] + 1>>

VARIABLES
    pc,      \* where the handler of a request is
    next,    \* the item it publishes next
    sent,    \* items handed to the NATS connection and not yet stored
    stream   \* items stored in the stream TELEMETRY

vars == <<pc, next, sent, stream>>

Finished == {"ok", "error", "rejected"}

Items == UNION {{<<r, i>> : i \in 1..Last(r)} : r \in Requests}

TypeOK == /\ pc \in [Requests -> {"new", "publish", "wait"} \cup Finished]
          /\ \A r \in Requests : next[r] \in 1..Last(r) + 1
          /\ next \in [Requests -> Nat]
          /\ sent \subseteq Items
          /\ stream \subseteq Items

Init == /\ pc = [r \in Requests |-> "new"]
        /\ next = [r \in Requests |-> 1]
        /\ sent = {}
        /\ stream = {}

Goto(r, place) == pc' = [pc EXCEPT ![r] = place]
Current(r) == <<r, next[r]>>

\* Mutant: the loop runs one item too far.
AdvanceTooFar(r) == /\ next' = [next EXCEPT ![r] = @ + 1]
                    /\ Goto(r, IF next[r] <= Last(r) THEN "publish" ELSE "ok")

\* What the loop does after item next[r]: the following item or the answer.
Advance(r) == /\ next' = [next EXCEPT ![r] = @ + 1]
              /\ Goto(r, IF next[r] < Last(r) THEN "publish" ELSE "ok")

\* A handler starts; a gRPC call without items is answered at once.
Receive(r) == /\ pc[r] = "new"
              /\ Goto(r, IF Last(r) = 0 THEN "ok" ELSE "publish")
              /\ UNCHANGED <<next, sent, stream>>

\* HTTP only: the body does not bind (400) or the rate limit is hit (429).
Reject(r) == /\ pc[r] = "new"
             /\ r \in Http
             /\ Goto(r, "rejected")
             /\ UNCHANGED <<next, sent, stream>>

\* js.Publish hands the item to the connection, or to its reconnect buffer.
Send(r) == /\ pc[r] = "publish"
           /\ sent' = sent \cup {Current(r)}
           /\ Goto(r, "wait")
           /\ UNCHANGED <<next, stream>>

\* The server stores what it received, perhaps long after the handler has
\* stopped waiting for it: the reconnect buffer is flushed on reconnection.
Store(x) == /\ x \in sent
            /\ sent' = sent \ {x}
            /\ stream' = stream \cup {x}
            /\ UNCHANGED <<pc, next>>

\* The item never reaches the server.
Lose(x) == /\ x \in sent
           /\ sent' = sent \ {x}
           /\ UNCHANGED <<pc, next, stream>>

\* Mutant: publish without waiting for the server.
AckedUnstored(r) == /\ pc[r] = "wait"
                    /\ Advance(r)
                    /\ UNCHANGED <<sent, stream>>

\* Publish returns nil: the server has stored the item.
Acked(r) == /\ pc[r] = "wait"
            /\ Current(r) \in stream
            /\ Advance(r)
            /\ UNCHANGED <<sent, stream>>

\* Mutant: an error is logged and the loop goes on.
FailedGoesOn(r) == /\ pc[r] = "wait"
                   /\ Advance(r)
                   /\ UNCHANGED <<sent, stream>>

\* Mutant: the error of the collector span is forgotten, and nobody answers.
FailedOnItemsOnly(r) == /\ pc[r] = "wait"
                        /\ next[r] <= Size[r]
                        /\ Goto(r, "error")
                        /\ UNCHANGED <<next, sent, stream>>

\* Publish returns an error (timeout, cancelled context, no connection),
\* whatever becomes of the item.  A metric, log or span fails the call; the
\* collector's own span is only warned about.
Failed(r) == /\ pc[r] = "wait"
             /\ IF next[r] <= Size[r]
                THEN Goto(r, "error") /\ UNCHANGED next
                ELSE Advance(r)
             /\ UNCHANGED <<sent, stream>>

\* The process is killed: the client sees its call fail.
Abort(r) == /\ pc[r] \in {"publish", "wait"}
            /\ Goto(r, "error")
            /\ UNCHANGED <<next, sent, stream>>

Handler(r) == Send(r) \/ Acked(r) \/ Failed(r)

Next == \/ \E r \in Requests : Receive(r) \/ Reject(r) \/ Handler(r) \/ Abort(r)
        \/ \E x \in sent : Store(x) \/ Lose(x)

Spec == Init /\ [][Next]_vars

\* Publish has a timeout (nats.go: 5 s), so a handler is never stuck in it;
\* what the connection holds is stored or lost in the end.
Fairness == /\ \A r \in Requests : WF_vars(Handler(r))
            /\ \A x \in Items : WF_vars(Store(x) \/ Lose(x))

FairSpec == Spec /\ Fairness

-----------------------------------------------------------------------------
(* Properties *)

Stored(r) == {i \in 1..Size[r] : <<r, i>> \in stream}

\* "Accepted: len(req.Metrics)", or 202: the client is told that a request is
\* accepted only when every item of it is in the stream.
OkMeansStored == \A r \in Requests : pc[r] = "ok" => Stored(r) = 1..Size[r]

\* A collector span never stands for metrics that were not accepted: it is in
\* the stream only after all of its batch, however late items are stored.
SpanHasItsMetrics ==
    \A r \in Spanned : SpanOf(r) \in stream => Stored(r) = 1..Size[r]

\* A failed call leaves a prefix of its items in the stream, and at most one
\* of them unacknowledged: an error never hides more than one stored item.
StoredIsPrefix ==
    \A r \in Requests :
       \E k \in {next[r] - 1, next[r]} : Stored(r) = 1..k \cap 1..Size[r]
=============================================================================
