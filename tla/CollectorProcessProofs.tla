----------------------- MODULE CollectorProcessProofs -----------------------
(***************************************************************************)
(* Theorems about CollectorProcess: the collector keeps its promises while *)
(* its process is stopped or killed, and a planned stop cuts no call.      *)
(***************************************************************************)
EXTENDS CollectorProcess, CollectorProofs

\* The process adds no step to the handlers: what holds of Collector whatever
\* its calls do holds of it while main stops the servers.
LEMMA ProcessRefines == ProcessSpec => Spec
<1>1. ProcessInit => Init
  BY DEF ProcessInit
<1>2. [ProcessNext]_allVars => [Next]_vars
  BY DEF ProcessNext, allVars, Main, Signal, Kill, StopGrpc, StopHttp, TimeUp, Return,
         Call, Message, Next
<1> QED BY <1>1, <1>2, PTL DEF ProcessSpec, Spec

\* Where main is says which calls can still be open: it waits for gRPC calls
\* before it leaves "grpc" and for HTTP calls, or the deadline, before it leaves
\* "http", and neither kind is accepted any more by then.
Closed ==
    /\ phase = "http" => \A r \in Grpc : ~Open(r)
    /\ phase = "exited" =>
         killed \/ /\ \A r \in Grpc : ~Open(r)
                   /\ timeUp \/ \A r \in Http : ~Open(r)

StopInv == IInv /\ ProcessTypeOK /\ Closed

LEMMA StopInvInit == ProcessInit => StopInv
<1> SUFFICES ASSUME ProcessInit PROVE StopInv
  OBVIOUS
<1>1. IInv
  BY InvInit DEF ProcessInit
<1>2. ProcessTypeOK /\ Closed
  BY <1>1 DEF ProcessInit, IInv, ProcessTypeOK, Closed
<1> QED BY <1>1, <1>2 DEF StopInv

\* A call opens only where main still accepts it; the others stay as they are.
LEMMA CallOpens ==
    ASSUME TypeOK, NEW r \in Requests, Call(r)
    PROVE  /\ \A q \in Requests \ {r} : Open(q)' = Open(q)
           /\ Open(r)' => Open(r) \/ Accepting(r)
           /\ phase = "exited" => ~Open(r)' \/ Accepting(r)
<1>t. pc \in [Requests -> {"new", "publish", "wait"} \cup Finished]
  BY DEF TypeOK
<1>1. \E place : pc' = [pc EXCEPT ![r] = place]
  BY DEF Call, Receive, Reject, Handler, Send, Acked, Failed, Abort, Advance, Goto
<1>2. \A q \in Requests \ {r} : pc'[q] = pc[q]
  BY <1>t, <1>1
<1>3. Handler(r) \/ Abort(r) => Open(r)
  BY DEF Handler, Send, Acked, Failed, Abort, Open
<1>4. Abort(r) => ~Open(r)'
  BY <1>t DEF Abort, Goto, Open
<1> QED BY <1>2, <1>3, <1>4 DEF Call, Open

LEMMA StopInvStep == StopInv /\ [ProcessNext]_allVars => StopInv'
<1> SUFFICES ASSUME StopInv, [ProcessNext]_allVars PROVE StopInv'
  OBVIOUS
<1>i. IInv'
  <2>1. [Next]_vars
    BY DEF ProcessNext, allVars, Main, Signal, Kill, StopGrpc, StopHttp, TimeUp, Return,
           Call, Message, Next
  <2> QED BY <2>1, InvStep DEF StopInv
<1>t. /\ TypeOK /\ TypeOK'
      /\ phase \in {"serving", "grpc", "http", "exited"}
      /\ sigterm \in BOOLEAN /\ timeUp \in BOOLEAN /\ killed \in BOOLEAN
  BY <1>i DEF StopInv, IInv, ProcessTypeOK
<1>g. Grpc \subseteq Requests /\ Http \subseteq Requests /\ Grpc \cap Http = {}
  BY CollectorAssumption DEF Grpc
<1>m. ASSUME Main PROVE ProcessTypeOK' /\ Closed'
  <2>1. \A r \in Requests : Open(r)' = Open(r)
    BY <1>m DEF Main, Signal, Kill, StopGrpc, StopHttp, TimeUp, Return, vars, Open
  <2>2. ProcessTypeOK'
    BY <1>m, <1>t DEF Main, Signal, Kill, StopGrpc, StopHttp, TimeUp, Return, ProcessTypeOK
  <2>3. CASE Signal \/ TimeUp
    BY <1>g, <2>1, <2>2, <2>3 DEF Signal, TimeUp, StopInv, Closed
  <2>4. CASE Kill
    BY <2>2, <2>4 DEF Kill, Closed
  <2>5. CASE StopGrpc
    BY <2>2, <2>5 DEF StopGrpc, Closed
  <2>6. CASE StopHttp
    BY <1>g, <2>1, <2>2, <2>6 DEF StopHttp, Closed
  <2>7. CASE Return
    BY <1>g, <2>1, <2>2, <2>7 DEF Return, StopInv, Closed
  <2> QED BY <1>m, <2>3, <2>4, <2>5, <2>6, <2>7 DEF Main
<1>c. ASSUME NEW r \in Requests, Call(r), UNCHANGED processVars
      PROVE  ProcessTypeOK' /\ Closed'
  <2>1. ProcessTypeOK'
    BY <1>c, <1>t DEF processVars, ProcessTypeOK
  <2>2. /\ \A q \in Requests \ {r} : Open(q)' = Open(q)
        /\ Open(r)' => Open(r) \/ Accepting(r)
        /\ phase = "exited" => ~Open(r)' \/ Accepting(r)
    BY <1>c, <1>t, CallOpens
  <2>3. CASE phase \in {"http", "exited"}
    <3>1. ~Accepting(r)
      BY <2>3 DEF Accepting
    <3>2. \A q \in Requests : Open(q)' => Open(q)
      BY <2>2, <3>1
    <3> QED BY <1>c, <1>g, <2>1, <3>2 DEF processVars, StopInv, Closed
  <2>4. CASE phase \notin {"http", "exited"}
    BY <1>c, <2>1, <2>4 DEF processVars, Closed
  <2> QED BY <2>3, <2>4
<1>s. ASSUME NEW x \in sent, Message(x), UNCHANGED processVars
      PROVE  ProcessTypeOK' /\ Closed'
  <2>1. \A r \in Requests : Open(r)' = Open(r)
    BY <1>s DEF Message, Store, Lose, Open
  <2> QED BY <1>s, <1>t, <1>g, <2>1 DEF processVars, StopInv, ProcessTypeOK, Closed
<1>u. CASE UNCHANGED allVars
  <2>1. \A r \in Requests : Open(r)' = Open(r)
    BY <1>u DEF allVars, vars, Open
  <2> QED BY <1>i, <1>u, <1>t, <1>g, <2>1 DEF allVars, processVars, StopInv, ProcessTypeOK, Closed
<1> QED BY <1>i, <1>m, <1>c, <1>s, <1>u DEF ProcessNext, StopInv

LEMMA StopInvariance == ProcessSpec => []StopInv
  BY StopInvInit, StopInvStep, PTL DEF ProcessSpec

\* The types of the collector and of its process are kept.
THEOREM ProcessTypeCorrect == ProcessSpec => []ProcessTypeOK
<1>1. StopInv => ProcessTypeOK
  BY DEF StopInv
<1> QED BY StopInvariance, <1>1, PTL

\* A planned stop cuts no gRPC call, and an HTTP call only after its 10 s, for
\* any number of calls in flight.
THEOREM PlannedStopIsClean == ProcessSpec => []StopCutsNothing
<1>1. StopInv => StopCutsNothing
  BY DEF StopInv, Closed, StopCutsNothing, Grpc
<1> QED BY StopInvariance, <1>1, PTL

\* A collector that is being stopped, or was killed, has still told no client
\* that a call is accepted unless all of it is in the stream.
THEOREM AcceptedThroughStop == ProcessSpec => []OkMeansStored
  BY ProcessRefines, AcceptedIsStored, PTL
=============================================================================
