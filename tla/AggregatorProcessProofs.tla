----------------------- MODULE AggregatorProcessProofs -----------------------
(***************************************************************************)
(* Theorems about AggregatorProcess, for any kinds of telemetry and any    *)
(* number of reconnects.                                                   *)
(***************************************************************************)
EXTENDS AggregatorProcess, TLAPS

\* nats.go has given up when it has counted to MaxReconnects.
GivenUpAtTheLimit == conn # "closed" => attempts < MaxReconnects

\* main leaves c.Run only behind the last goroutine, so none has yet to
\* subscribe either when it goes on to close things.
RunsUnderMain ==
    \A k \in Kinds : consumer[k] \in {"subscribing", "consuming"} => main = "run"

ProcessIInv == TypeOK /\ GivenUpAtTheLimit /\ RunsUnderMain

LEMMA ProcessInvInit == Init => ProcessIInv
<1> SUFFICES ASSUME Init PROVE ProcessIInv
  OBVIOUS
<1> USE ProcessAssumption DEF Init
<1>1. TypeOK
  <2>1. /\ nats \in {"up", "down"} /\ postgres \in {"up", "down", "hung"}
        /\ schema \in {"old", "dirty", "current"} /\ sigterm \in BOOLEAN
    OBVIOUS
  <2>2. /\ main \in Starting \cup {"run"} \cup Stopping \cup {"exited"}
        /\ ready \in BOOLEAN
    BY DEF Starting
  <2>3. conn \in {"none", "up", "down", "closed"} /\ attempts \in 0..MaxReconnects
    OBVIOUS
  <2>4. /\ consumer \in [Kinds -> {"off", "subscribing", "consuming", "ended"}]
        /\ busy \in SUBSET Kinds /\ missed \in SUBSET Kinds
    OBVIOUS
  <2> QED BY <2>1, <2>2, <2>3, <2>4 DEF TypeOK
<1>2. GivenUpAtTheLimit /\ RunsUnderMain
  BY DEF GivenUpAtTheLimit, RunsUnderMain
<1> QED BY <1>1, <1>2 DEF ProcessIInv

\* However the process ends, nothing of it is left.
LEMMA ExitStep == ProcessIInv /\ Exit => ProcessIInv'
<1> SUFFICES ASSUME ProcessIInv, Exit PROVE ProcessIInv'
  OBVIOUS
<1> USE ProcessAssumption DEF Exit
<1>1. TypeOK'
  <2>1. UNCHANGED <<nats, postgres, schema, sigterm>>
    BY DEF serverVars
  <2>2. /\ main' = "exited" /\ ready' \in BOOLEAN /\ busy' \in SUBSET Kinds
        /\ missed' \in SUBSET Kinds
    OBVIOUS
  <2>3. conn' \in {"none", "up", "down", "closed"} /\ attempts' \in 0..MaxReconnects
    OBVIOUS
  <2>4. consumer' \in [Kinds -> {"off", "subscribing", "consuming", "ended"}]
    OBVIOUS
  <2> QED BY <2>1, <2>2, <2>3, <2>4 DEF ProcessIInv, TypeOK
<1>2. GivenUpAtTheLimit' /\ RunsUnderMain'
  BY DEF GivenUpAtTheLimit, RunsUnderMain
<1> QED BY <1>1, <1>2 DEF ProcessIInv

LEMMA ProcessInvStep == ProcessIInv /\ [Next]_vars => ProcessIInv'
<1> SUFFICES ASSUME ProcessIInv, [Next]_vars PROVE ProcessIInv'
  OBVIOUS
<1> USE ProcessAssumption
    DEF ProcessIInv, TypeOK, GivenUpAtTheLimit, RunsUnderMain, serverVars, Starting, Stopping
<1>1. CASE Nats
  BY <1>1 DEF Nats
<1>2. CASE Postgres
  BY <1>2 DEF Postgres
<1>3. CASE Signal
  BY <1>3 DEF Signal
<1>4. CASE Start
  BY <1>4 DEF Start
<1>5. CASE Startup
  <2>1. CASE ConnectPostgresFails \/ MigrateFails \/ EnsureStreamFails \/ LivenessProbe
    BY <2>1, ExitStep DEF ConnectPostgresFails, MigrateFails, EnsureStreamFails, LivenessProbe
  <2>2. CASE ConnectPostgres
    BY <2>2 DEF ConnectPostgres, At
  <2>3. CASE Migrate \/ MigrationsDone
    BY <2>3 DEF Migrate, MigrationsDone, At
  <2>4. CASE Dial
    BY <2>4 DEF Dial, At
  <2>5. CASE EnsureStream
    BY <2>5 DEF EnsureStream, At
  <2>6. CASE Run
    BY <2>6 DEF Run, At
  <2> QED BY <1>5, <2>1, <2>2, <2>3, <2>4, <2>5, <2>6 DEF Startup
<1>6. CASE ConnectionLost \/ Reconnect
  BY <1>6 DEF ConnectionLost, Reconnect
<1>7. CASE ReconnectFails
  <2>1. attempts' = attempts + 1 /\ attempts' \in 0..MaxReconnects
    BY <1>7 DEF ReconnectFails
  <2>2. CASE attempts' < MaxReconnects
    BY <1>7, <2>1, <2>2 DEF ReconnectFails
  <2>3. CASE ~(attempts' < MaxReconnects)
    BY <1>7, <2>1, <2>3 DEF ReconnectFails
  <2> QED BY <2>2, <2>3
<1>8. ASSUME NEW k \in Kinds, Goroutine(k) PROVE ProcessIInv'
  <2>1. CASE Subscribe(k)
    BY <2>1 DEF Subscribe, Becomes
  <2>2. CASE SubscribeFails(k)
    BY <2>2 DEF SubscribeFails, Becomes
  <2>3. CASE Insert(k)
    BY <2>3 DEF Insert
  <2>4. CASE InsertReturns(k)
    BY <2>4 DEF InsertReturns
  <2>5. CASE StopConsuming(k)
    BY <2>5 DEF StopConsuming, Becomes
  <2> QED BY <1>8, <2>1, <2>2, <2>3, <2>4, <2>5 DEF Goroutine
<1>9. CASE Shutdown
  <2>1. CASE RunReturns
    BY <2>1 DEF RunReturns, At
  <2>2. CASE StopHealth
    BY <2>2 DEF StopHealth, At
  <2>3. CASE CloseNats
    BY <2>3 DEF CloseNats, At
  <2>4. CASE ClosePool
    BY <2>4, ExitStep DEF ClosePool
  <2> QED BY <1>9, <2>1, <2>2, <2>3, <2>4 DEF Shutdown
<1>10. CASE UNCHANGED vars
  BY <1>10 DEF vars
<1> QED
  BY <1>1, <1>2, <1>3, <1>4, <1>5, <1>6, <1>7, <1>8, <1>9, <1>10 DEF Next

LEMMA ProcessInvariance == Spec => []ProcessIInv
  BY ProcessInvInit, ProcessInvStep, PTL DEF Spec

\* The process, its connection and its goroutines are only ever in the states
\* the model names, and the count of failed reconnects stays within its limit.
THEOREM ProcessTypes == Spec => []TypeOK
<1>1. ProcessIInv => TypeOK
  BY DEF ProcessIInv
<1> QED BY ProcessInvariance, <1>1, PTL

\* As long as a goroutine consumes, main waits for it in c.Run: it closes
\* neither the connection nor the pool under it, whatever fails and whenever
\* the signal comes.
THEOREM NothingIsClosedInUse == Spec => []NothingClosedInUse
<1>1. ProcessIInv => NothingClosedInUse
  BY DEF ProcessIInv, RunsUnderMain, NothingClosedInUse
<1> QED BY ProcessInvariance, <1>1, PTL
=============================================================================
