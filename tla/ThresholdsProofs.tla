-------------------------- MODULE ThresholdsProofs --------------------------
(***************************************************************************)
(* Theorems about Thresholds, for any replicas, agents and requests.       *)
(***************************************************************************)
EXTENDS Thresholds, TLAPS

\* A request that came in after another found it answered.
AfterAnswered ==
    \A r \in Requests : \A q \in after[r] :
        place[r] \in {"saved", "failed"} /\ place[q] # "new"

\* An upsert is under way for a handler that waits for it, or that has failed.
UpsertsAreOpen ==
    \A r \in upserts : \/ place[r] = "stored"
                       \/ place[r] = "failed" /\ faults > 0

\* While the table holds the setting of a saved PUT, no upsert of a later one has
\* been committed, unless its handler has failed.
LaterIsUncommitted ==
    settings \in Saved =>
        \A q \in after[settings] :
            \/ place[q] \in {"bound", "failed"}
            \/ place[q] = "stored" /\ q \in upserts

\* A handler that has written memory and not answered finds its setting still
\* there, in the table too once that is committed; and a replica differs from
\* the table only because of such a handler.
Agreement ==
    (Sequential /\ faults = 0) =>
        /\ \A r \in Requests :
              place[r] = "stored" => cfg[at[r]] = r /\ (r \in upserts \/ settings = r)
        /\ settings \in Requests =>
              \/ cfg[at[settings]] = settings
              \/ \E r \in Requests : place[r] = "stored" /\ at[r] = at[settings]

IInv == TypeOK /\ AfterAnswered /\ UpsertsAreOpen /\ LaterIsUncommitted /\ Agreement

LEMMA InvInit == Init => IInv
<1> SUFFICES ASSUME Init PROVE IInv
  OBVIOUS
<1> USE ThresholdsAssumption DEF Init, Settings
<1>1. TypeOK
  BY DEF TypeOK
<1>2. AfterAnswered /\ UpsertsAreOpen /\ LaterIsUncommitted /\ Agreement
  BY DEF AfterAnswered, UpsertsAreOpen, LaterIsUncommitted, Agreement, Saved
<1> QED BY <1>1, <1>2 DEF IInv

\* Every step keeps the types.
LEMMA TypeStep == TypeOK /\ [Next]_vars => TypeOK'
<1> SUFFICES ASSUME TypeOK, [Next]_vars PROVE TypeOK'
  OBVIOUS
<1> USE ThresholdsAssumption DEF TypeOK, Settings, Goto, Fault, requestVars, agentVars
<1>1. ASSUME NEW r \in Requests, Put(r) PROVE TypeOK'
  <2>1. CASE Bind(r)
    BY <2>1 DEF Bind
  <2>2. CASE StoreInMemory(r)
    BY <2>2 DEF StoreInMemory
  <2>3. CASE Save(r)
    BY <2>3 DEF Save
  <2>4. CASE SaveFails(r)
    BY <2>4 DEF SaveFails
  <2>5. CASE Commit(r)
    BY <2>5 DEF Commit
  <2> QED BY <1>1, <2>1, <2>2, <2>3, <2>4, <2>5 DEF Put
<1>2. ASSUME NEW a \in Apis, Restart(a) PROVE TypeOK'
  BY <1>2 DEF Restart
<1>3. ASSUME NEW a \in Apis, Crash(a) PROVE TypeOK'
  BY <1>3 DEF Crash, InFlight
<1>4. ASSUME NEW g \in Agents, Poll(g) \/ AgentRestart(g) PROVE TypeOK'
  <2>1. CASE Fetch(g)
    BY <2>1 DEF Fetch
  <2>2. CASE Apply(g)
    BY <2>2 DEF Apply
  <2>3. CASE AgentRestart(g)
    BY <2>3 DEF AgentRestart
  <2> QED BY <1>4, <2>1, <2>2, <2>3 DEF Poll
<1>5. CASE UNCHANGED vars
  BY <1>5 DEF vars
<1> QED BY <1>1, <1>2, <1>3, <1>4, <1>5 DEF Next

\* What comes after a saved PUT is committed after it.
LEMMA OrderStep ==
    IInv /\ [Next]_vars => AfterAnswered' /\ UpsertsAreOpen' /\ LaterIsUncommitted'
<1> DEFINE Order == AfterAnswered /\ UpsertsAreOpen /\ LaterIsUncommitted
<1> SUFFICES ASSUME IInv, [Next]_vars PROVE Order'
  OBVIOUS
<1> USE ThresholdsAssumption
    DEF IInv, TypeOK, AfterAnswered, UpsertsAreOpen, LaterIsUncommitted, Saved, Goto,
        Fault, requestVars, agentVars
<1>1. ASSUME NEW r \in Requests, Put(r) PROVE Order'
  <2>1. CASE Bind(r)
    BY <2>1 DEF Bind
  <2>2. CASE StoreInMemory(r)
    BY <2>2 DEF StoreInMemory
  <2>3. CASE Commit(r)
    BY <2>3 DEF Commit
  <2>4. CASE Save(r)
    BY <2>4 DEF Save
  <2>5. CASE SaveFails(r)
    BY <2>5 DEF SaveFails
  <2> QED BY <1>1, <2>1, <2>2, <2>3, <2>4, <2>5 DEF Put
<1>2. ASSUME NEW a \in Apis, Restart(a) PROVE Order'
  BY <1>2 DEF Restart
<1>3. ASSUME NEW a \in Apis, Crash(a) PROVE Order'
  BY <1>3 DEF Crash, InFlight
<1>4. ASSUME NEW g \in Agents, Poll(g) \/ AgentRestart(g) PROVE Order'
  BY <1>4 DEF Poll, Fetch, Apply, AgentRestart
<1>5. CASE UNCHANGED vars
  BY <1>5 DEF vars
<1> QED BY <1>1, <1>2, <1>3, <1>4, <1>5 DEF Next

\* Requests that do not overlap are in flight one at a time.
LEMMA OneAtATime ==
    ASSUME TypeOK, AfterAnswered, Sequential,
           NEW q \in Requests, NEW r \in Requests, q \in InFlight, r \in InFlight
    PROVE  q = r
  BY DEF TypeOK, AfterAnswered, Sequential, InFlight

LEMMA AgreementStep == IInv /\ [Next]_vars => Agreement'
<1> SUFFICES ASSUME IInv, [Next]_vars, Sequential', faults' = 0
             PROVE  /\ \A r \in Requests :
                          place'[r] = "stored" =>
                             cfg'[at'[r]] = r /\ (r \in upserts' \/ settings' = r)
                    /\ settings' \in Requests =>
                          \/ cfg'[at'[settings']] = settings'
                          \/ \E r \in Requests : place'[r] = "stored" /\ at'[r] = at'[settings']
  BY DEF Agreement
<1> USE ThresholdsAssumption DEF IInv, TypeOK, Settings, Goto, requestVars, agentVars
<1>1. ASSUME NEW r \in Requests, Bind(r) PROVE Agreement'
  <2>1. Sequential
    BY <1>1 DEF Bind, Sequential
  <2> QED BY <1>1, <2>1 DEF Bind, Agreement
<1>2. ASSUME NEW r \in Requests, StoreInMemory(r) PROVE Agreement'
  <2>1. Sequential
    BY <1>2 DEF StoreInMemory, Sequential
  <2>2. \A q \in Requests : place[q] = "stored" => q = r
    BY <1>2, <2>1, OneAtATime DEF StoreInMemory, InFlight
  <2> QED BY <1>2, <2>1, <2>2 DEF StoreInMemory, Agreement
<1>3. ASSUME NEW r \in Requests, Save(r) PROVE Agreement'
  <2>1. Sequential
    BY <1>3 DEF Save, Sequential
  <2> QED BY <1>3, <2>1 DEF Save, Agreement
<1>8. ASSUME NEW r \in Requests, Commit(r) PROVE Agreement'
  <2>1. Sequential /\ faults = 0
    BY <1>8 DEF Commit, Sequential
  <2>2. place[r] = "stored"
    BY <1>8, <2>1 DEF Commit, UpsertsAreOpen
  <2>3. \A q \in Requests : place[q] = "stored" => q = r
    BY <2>1, <2>2, OneAtATime DEF InFlight
  <2> QED BY <1>8, <2>1, <2>2, <2>3 DEF Commit, Agreement
<1>4. ASSUME NEW a \in Apis, Restart(a) PROVE Agreement'
  <2>1. Sequential
    BY <1>4 DEF Restart, Sequential
  <2> QED BY <1>4, <2>1 DEF Restart, Agreement, InFlight
<1>5. ASSUME NEW g \in Agents, Poll(g) PROVE Agreement'
  <2>1. Sequential
    BY <1>5 DEF Poll, Fetch, Apply, Sequential
  <2> QED BY <1>5, <2>1 DEF Poll, Fetch, Apply, Agreement
<1>6. CASE UNCHANGED vars
  BY <1>6 DEF vars, Agreement, Sequential
<1>7. ASSUME Fault PROVE FALSE
  BY <1>7 DEF Fault
<1> QED BY <1>1, <1>2, <1>3, <1>4, <1>5, <1>6, <1>7, <1>8
        DEF Next, Put, SaveFails, Crash, AgentRestart, Agreement

LEMMA Invariance == Spec => []IInv
<1>1. IInv /\ [Next]_vars => IInv'
  BY TypeStep, OrderStep, AgreementStep DEF IInv
<1> QED BY InvInit, <1>1, PTL DEF Spec

\* Table, memory, requests and agents hold settings only, for any number of
\* replicas and requests.
THEOREM ThresholdsTypes == Spec => []TypeOK
<1>1. IInv => TypeOK
  BY DEF IInv
<1> QED BY Invariance, <1>1, PTL

\* However PUT requests, crashes, failing saves and late commits interleave over
\* any number of replicas, the table never holds the setting of a saved PUT from
\* before another that was saved.
THEOREM SavedInOrder == Spec => []LaterSaveWins
<1>1. IInv => LaterSaveWins
  BY DEF IInv, LaterIsUncommitted, LaterSaveWins, Saved
<1> QED BY Invariance, <1>1, PTL

\* Memory and table of the replica that took the last PUT agree unless
\* requests overlap or something fails.
THEOREM MemoryAndTableAgree == Spec => []MemoryMatchesTable
<1>1. IInv => MemoryMatchesTable
  BY DEF IInv, Agreement, MemoryMatchesTable, InFlight
<1> QED BY Invariance, <1>1, PTL
=============================================================================
