----------------------------- MODULE Thresholds -----------------------------
(***************************************************************************)
(* The alert thresholds (cmd/api/thresholds.go, cmd/agent/                 *)
(* config_poller.go).  Every API replica keeps them in memory, behind a    *)
(* lock, and in one row of the settings table, which it reads only when it *)
(* starts; agents poll some replica.  A setting is identified with the PUT *)
(* request that asked for it.  A request that does not validate changes    *)
(* nothing and is left out; what validates passes the > 0 tests of         *)
(* newThresholdStore and of pollConfig.                                    *)
(***************************************************************************)
EXTENDS Naturals

CONSTANTS Apis,        \* replicas of the API
          Agents,
          Requests,    \* PUT requests, each for a setting of its own
          Default,     \* what the code, and the migration, start from
          MaxFaults    \* bound on crashes and failed saves

ASSUME ThresholdsAssumption == Default \notin Requests /\ MaxFaults \in Nat

VARIABLES
    cfg,       \* thresholdStore.cfg of a replica
    settings,  \* the row 'thresholds' of the settings table
    upserts,   \* the PUTs whose upsert PostgreSQL may still commit
    \* Each PUT: where its handler is, and the replica it runs at.
    place, at,
    \* Each agent: the setting it uses, and the response its poller is reading.
    used, answer,
    \* History: crashes and failed saves; the requests that came in after a
    \* request was answered.
    faults, after

requestVars == <<place, at>>
agentVars == <<used, answer>>
vars == <<cfg, settings, upserts, requestVars, agentVars, faults, after>>

Settings == Requests \union {Default}
Waiting == "waiting"

ASSUME WaitingAssumption == Waiting \notin Settings

InFlight == {r \in Requests : place[r] \in {"bound", "stored"}}
Saved == {r \in Requests : place[r] = "saved"}

TypeOK == /\ cfg \in [Apis -> Settings]
          /\ settings \in Settings
          /\ upserts \subseteq Requests
          /\ place \in [Requests -> {"new", "bound", "stored", "saved", "failed"}]
          /\ at \in [Requests -> Apis]
          /\ used \in [Agents -> Settings]
          /\ answer \in [Agents -> Settings \union {Waiting}]
          /\ faults \in 0..MaxFaults
          /\ after \in [Requests -> SUBSET Requests]

Init == /\ cfg = [a \in Apis |-> Default]
        /\ settings = Default
        /\ upserts = {}
        /\ place = [r \in Requests |-> "new"]
        /\ at \in [Requests -> Apis]
        /\ used = [g \in Agents |-> Default]
        /\ answer = [g \in Agents |-> Waiting]
        /\ faults = 0
        /\ after = [r \in Requests |-> {}]

Goto(r, p) == place' = [place EXCEPT ![r] = p]
Fault == faults < MaxFaults /\ faults' = faults + 1

-----------------------------------------------------------------------------
(* PUT /api/v1/config/thresholds: handleSet.  Each request has a goroutine *)
(* of its own; the lock is held for the assignment only.                   *)

Bind(r) == /\ place[r] = "new"
           /\ Goto(r, "bound")
           /\ after' = [q \in Requests |->
                          IF place[q] \in {"saved", "failed"} THEN after[q] \union {r}
                                                              ELSE after[q]]
           /\ UNCHANGED <<cfg, settings, upserts, at, agentVars, faults>>

\* The assignment, and the call of SaveSettings.
StoreInMemory(r) == /\ place[r] = "bound"
                    /\ cfg' = [cfg EXCEPT ![at[r]] = r]
                    /\ upserts' = upserts \union {r}
                    /\ Goto(r, "stored")
                    /\ UNCHANGED <<settings, at, agentVars, faults, after>>

\* Mutant: ON CONFLICT (key) DO NOTHING, as the migration has it.
CommitOnce(r) == /\ r \in upserts
                 /\ upserts' = upserts \ {r}
                 /\ settings' = IF settings = Default THEN r ELSE settings
                 /\ UNCHANGED <<cfg, requestVars, agentVars, faults, after>>

\* PostgreSQL commits an upsert, while its handler waits or, when that was
\* cancelled or killed, at any time later, or never.
Commit(r) == /\ r \in upserts
             /\ upserts' = upserts \ {r}
             /\ settings' = r
             /\ UNCHANGED <<cfg, requestVars, agentVars, faults, after>>

\* SaveSettings succeeds, and the request is answered with 200.
Save(r) == /\ place[r] = "stored" /\ r \notin upserts
           /\ Goto(r, "saved")
           /\ UNCHANGED <<cfg, settings, upserts, at, agentVars, faults, after>>

\* SaveSettings returns an error (the request's context is cancelled, the
\* connection breaks), whatever becomes of the upsert.  The error is logged and
\* the request answered with 200 all the same.
SaveFails(r) == /\ place[r] = "stored" /\ Fault
                /\ Goto(r, "failed")
                /\ UNCHANGED <<cfg, settings, upserts, at, agentVars, after>>

-----------------------------------------------------------------------------
(* A replica stops and newThresholdStore starts from the settings table.   *)

\* Mutant: the store starts from the defaults of the code.
RestartWithDefaults(a) ==
    /\ \A r \in InFlight : at[r] # a
    /\ cfg' = [cfg EXCEPT ![a] = Default]
    /\ UNCHANGED <<settings, upserts, requestVars, agentVars, faults, after>>

\* Shutdown waits for the handlers.
Restart(a) == /\ \A r \in InFlight : at[r] # a
              /\ cfg' = [cfg EXCEPT ![a] = settings]
              /\ UNCHANGED <<settings, upserts, requestVars, agentVars, faults, after>>

\* A crash does not: an upsert under way is left to the server.  An error of
\* the read leaves the defaults.
Crash(a) == LET dead == {r \in InFlight : at[r] = a}
            IN  /\ Fault
                /\ \E read \in {settings, Default} : cfg' = [cfg EXCEPT ![a] = read]
                /\ place' = [r \in Requests |-> IF r \in dead THEN "failed" ELSE place[r]]
                /\ UNCHANGED <<settings, upserts, at, agentVars, after>>

-----------------------------------------------------------------------------
(* pollConfig.  A poll that fails changes nothing.                         *)

\* GET /api/v1/config/thresholds, answered by one of the replicas.
Fetch(g) == /\ answer[g] = Waiting
            /\ \E a \in Apis : answer' = [answer EXCEPT ![g] = cfg[a]]
            /\ UNCHANGED <<cfg, settings, upserts, requestVars, used, faults, after>>

\* Mutant: what a failed poll leaves in the response is applied all the same.
ApplyUnread(g) == /\ used' = [used EXCEPT ![g] = answer[g]]
                  /\ answer' = [answer EXCEPT ![g] = Waiting]
                  /\ UNCHANGED <<cfg, settings, upserts, requestVars, faults, after>>

\* Mutant: only the first setting that is not the default is taken over.
ApplyOnce(g) == /\ answer[g] # Waiting
                /\ used' = IF used[g] = Default THEN [used EXCEPT ![g] = answer[g]] ELSE used
                /\ answer' = [answer EXCEPT ![g] = Waiting]
                /\ UNCHANGED <<cfg, settings, upserts, requestVars, faults, after>>

Apply(g) == /\ answer[g] # Waiting
            /\ used' = [used EXCEPT ![g] = answer[g]]
            /\ answer' = [answer EXCEPT ![g] = Waiting]
            /\ UNCHANGED <<cfg, settings, upserts, requestVars, faults, after>>

\* The agent is started again, with newThresholds.
AgentRestart(g) == /\ Fault
                   /\ used' = [used EXCEPT ![g] = Default]
                   /\ answer' = [answer EXCEPT ![g] = Waiting]
                   /\ UNCHANGED <<cfg, settings, upserts, requestVars, after>>

Put(r) == Bind(r) \/ StoreInMemory(r) \/ Commit(r) \/ Save(r) \/ SaveFails(r)
Poll(g) == Fetch(g) \/ Apply(g)

Next == \/ \E r \in Requests : Put(r)
        \/ \E a \in Apis : Restart(a) \/ Crash(a)
        \/ \E g \in Agents : Poll(g) \/ AgentRestart(g)

Spec == Init /\ [][Next]_vars

\* An agent polls every 30 s.  Which replica answers is not up to the agent.
Fairness == \A g \in Agents : WF_vars(Poll(g))

FairSpec == Spec /\ Fairness

-----------------------------------------------------------------------------
(* Properties *)

\* The upsert keeps the order of PUTs that were saved one after the other,
\* through whichever replicas they went and whatever failed in between.  What
\* can take the row back to an older setting is a PUT whose save failed or was
\* killed, and which commits after all.
LaterSaveWins == settings \in Saved => after[settings] \cap Saved = {}

\* No two requests were in flight at once.
Sequential ==
    \A q, r \in Requests : \/ place[q] = "new" \/ place[r] = "new" \/ q = r
                           \/ q \in after[r] \/ r \in after[q]

\* As long as no requests overlap and nothing fails, the replica that took the
\* last PUT serves what the table holds once it has answered: memory and table
\* are written apart, and a restart changes neither.
MemoryMatchesTable ==
    (Sequential /\ faults = 0 /\ InFlight = {} /\ settings \in Requests)
        => cfg[at[settings]] = settings

\* Once every replica serves the same setting, every agent comes to use it,
\* whatever answer it was still reading.
AgentsFollow ==
    \A s \in Settings, g \in Agents :
        <>[](\A a \in Apis : cfg[a] = s) => <>[](used[g] = s)

\* thresholds.go:15 says of thresholdStore "Persisted in the settings table so
\* values survive API restarts".  Two requests that overlap at one replica can
\* reach memory in one order and the table in the other.
ValuesSurviveRestarts ==
    [][\A a \in Apis : Restart(a) => cfg'[a] = cfg[a]]_vars

\* The settings page of the dashboard promises that agents apply a change
\* within a minute (static/index.html:504).  The replicas that did not take
\* the PUT never read the row again, and an agent may well poll one of those.
ChangeReachesAgents ==
    \A r \in Requests, g \in Agents : <>[](settings = r) => <>[](used[g] = r)
=============================================================================
