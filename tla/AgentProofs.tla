----------------------------- MODULE AgentProofs ----------------------------
(***************************************************************************)
(* Theorems about Agent, for any number of streams and outages.            *)
(***************************************************************************)
EXTENDS Agent, TLAPS

\* A failed send has a cause, which its report still has when it is alerted:
\* the collector was away, or the agent is stopping and alerts no one.
FailureHasCause ==
    /\ outages = 0 => collector # "away"
    /\ \A s \in Streams :
          \/ pc[s] = "failed"
          \/ pc[s] \in {"raise", "report"} /\ cause[s] = "send"
          => outages > 0 \/ cancelled

IInv == TypeOK /\ ErrorOncePerReset /\ FailureHasCause /\ NoFalseAlarm

\* The two summaries of a level stay levels.
LEMMA WorseLevel ==
    ASSUME NEW a \in Levels, NEW b \in Levels
    PROVE  Worse(a, b) \in Levels
  BY DEF Worse

LEMMA InvInit == Init => IInv
<1> SUFFICES ASSUME Init PROVE IInv
  OBVIOUS
<1>1. TypeOK
  <2>1. outages \in 0..MaxOutages
    BY AgentAssumption DEF Init
  <2>2. /\ pc \in [Streams -> Places]
        /\ level \in [Streams -> Levels]
        /\ cause \in [Streams -> {"send", "usage"}]
    BY DEF Init, Places, Levels
  <2>3. warnedHigh \in [Streams -> BOOLEAN]
    BY DEF Init
  <2>4. collector \in {"up", "away", "hung"} /\ cancelled \in BOOLEAN /\ alerted \in BOOLEAN
    BY DEF Init
  <2>5. /\ failCount \in 0..Limit + 1
        /\ intervalStatus \in Levels
        /\ beat \in {"start", "waiting", "span", "done"}
        /\ spanStatus \in Levels
        /\ errorLogs \in Nat
    BY DEF Init, Levels, Limit
  <2> QED BY <2>1, <2>2, <2>3, <2>4, <2>5 DEF TypeOK
<1>2. ErrorOncePerReset /\ FailureHasCause /\ NoFalseAlarm
  BY DEF Init, ErrorOncePerReset, FailureHasCause, NoFalseAlarm, Limit
<1> QED BY <1>1, <1>2 DEF IInv

\* Every step keeps the types.
LEMMA TypeStep == TypeOK /\ ErrorOncePerReset /\ [Next]_vars => TypeOK'
<1> SUFFICES ASSUME TypeOK, ErrorOncePerReset, [Next]_vars PROVE TypeOK'
  OBVIOUS
<1> MaxOutages \in Nat
  BY AgentAssumption
<1> USE DEF TypeOK, envVars, streamVars, beatVars, history
<1>1. ASSUME CollectorLost \/ CollectorHangs \/ CollectorBack \/ Cancel PROVE TypeOK'
  <2>1. outages' \in 0..MaxOutages
    BY <1>1, AgentAssumption DEF CollectorLost, CollectorHangs, CollectorBack, Cancel
  <2>2. collector' \in {"up", "away", "hung"} /\ cancelled' \in BOOLEAN
    BY <1>1 DEF CollectorLost, CollectorHangs, CollectorBack, Cancel
  <2>3. UNCHANGED <<failCount, intervalStatus, streamVars, beatVars, history>>
    BY <1>1 DEF CollectorLost, CollectorHangs, CollectorBack, Cancel
  <2> QED BY <2>1, <2>2, <2>3
<1>2. ASSUME NEW s \in Streams,
             Sample(s) \/ Exit(s) \/ SendOk(s) \/ SendFails(s) \/ Load(s) \/ Restore(s)
      PROVE  TypeOK'
  BY <1>2 DEF Sample, Exit, SendOk, SendFails, Load, Restore, Goto, Places
<1>3. ASSUME NEW s \in Streams, Count(s) PROVE TypeOK'
  <2>1. failCount' \in 0..Limit + 1 /\ errorLogs' \in Nat
    BY <1>3 DEF Count, Up, Limit
  <2>2. pc' \in [Streams -> Places]
    BY <1>3 DEF Count, Goto, Places
  <2>3. level' \in [Streams -> Levels] /\ cause' \in [Streams -> {"send", "usage"}]
    BY <1>3 DEF Count, SendLog, Levels
  <2> QED BY <1>3, <2>1, <2>2, <2>3 DEF Count
<1>4. ASSUME NEW s \in Streams, Reset(s) PROVE TypeOK'
  BY <1>4 DEF Reset, Goto, Places, Limit
<1>5. ASSUME NEW s \in Streams, Check(s) PROVE TypeOK'
  <2>1. pc' \in [Streams -> Places] /\ warnedHigh' \in [Streams -> BOOLEAN]
    BY <1>5 DEF Check, Goto, Places
  <2>2. level' \in [Streams -> Levels] /\ cause' \in [Streams -> {"send", "usage"}]
    BY <1>5 DEF Check, SendLog, Levels
  <2> QED BY <1>5, <2>1, <2>2 DEF Check
<1>6. ASSUME NEW s \in Streams, Raise(s) PROVE TypeOK'
  BY <1>6, WorseLevel DEF Raise, Goto, Places
<1>7. ASSUME NEW s \in Streams, Report(s) PROVE TypeOK'
  <2>1. alerted' \in BOOLEAN
    BY <1>7 DEF Report
  <2> QED BY <1>7, <2>1 DEF Report, Goto, Places
<1>8. ASSUME NEW s \in Streams, Logged(s) PROVE TypeOK'
  BY <1>8 DEF Logged, SendLog, Goto, Places, Levels
<1>9. ASSUME StreamLogs PROVE TypeOK'
  BY <1>9 DEF StreamLogs, Started, Heartbeat, SendSpan, LogsExit, Levels
<1>10. CASE UNCHANGED vars
  BY <1>10 DEF vars
<1> QED BY <1>1, <1>2, <1>3, <1>4, <1>5, <1>6, <1>7, <1>8, <1>9, <1>10 DEF Next, Stream

LEMMA InvStep == IInv /\ [Next]_vars => IInv'
<1> SUFFICES ASSUME IInv, [Next]_vars
             PROVE  ErrorOncePerReset' /\ FailureHasCause' /\ NoFalseAlarm'
  BY TypeStep DEF IInv
<1>t. /\ failCount \in 0..Limit + 1 /\ outages \in Nat
      /\ pc \in [Streams -> Places]
      /\ cause \in [Streams -> {"send", "usage"}]
      /\ level \in [Streams -> Levels]
  BY AgentAssumption DEF IInv, TypeOK
<1> USE DEF ErrorOncePerReset, FailureHasCause, NoFalseAlarm,
            envVars, streamVars, beatVars, history
<1>1. ASSUME CollectorLost \/ CollectorHangs \/ CollectorBack \/ Cancel
      PROVE  ErrorOncePerReset' /\ FailureHasCause' /\ NoFalseAlarm'
  BY <1>1, <1>t DEF CollectorLost, CollectorHangs, CollectorBack, Cancel, IInv
<1>2. ASSUME NEW s \in Streams,
             Sample(s) \/ Exit(s) \/ SendOk(s) \/ SendFails(s) \/ Load(s) \/ Restore(s)
      PROVE  ErrorOncePerReset' /\ FailureHasCause' /\ NoFalseAlarm'
  BY <1>2, <1>t DEF Sample, Exit, SendOk, SendFails, Load, Restore, Goto, IInv
<1>3. ASSUME NEW s \in Streams, Count(s)
      PROVE  ErrorOncePerReset' /\ FailureHasCause' /\ NoFalseAlarm'
  <2>1. ErrorOncePerReset'
    BY <1>3, <1>t DEF Count, Up, Limit, IInv
  <2>2. FailureHasCause'
    BY <1>3, <1>t DEF Count, Goto, SendLog, IInv
  <2>3. NoFalseAlarm'
    BY <1>3 DEF Count, IInv
  <2> QED BY <2>1, <2>2, <2>3
<1>4. ASSUME NEW s \in Streams, Reset(s)
      PROVE  ErrorOncePerReset' /\ FailureHasCause' /\ NoFalseAlarm'
  BY <1>4, <1>t DEF Reset, Goto, Limit, IInv
<1>5. ASSUME NEW s \in Streams, Check(s)
      PROVE  ErrorOncePerReset' /\ FailureHasCause' /\ NoFalseAlarm'
  <2>1. FailureHasCause'
    BY <1>5, <1>t DEF Check, Goto, SendLog, IInv
  <2> QED BY <1>5, <2>1 DEF Check, IInv
<1>6. ASSUME NEW s \in Streams, Raise(s)
      PROVE  ErrorOncePerReset' /\ FailureHasCause' /\ NoFalseAlarm'
  BY <1>6, <1>t DEF Raise, Goto, IInv
<1>7. ASSUME NEW s \in Streams, Report(s)
      PROVE  ErrorOncePerReset' /\ FailureHasCause' /\ NoFalseAlarm'
  <2>1. FailureHasCause'
    BY <1>7, <1>t DEF Report, Goto, IInv
  <2>2. NoFalseAlarm'
    BY <1>7, <1>t DEF Report, IInv
  <2> QED BY <1>7, <2>1, <2>2 DEF Report, IInv
<1>8. ASSUME NEW s \in Streams, Logged(s)
      PROVE  ErrorOncePerReset' /\ FailureHasCause' /\ NoFalseAlarm'
  BY <1>8, <1>t DEF Logged, Goto, SendLog, IInv
<1>9. ASSUME StreamLogs
      PROVE  ErrorOncePerReset' /\ FailureHasCause' /\ NoFalseAlarm'
  BY <1>9 DEF StreamLogs, Started, Heartbeat, SendSpan, LogsExit, IInv
<1>10. CASE UNCHANGED vars
  BY <1>10 DEF vars, IInv
<1> QED BY <1>1, <1>2, <1>3, <1>4, <1>5, <1>6, <1>7, <1>8, <1>9, <1>10 DEF Next, Stream

LEMMA Invariance == Spec => []IInv
  BY InvInit, InvStep, PTL DEF Spec

\* The counter, the status and the places of all goroutines stay what they
\* are meant to be, for any number of streams.
THEOREM AgentTypes == Spec => []TypeOK
<1>1. IInv => TypeOK
  BY DEF IInv
<1> QED BY Invariance, <1>1, PTL

\* However many goroutines count at once, "collector unreachable" is logged
\* once when the counter passes three and not again until it is reset.
THEOREM LoggedOnce == Spec => []ErrorOncePerReset
<1>1. IInv => ErrorOncePerReset
  BY DEF IInv
<1> QED BY Invariance, <1>1, PTL

\* No Telegram alert of failed sends goes out unless the collector was away:
\* the failures that stopping the agent causes alert no one.
THEOREM AlarmsAreTrue == Spec => []NoFalseAlarm
<1>1. IInv => NoFalseAlarm
  BY DEF IInv
<1> QED BY Invariance, <1>1, PTL

\* Raising a status never lowers it.
LEMMA WorseIsNoBetter ==
    ASSUME NEW a \in Levels, NEW b \in Levels
    PROVE  ~(Rank[Worse(a, b)] < Rank[a])
<1>1. Rank[a] \in Int /\ Rank[b] \in Int
  BY DEF Rank, Levels
<1> QED BY <1>1 DEF Worse

LEMMA StatusStep ==
    ASSUME TypeOK, [Next]_vars, Rank[intervalStatus'] < Rank[intervalStatus]
    PROVE  intervalStatus' = "ok" /\ spanStatus' = intervalStatus /\ beat' = "span"
<1> USE DEF envVars, streamVars, beatVars, history
<1>1. intervalStatus' # intervalStatus
  <2>1. Rank[intervalStatus] \in Int
    BY DEF TypeOK, Rank, Levels
  <2> QED BY <2>1
<1>2. CASE Heartbeat
  BY <1>2 DEF Heartbeat
<1>3. ASSUME NEW s \in Streams, Raise(s) PROVE FALSE
  BY <1>3, WorseIsNoBetter DEF Raise, TypeOK
<1>4. ASSUME NEW s \in Streams, Stream(s), ~Raise(s) PROVE FALSE
  BY <1>1, <1>4 DEF Stream, Sample, Exit, SendOk, SendFails, Count, Load, Restore,
                   Reset, Check, Report, Logged
<1>5. CASE CollectorLost \/ CollectorHangs \/ CollectorBack \/ Cancel \/ Started \/ SendSpan \/ LogsExit \/ UNCHANGED vars
  BY <1>1, <1>5 DEF CollectorLost, CollectorHangs, CollectorBack, Cancel, Started, SendSpan, LogsExit, vars
<1> QED BY <1>2, <1>3, <1>4, <1>5 DEF Next, StreamLogs

\* No warning or error of an interval is lost between two goroutines: the
\* status is only ever lowered by the heartbeat that takes it into its span.
THEOREM StatusGoesIntoSpan == Spec => StatusOnlyPopped
<1>1. IInv /\ [Next]_vars =>
        [Rank[intervalStatus'] < Rank[intervalStatus]
            => intervalStatus' = "ok" /\ spanStatus' = intervalStatus /\ beat' = "span"]_vars
  BY StatusStep DEF IInv
<1> QED BY <1>1, Invariance, PTL DEF Spec, StatusOnlyPopped
=============================================================================
