------------------------------- MODULE Agent --------------------------------
(***************************************************************************)
(* The agent (cmd/agent): one goroutine per metric group samples, sends a  *)
(* batch to the collector and checks its threshold; one more sends a       *)
(* heartbeat log and span.  They share failCount, an atomic counter of     *)
(* failed sends, and intervalStatus, the worst level of the interval,      *)
(* behind a mutex.  Each step below is what a goroutine does between two   *)
(* accesses to what is shared, or one remote call.                         *)
(***************************************************************************)
EXTENDS Integers, FiniteSets

CONSTANTS Streams,     \* streamCPU, streamMemory, streamDisk, streamNetwork
          Watched,     \* those that compare a usage with a threshold
          MaxOutages   \* bound on how often the collector goes away

ASSUME AgentAssumption == Watched \subseteq Streams /\ MaxOutages \in Nat

Limit == 3   \* failures after which the collector counts as unreachable

VARIABLES
    \* The environment.
    collector,       \* answers, refuses every call, or accepts and keeps silent
    outages,         \* how often it has gone away
    cancelled,       \* the context of the agent is cancelled
    \* Shared by the goroutines.
    failCount,       \* counted up to Limit + 1: more makes no difference
    intervalStatus,
    \* The goroutines.
    pc,              \* where a stream is in send, sendLog and its loop
    level,           \* level of the log entry a stream is sending
    cause,           \* "send" if it reports a failed send, else "usage"
    warnedHigh,      \* a stream has reported its threshold as exceeded
    beat,            \* where streamLogs is
    spanStatus,      \* the status streamLogs has popped for its span
    \* History.
    errorLogs,       \* "collector unreachable" entries since the last reset
    alerted          \* a Telegram alert of a failed send was delivered

envVars == <<collector, outages, cancelled>>
streamVars == <<pc, level, cause, warnedHigh>>
beatVars == <<beat, spanStatus>>
history == <<errorLogs, alerted>>
vars == <<envVars, failCount, intervalStatus, streamVars, beatVars, history>>

Levels == {"ok", "warn", "error"}
Rank == [l \in Levels |-> CASE l = "ok" -> 0 [] l = "warn" -> 1 [] l = "error" -> 2]
Worse(a, b) == IF Rank[a] < Rank[b] THEN b ELSE a
Up(n) == IF n > Limit THEN n ELSE n + 1

Places == {"idle", "sending", "failed", "raise", "report", "log",
           "succeeded", "restore", "reset", "check", "done"}

TypeOK == /\ collector \in {"up", "away", "hung"}
          /\ outages \in 0..MaxOutages
          /\ cancelled \in BOOLEAN
          /\ failCount \in 0..Limit + 1
          /\ intervalStatus \in Levels
          /\ pc \in [Streams -> Places]
          /\ level \in [Streams -> Levels]
          /\ cause \in [Streams -> {"send", "usage"}]
          /\ warnedHigh \in [Streams -> BOOLEAN]
          /\ beat \in {"start", "waiting", "span", "done"}
          /\ spanStatus \in Levels
          /\ errorLogs \in Nat
          /\ alerted \in BOOLEAN

Init == /\ collector = "up"
        /\ outages = 0
        /\ cancelled = FALSE
        /\ failCount = 0
        /\ intervalStatus = "ok"
        /\ pc = [s \in Streams |-> "idle"]
        /\ level = [s \in Streams |-> "ok"]
        /\ cause = [s \in Streams |-> "send"]
        /\ warnedHigh = [s \in Streams |-> FALSE]
        /\ beat = "start"
        /\ spanStatus = "ok"
        /\ errorLogs = 0
        /\ alerted = FALSE

-----------------------------------------------------------------------------
(* The environment *)

\* The collector is gone, or answers with errors.
CollectorLost == /\ collector # "away"
                 /\ outages < MaxOutages
                 /\ collector' = "away"
                 /\ outages' = outages + 1
                 /\ UNCHANGED <<cancelled, failCount, intervalStatus,
                                streamVars, beatVars, history>>

\* It accepts and does not answer, which a call without a deadline cannot tell.
CollectorHangs == /\ collector # "hung"
                  /\ collector' = "hung"
                  /\ UNCHANGED <<outages, cancelled, failCount, intervalStatus,
                                 streamVars, beatVars, history>>

CollectorBack == /\ collector # "up"
                 /\ collector' = "up"
                 /\ UNCHANGED <<outages, cancelled, failCount, intervalStatus,
                                streamVars, beatVars, history>>

\* SIGTERM or Ctrl-C: signal.NotifyContext cancels the context.
Cancel == /\ ~cancelled
          /\ cancelled' = TRUE
          /\ UNCHANGED <<collector, outages, failCount, intervalStatus,
                         streamVars, beatVars, history>>

\* Mutant: the calls are made with context.Background().
ReturnsUncancelled == collector # "hung"

\* A call to the collector returns: answered, refused or cancelled.  The
\* contexts of all but the farewell log have no deadline.
Returns == collector # "hung" \/ cancelled

-----------------------------------------------------------------------------
(* A stream.  The check of a threshold follows a send in streamCPU and     *)
(* streamMemory and precedes it in streamDisk; in a loop it is the same.   *)

Goto(s, place) == pc' = [pc EXCEPT ![s] = place]
SendLog(s, l, why) == /\ level' = [level EXCEPT ![s] = l]
                      /\ cause' = [cause EXCEPT ![s] = why]

\* The loop: a batch is sampled and sendBatchTraced called.  When its timer and
\* ctx.Done are ready at once, select may choose either.
Sample(s) == /\ pc[s] = "idle"
             /\ Goto(s, "sending")
             /\ UNCHANGED <<envVars, failCount, intervalStatus, level, cause,
                            warnedHigh, beatVars, history>>

Exit(s) == /\ pc[s] = "idle" /\ cancelled
           /\ Goto(s, "done")
           /\ UNCHANGED <<envVars, failCount, intervalStatus, level, cause,
                          warnedHigh, beatVars, history>>

SendOk(s) == /\ pc[s] = "sending" /\ collector = "up"
             /\ Goto(s, "succeeded")
             /\ UNCHANGED <<envVars, failCount, intervalStatus, level, cause,
                            warnedHigh, beatVars, history>>

SendFails(s) == /\ pc[s] = "sending" /\ (collector = "away" \/ cancelled)
                /\ Goto(s, "failed")
                /\ UNCHANGED <<envVars, failCount, intervalStatus, level, cause,
                               warnedHigh, beatVars, history>>

\* Mutant: "fc >= 3" where the code has "fc == 3".
CountSpams(s) ==
    LET fc == Up(failCount) IN
    /\ pc[s] = "failed"
    /\ failCount' = fc
    /\ Goto(s, "raise")
    /\ SendLog(s, IF fc >= Limit THEN "error" ELSE "warn", "send")
    /\ errorLogs' = IF fc >= Limit /\ errorLogs < 2 THEN errorLogs + 1 ELSE errorLogs
    /\ UNCHANGED <<envVars, intervalStatus, warnedHigh, beatVars,
                   alerted>>

\* Mutant: failCount.Store(1).
CountStores(s) ==
    /\ pc[s] = "failed"
    /\ failCount' = 1
    /\ Goto(s, "raise")
    /\ SendLog(s, "warn", "send")
    /\ UNCHANGED <<envVars, intervalStatus, warnedHigh, beatVars, history>>

\* fc := failCount.Add(1): a warning, the error at the third, then silence.
Count(s) ==
    LET fc == Up(failCount) IN
    /\ pc[s] = "failed"
    /\ failCount' = fc
    /\ IF fc > Limit
       THEN Goto(s, "check") /\ UNCHANGED <<level, cause>>
       ELSE Goto(s, "raise") /\ SendLog(s, IF fc = Limit THEN "error" ELSE "warn", "send")
    /\ errorLogs' = IF fc = Limit THEN errorLogs + 1 ELSE errorLogs
    /\ UNCHANGED <<envVars, intervalStatus, warnedHigh, beatVars,
                   alerted>>

\* fc := failCount.Load()
Load(s) == /\ pc[s] = "succeeded"
           /\ Goto(s, IF failCount >= Limit THEN "restore" ELSE "reset")
           /\ UNCHANGED <<envVars, failCount, intervalStatus, level, cause,
                          warnedHigh, beatVars, history>>

\* The "connectivity restored" entry: a remote call whose error is ignored.
Restore(s) == /\ pc[s] = "restore" /\ Returns
              /\ Goto(s, "reset")
              /\ UNCHANGED <<envVars, failCount, intervalStatus, level, cause,
                             warnedHigh, beatVars, history>>

\* Mutant: only the "connectivity restored" branch resets the counter.
ResetIfRestored(s) ==
    /\ pc[s] = "reset"
    /\ failCount' = IF failCount >= Limit THEN 0 ELSE failCount
    /\ errorLogs' = 0
    /\ Goto(s, "check")
    /\ UNCHANGED <<envVars, intervalStatus, level, cause, warnedHigh,
                   beatVars, alerted>>

\* Mutant: failCount.Add(-1).
ResetDecrements(s) ==
    /\ pc[s] = "reset"
    /\ failCount' = failCount - 1
    /\ errorLogs' = 0
    /\ Goto(s, "check")
    /\ UNCHANGED <<envVars, intervalStatus, level, cause, warnedHigh,
                   beatVars, alerted>>

\* failCount.Store(0)
Reset(s) == /\ pc[s] = "reset"
            /\ failCount' = 0
            /\ errorLogs' = 0
            /\ Goto(s, "check")
            /\ UNCHANGED <<envVars, intervalStatus, level, cause, warnedHigh,
                           beatVars, alerted>>

\* usage >= threshold is reported once, until the usage is below it again.
Check(s) ==
    /\ pc[s] = "check"
    /\ \/ /\ s \in Watched /\ ~warnedHigh[s]
          /\ warnedHigh' = [warnedHigh EXCEPT ![s] = TRUE]
          /\ SendLog(s, "warn", "usage")
          /\ Goto(s, "raise")
       \/ /\ \/ UNCHANGED warnedHigh
             \/ warnedHigh' = [warnedHigh EXCEPT ![s] = FALSE]
          /\ Goto(s, "idle")
          /\ UNCHANGED <<level, cause>>
    /\ UNCHANGED <<envVars, failCount, intervalStatus, beatVars, history>>

\* Mutant: the last level wins.
RaiseLast(s) == /\ pc[s] = "raise"
                /\ intervalStatus' = level[s]
                /\ Goto(s, "report")
                /\ UNCHANGED <<envVars, failCount, level, cause, warnedHigh,
                               beatVars, history>>

\* raiseStatus, the first thing sendLog does with a warning or an error.
Raise(s) == /\ pc[s] = "raise"
            /\ intervalStatus' = Worse(intervalStatus, level[s])
            /\ Goto(s, "report")
            /\ UNCHANGED <<envVars, failCount, level, cause, warnedHigh,
                           beatVars, history>>

\* Mutant: the request to Telegram is made with context.Background().
ReportAnyway(s) == /\ pc[s] = "report"
                   /\ alerted' = (alerted \/ cause[s] = "send")
                   /\ Goto(s, "log")
                   /\ UNCHANGED <<envVars, failCount, intervalStatus, level, cause,
                                  warnedHigh, beatVars, errorLogs>>

\* alert.send makes one attempt, of 5 s at most, which a cancelled context fails.
Report(s) == /\ pc[s] = "report"
             /\ \/ ~cancelled /\ alerted' = (alerted \/ cause[s] = "send")
                \/ UNCHANGED alerted
             /\ Goto(s, "log")
             /\ UNCHANGED <<envVars, failCount, intervalStatus, level, cause,
                            warnedHigh, beatVars, errorLogs>>

\* client.sendLog makes one, whose error is only logged locally, and the
\* goroutine goes on with its loop.
Logged(s) == /\ pc[s] = "log" /\ Returns
             /\ Goto(s, IF cause[s] = "send" THEN "check" ELSE "idle")
             /\ SendLog(s, "ok", "send")
             /\ UNCHANGED <<envVars, failCount, intervalStatus, warnedHigh,
                            beatVars, history>>

Stream(s) == \/ Sample(s) \/ Exit(s) \/ SendOk(s) \/ SendFails(s) \/ Count(s)
             \/ Load(s) \/ Restore(s) \/ Reset(s) \/ Check(s) \/ Raise(s)
             \/ Report(s) \/ Logged(s)

-----------------------------------------------------------------------------
(* streamLogs *)

\* The "agent started" log is sent before the first tick.
Started == /\ beat = "start" /\ Returns
           /\ beat' = "waiting"
           /\ UNCHANGED <<envVars, failCount, intervalStatus, streamVars,
                          spanStatus, history>>

\* Every 60 s: popStatus.
Heartbeat == /\ beat = "waiting"
             /\ spanStatus' = intervalStatus
             /\ intervalStatus' = "ok"
             /\ beat' = "span"
             /\ UNCHANGED <<envVars, failCount, streamVars, history>>

\* The heartbeat log and the span reach the collector, or an error is logged
\* and they are gone.
SendSpan == /\ beat = "span" /\ Returns
            /\ spanStatus' = "ok"
            /\ beat' = "waiting"
            /\ UNCHANGED <<envVars, failCount, intervalStatus, streamVars, history>>

\* ctx.Done: the farewell log, with 3 s of its own, and no span.
LogsExit == /\ beat = "waiting" /\ cancelled
            /\ beat' = "done"
            /\ UNCHANGED <<envVars, failCount, intervalStatus, streamVars,
                           spanStatus, history>>

StreamLogs == Started \/ Heartbeat \/ SendSpan \/ LogsExit

Next == \/ CollectorLost \/ CollectorHangs \/ CollectorBack \/ Cancel
        \/ \E s \in Streams : Stream(s)
        \/ StreamLogs

Spec == Init /\ [][Next]_vars

\* Goroutines run, timers fire and calls that may return do.  Nothing makes the
\* collector come back or end its silence, or anyone stop the agent.  A select
\* chooses among what is ready, and will not pass over ctx.Done for ever.
Fairness == /\ \A s \in Streams : WF_vars(Stream(s)) /\ SF_vars(Exit(s))
            /\ WF_vars(StreamLogs) /\ SF_vars(LogsExit)

FairSpec == Spec /\ Fairness

-----------------------------------------------------------------------------
(* Properties *)

\* "already logged the error, don't spam": whatever the interleaving of four
\* goroutines, the error is logged exactly once for a counter that passed
\* three, and not again before a reset.
ErrorOncePerReset == errorLogs = IF failCount >= Limit THEN 1 ELSE 0

\* Stopping the agent cancels the sends under way, which count as failures;
\* still no alert says so: an alert is about a collector that was away, not
\* about one that was slow.
NoFalseAlarm == alerted => outages > 0

\* Only the heartbeat lowers the status of the interval, and it takes all of
\* it into its span.
StatusOnlyPopped ==
    [][Rank[intervalStatus'] < Rank[intervalStatus]
          => intervalStatus' = "ok" /\ spanStatus' = intervalStatus /\ beat' = "span"]_vars

\* A collector that is away for good is noticed, and stays noticed, whatever
\* successes were still being handled when it went.  One that hangs is not: the
\* streams wait in their calls.
OutageNoticed == <>[](collector = "away" /\ ~cancelled) => <>[](failCount >= Limit)

\* Once the collector stays up, after whatever silence, the counter settles at
\* zero: the next outage is reported anew.
RecoveryNoticed == <>[](collector = "up" /\ ~cancelled) => <>[](failCount = 0)

\* Run returns after the context is cancelled, even if the collector keeps the
\* streams in their calls.
AgentStops == cancelled ~> beat = "done" /\ \A s \in Streams : pc[s] = "done"
=============================================================================
