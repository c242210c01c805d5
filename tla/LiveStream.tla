----------------------------- MODULE LiveStream -----------------------------
(***************************************************************************)
(* The live charts (cmd/api/sse.go): one connection of streamMetrics       *)
(* pushes the rows of a service, window by window, while the aggregator    *)
(* stores them.  A row is stamped by the agent that samples it and stored  *)
(* some time later; a window is cut by the time stamps, on the API's       *)
(* clock, which is taken to be the agents'.                                *)
(***************************************************************************)
EXTENDS Naturals, FiniteSets

CONSTANTS Rows,      \* metric rows of the service
          Span,      \* how far the snapshot looks back: 2 minutes
          Limit,     \* LIMIT 1000 of QueryMetrics
          MaxTime    \* bound on the clock

ASSUME LiveStreamAssumption == Span \in Nat /\ Limit \in Nat \ {0} /\ MaxTime \in Nat

VARIABLES
    clock,
    \* Each row: "new", "underway" from agent to database, or "stored"; its
    \* time stamp; how often the client was sent it.
    row, ts, pushed,
    \* The handler: where it is, since and now, and the end of its last window.
    pc, since, now, to,
    \* History: where the snapshot ended and where the updates began; rows that
    \* were not stored when they were sampled; rows that a query lost by failing
    \* or left out for its LIMIT.
    shown, opened, late, unlucky

rowVars == <<row, ts>>
handlerVars == <<pc, since, now, to, shown, opened>>
vars == <<clock, rowVars, pushed, handlerVars, late, unlucky>>

Time == 0..MaxTime
Never == MaxTime + 1

TypeOK == /\ clock \in Time
          /\ row \in [Rows -> {"new", "underway", "stored"}]
          /\ ts \in [Rows -> Time]
          /\ pushed \in [Rows -> Nat]
          /\ pc \in {"snapshot", "stamp", "wait", "update", "closed"}
          /\ since \in Time /\ now \in Time /\ to \in Time /\ shown \in Time
          /\ opened \in 0..Never
          /\ late \in SUBSET Rows
          /\ unlucky \in SUBSET Rows

\* The request comes in when the clock shows Span.
Init == /\ clock = IF Span < MaxTime THEN Span ELSE MaxTime
        /\ row = [r \in Rows |-> "new"]
        /\ ts = [r \in Rows |-> 0]
        /\ pushed = [r \in Rows |-> 0]
        /\ pc = "snapshot"
        /\ since = 0 /\ now = clock /\ to = 0
        /\ shown = 0 /\ opened = Never
        /\ late = {}
        /\ unlucky = {}

-----------------------------------------------------------------------------
(* The environment: time, agents, and the way of a row into the database   *)

Tick == /\ clock < MaxTime
        /\ clock' = clock + 1
        /\ late' = late \union {r \in Rows : row[r] = "underway"}
        /\ UNCHANGED <<rowVars, pushed, handlerVars, unlucky>>

Sampled(r) == /\ row[r] = "new"
              /\ row' = [row EXCEPT ![r] = "underway"]
              /\ ts' = [ts EXCEPT ![r] = clock]
              /\ UNCHANGED <<clock, pushed, handlerVars, late, unlucky>>

Stored(r) == /\ row[r] = "underway"
             /\ row' = [row EXCEPT ![r] = "stored"]
             /\ UNCHANGED <<clock, ts, pushed, handlerVars, late, unlucky>>

-----------------------------------------------------------------------------
(* QueryMetrics and pushMetrics                                            *)

\* Mutant: the bounds of the window are exclusive.
WindowExclusive(end) == {r \in Rows : row[r] = "stored" /\ since < ts[r] /\ ts[r] < end}

\* timestamp BETWEEN since AND end
Window(end) == {r \in Rows : row[r] = "stored" /\ since <= ts[r] /\ ts[r] <= end}

\* ORDER BY timestamp DESC LIMIT n
Newest(S, n) == {T \in SUBSET S :
                    /\ Cardinality(T) = IF Cardinality(S) < n THEN Cardinality(S) ELSE n
                    /\ \A t \in T, s \in S \ T : ts[s] <= ts[t]}

\* The end of the window is time.Now(), read after now and before the query.
\* The rows of the window are sent, or the query fails, which is only logged.
Push == \E end \in now..clock :
            /\ \/ \E sent \in Newest(Window(end), Limit) :
                     /\ pushed' = [r \in Rows |-> IF r \in sent THEN pushed[r] + 1 ELSE pushed[r]]
                     /\ unlucky' = unlucky \union (Window(end) \ sent)
               \/ /\ unlucky' = unlucky \union Window(end)
                  /\ UNCHANGED pushed
            /\ to' = end

-----------------------------------------------------------------------------
(* streamMetrics                                                           *)

\* pushMetrics(..., "snapshot") with since = now - 2 min, the start of time here
Snapshot == /\ pc = "snapshot"
            /\ Push
            /\ shown' = to'
            /\ pc' = "stamp"
            /\ UNCHANGED <<clock, rowVars, since, now, opened, late>>

\* since = time.Now().UTC(), after the snapshot, and the ticker is started.
Stamp == /\ pc = "stamp"
         /\ since' = clock
         /\ opened' = clock
         /\ pc' = "wait"
         /\ UNCHANGED <<clock, rowVars, pushed, now, to, shown, late, unlucky>>

\* <-ticker.C and now := time.Now().UTC(), later than the last window's end.
TickerFires == /\ pc = "wait" /\ clock > to
               /\ now' = clock
               /\ pc' = "update"
               /\ UNCHANGED <<clock, rowVars, pushed, since, to, shown, opened, late, unlucky>>

\* Mutant: every update starts where the first one did.
UpdateKeepsSince == /\ pc = "update"
                    /\ Push
                    /\ pc' = "wait"
                    /\ UNCHANGED <<clock, rowVars, since, now, shown, opened, late>>

\* pushMetrics(..., "update"); since = now
Update == /\ pc = "update"
          /\ Push
          /\ since' = now
          /\ pc' = "wait"
          /\ UNCHANGED <<clock, rowVars, now, shown, opened, late>>

\* <-ctx.Done()
Disconnect == /\ pc = "wait"
              /\ pc' = "closed"
              /\ UNCHANGED <<clock, rowVars, pushed, since, now, to, shown, opened, late, unlucky>>

Next == \/ Tick
        \/ \E r \in Rows : Sampled(r) \/ Stored(r)
        \/ Snapshot \/ Stamp \/ TickerFires \/ Update \/ Disconnect

Spec == Init /\ [][Next]_vars

-----------------------------------------------------------------------------
(* Properties *)

\* What neither the snapshot nor an update covers: since is read again after
\* the snapshot was sent (sse.go:37-38).
InTheGap(r) == shown <= ts[r] /\ ts[r] < opened

\* A row that the client was never sent, though the stream is past its time
\* stamp, was stored after it was sampled, fell to a failed query or the LIMIT,
\* or lies in the one gap there is, between the snapshot and the updates.  The
\* windows of the updates leave none, and the snapshot misses nothing before
\* its end.
MissedForAReason ==
    \A r \in Rows :
        (row[r] = "stored" /\ pushed[r] = 0 /\ ts[r] < since)
            => r \in late \union unlucky \/ InTheGap(r)

\* The overlap of the windows, from "now" to the end of the query, shows a row
\* twice and never more often.
SentAtMostTwice == \A r \in Rows : pushed[r] <= 2

\* The comment of streamMetrics (sse.go:14): "It pushes new metric batches via
\* Server-Sent Events every 3 seconds."  A row sampled since the client began to
\* be sent updates and stored now, though the stream has passed its time stamp and
\* no query failed, is one the client will never be sent.
NewRowsArePushed ==
    \A r \in Rows :
        (row[r] = "stored" /\ opened <= ts[r] /\ ts[r] < since /\ r \notin unlucky)
            => pushed[r] > 0
=============================================================================
