----------------------------- MODULE PartsProofs ----------------------------
(***************************************************************************)
(* Theorems about the parts that MCParts puts side by side: LiveStream,    *)
(* NetRates, RateLimiter, Trace and ServerList, each for any value of its  *)
(* constants, and about all of them together.                              *)
(***************************************************************************)
EXTENDS MCParts, FiniteSetTheorems, WellFoundedInduction, TLAPS

-----------------------------------------------------------------------------
(* LiveStream *)

\* now is read before the query, to at its end, and nothing ahead of the clock.
Clocks == /\ since <= clock /\ now <= clock /\ to <= clock /\ shown <= clock
          /\ pc \in {"snapshot", "stamp"} => since = 0 /\ opened = Never
          /\ pc = "update" => since <= now /\ to < now
          /\ \A r \in Rows : row[r] # "new" => ts[r] <= clock

\* A row on its way is late unless it was sampled this very moment.
LateIfWaiting == \A r \in Rows : row[r] = "underway" => ts[r] = clock \/ r \in late

\* A stored row that no window has taken, and nothing has excused, is not in
\* the snapshot, and is in the gap after it or ahead of the stream.
NotYetPassed ==
    \A r \in Rows :
        (row[r] = "stored" /\ pushed[r] = 0 /\ r \notin late \union unlucky)
            => shown <= ts[r] /\ (ts[r] < opened \/ since <= ts[r])

\* A row that was sent belongs to a window that is over; one that was sent
\* twice is behind the stream.
SentRowsPassed ==
    \A r \in Rows :
        /\ pushed[r] > 0 => row[r] = "stored" /\ ts[r] <= to
        /\ pushed[r] <= 2
        /\ pc = "snapshot" => pushed[r] = 0
        /\ pc = "stamp" => pushed[r] <= 1
        /\ pc # "stamp" /\ pushed[r] = 2 => ts[r] < since

StreamIInv == TypeOK /\ Clocks /\ LateIfWaiting /\ NotYetPassed /\ SentRowsPassed

LEMMA StreamInvInit == Init => StreamIInv
<1> SUFFICES ASSUME Init PROVE StreamIInv
  OBVIOUS
<1> USE LiveStreamAssumption DEF Init, Time, Never
<1>1. TypeOK
  BY DEF TypeOK
<1>2. Clocks
  BY DEF Clocks
<1>3. LateIfWaiting /\ NotYetPassed /\ SentRowsPassed
  BY DEF LateIfWaiting, NotYetPassed, SentRowsPassed
<1> QED BY <1>1, <1>2, <1>3 DEF StreamIInv

\* What a query does, whether it succeeds or fails: each row of the window is
\* sent once more or excused, and no other row is touched.
LEMMA PushEffect ==
    ASSUME TypeOK, Push
    PROVE  /\ to' \in now..clock
           /\ pushed' \in [Rows -> Nat]
           /\ unlucky' \in SUBSET Rows /\ unlucky \subseteq unlucky'
           /\ \A r \in Rows :
                  \/ pushed'[r] = pushed[r] /\ (r \in Window(to') => r \in unlucky')
                  \/ pushed'[r] = pushed[r] + 1 /\ r \in Window(to')
<1> USE DEF TypeOK
<1>1. PICK end \in now..clock :
          /\ \/ \E sent \in Newest(Window(end), Limit) :
                   /\ pushed' = [r \in Rows |-> IF r \in sent THEN pushed[r] + 1 ELSE pushed[r]]
                   /\ unlucky' = unlucky \union (Window(end) \ sent)
             \/ unlucky' = unlucky \union Window(end) /\ UNCHANGED pushed
          /\ to' = end
  BY DEF Push
<1>2. Window(end) \in SUBSET Rows
  BY DEF Window
<1>3. CASE \E sent \in Newest(Window(end), Limit) :
              /\ pushed' = [r \in Rows |-> IF r \in sent THEN pushed[r] + 1 ELSE pushed[r]]
              /\ unlucky' = unlucky \union (Window(end) \ sent)
  <2>1. PICK sent \in SUBSET Window(end) :
              /\ pushed' = [r \in Rows |-> IF r \in sent THEN pushed[r] + 1 ELSE pushed[r]]
              /\ unlucky' = unlucky \union (Window(end) \ sent)
    BY <1>3 DEF Newest
  <2> QED BY <1>1, <1>2, <2>1
<1>4. CASE unlucky' = unlucky \union Window(end) /\ UNCHANGED pushed
  BY <1>1, <1>2, <1>4
<1> QED BY <1>1, <1>3, <1>4

\* Times are natural numbers, which is all that comparing them needs.
LEMMA TimesAreNumbers ==
    ASSUME TypeOK
    PROVE  /\ clock \in Nat /\ since \in Nat /\ now \in Nat /\ to \in Nat
           /\ shown \in Nat /\ opened \in Nat /\ ts \in [Rows -> Nat] /\ pushed \in [Rows -> Nat]
           /\ row \in [Rows -> {"new", "underway", "stored"}]
  BY LiveStreamAssumption DEF TypeOK, Time, Never

\* Every step keeps the types.
LEMMA StreamTypeStep == TypeOK /\ [Next]_vars => TypeOK'
<1> SUFFICES ASSUME TypeOK, [Next]_vars PROVE TypeOK'
  OBVIOUS
<1> USE LiveStreamAssumption DEF TypeOK, Time, Never, rowVars, handlerVars
<1>1. CASE Tick
  <2>1. clock' \in Time
    BY <1>1 DEF Tick
  <2>2. late' \in SUBSET Rows
    BY <1>1 DEF Tick
  <2>3. UNCHANGED <<rowVars, pushed, handlerVars, unlucky>>
    BY <1>1 DEF Tick
  <2> QED BY <2>1, <2>2, <2>3
<1>2. ASSUME NEW r \in Rows, Sampled(r) PROVE TypeOK'
  BY <1>2 DEF Sampled
<1>3. ASSUME NEW r \in Rows, Stored(r) PROVE TypeOK'
  BY <1>3 DEF Stored
<1>4. CASE Snapshot
  BY <1>4, PushEffect DEF Snapshot
<1>5. CASE Stamp
  <2>1. since' \in Time /\ opened' \in 0..Never
    BY <1>5 DEF Stamp
  <2>2. pc' = "wait" /\ UNCHANGED <<clock, rowVars, pushed, now, to, shown, late, unlucky>>
    BY <1>5 DEF Stamp
  <2> QED BY <2>1, <2>2
<1>6. CASE TickerFires
  BY <1>6 DEF TickerFires
<1>7. CASE Update
  BY <1>7, PushEffect DEF Update
<1>8. CASE Disconnect
  BY <1>8 DEF Disconnect
<1>9. CASE UNCHANGED vars
  BY <1>9 DEF vars
<1> QED BY <1>1, <1>2, <1>3, <1>4, <1>5, <1>6, <1>7, <1>8, <1>9 DEF Next

\* No step sets a time of the handler or of a row ahead of the clock.
LEMMA ClocksStep == TypeOK /\ Clocks /\ [Next]_vars => Clocks'
<1> SUFFICES ASSUME TypeOK, Clocks, [Next]_vars PROVE Clocks'
  OBVIOUS
<1> USE TimesAreNumbers DEF Clocks, rowVars, handlerVars
<1>1. CASE Tick
  BY <1>1 DEF Tick
<1>2. ASSUME NEW r \in Rows, Sampled(r) PROVE Clocks'
  BY <1>2 DEF Sampled
<1>3. ASSUME NEW r \in Rows, Stored(r) PROVE Clocks'
  BY <1>3 DEF Stored
<1>4. CASE Snapshot
  BY <1>4, PushEffect DEF Snapshot
<1>5. CASE Stamp
  BY <1>5 DEF Stamp
<1>6. CASE TickerFires
  BY <1>6 DEF TickerFires
<1>7. CASE Update
  BY <1>7, PushEffect DEF Update
<1>8. CASE Disconnect
  BY <1>8 DEF Disconnect
<1>9. CASE UNCHANGED vars
  BY <1>9 DEF vars
<1> QED BY <1>1, <1>2, <1>3, <1>4, <1>5, <1>6, <1>7, <1>8, <1>9 DEF Next

\* A row that is still on its way when the clock ticks is late.
LEMMA LateStep == TypeOK /\ LateIfWaiting /\ [Next]_vars => LateIfWaiting'
<1> SUFFICES ASSUME TypeOK, LateIfWaiting, [Next]_vars PROVE LateIfWaiting'
  OBVIOUS
<1> USE TimesAreNumbers DEF LateIfWaiting, rowVars, handlerVars
<1>1. CASE Tick
  BY <1>1 DEF Tick
<1>2. ASSUME NEW r \in Rows, Sampled(r) PROVE LateIfWaiting'
  BY <1>2 DEF Sampled
<1>3. ASSUME NEW r \in Rows, Stored(r) PROVE LateIfWaiting'
  BY <1>3 DEF Stored
<1>4. CASE Snapshot
  BY <1>4, PushEffect DEF Snapshot
<1>5. CASE Stamp
  BY <1>5 DEF Stamp
<1>6. CASE TickerFires
  BY <1>6 DEF TickerFires
<1>7. CASE Update
  BY <1>7, PushEffect DEF Update
<1>8. CASE Disconnect
  BY <1>8 DEF Disconnect
<1>9. CASE UNCHANGED vars
  BY <1>9 DEF vars
<1> QED BY <1>1, <1>2, <1>3, <1>4, <1>5, <1>6, <1>7, <1>8, <1>9 DEF Next

\* The stream passes no stored row without taking or excusing it.
LEMMA NotYetPassedStep ==
    TypeOK /\ Clocks /\ LateIfWaiting /\ NotYetPassed /\ [Next]_vars => NotYetPassed'
<1> SUFFICES ASSUME TypeOK, Clocks, LateIfWaiting, NotYetPassed, [Next]_vars
             PROVE  NotYetPassed'
  OBVIOUS
<1> USE TimesAreNumbers DEF Clocks, LateIfWaiting, NotYetPassed, rowVars, handlerVars
<1>1. CASE Tick
  BY <1>1 DEF Tick
<1>2. ASSUME NEW r \in Rows, Sampled(r) PROVE NotYetPassed'
  BY <1>2 DEF Sampled
<1>3. ASSUME NEW r \in Rows, Stored(r) PROVE NotYetPassed'
  BY <1>3 DEF Stored
<1>4. CASE Snapshot
  BY <1>4, PushEffect DEF Snapshot, Window
<1>5. CASE Stamp
  BY <1>5 DEF Stamp
<1>6. CASE TickerFires
  BY <1>6 DEF TickerFires
<1>7. CASE Update
  BY <1>7, PushEffect DEF Update, Window
<1>8. CASE Disconnect
  BY <1>8 DEF Disconnect
<1>9. CASE UNCHANGED vars
  BY <1>9 DEF vars
<1> QED BY <1>1, <1>2, <1>3, <1>4, <1>5, <1>6, <1>7, <1>8, <1>9 DEF Next

\* Only the last window and the next one can hold the same row.
LEMMA SentRowsStep == TypeOK /\ Clocks /\ SentRowsPassed /\ [Next]_vars => SentRowsPassed'
<1> SUFFICES ASSUME TypeOK, Clocks, SentRowsPassed, [Next]_vars PROVE SentRowsPassed'
  OBVIOUS
<1> USE TimesAreNumbers DEF Clocks, SentRowsPassed, rowVars, handlerVars
<1>1. CASE Tick
  BY <1>1 DEF Tick
<1>2. ASSUME NEW r \in Rows, Sampled(r) PROVE SentRowsPassed'
  BY <1>2 DEF Sampled
<1>3. ASSUME NEW r \in Rows, Stored(r) PROVE SentRowsPassed'
  BY <1>3 DEF Stored
<1>4. CASE Snapshot
  BY <1>4, PushEffect DEF Snapshot, Window
<1>5. CASE Stamp
  BY <1>5 DEF Stamp
<1>6. CASE TickerFires
  BY <1>6 DEF TickerFires
<1>7. CASE Update
  BY <1>7, PushEffect DEF Update, Window
<1>8. CASE Disconnect
  BY <1>8 DEF Disconnect
<1>9. CASE UNCHANGED vars
  BY <1>9 DEF vars
<1> QED BY <1>1, <1>2, <1>3, <1>4, <1>5, <1>6, <1>7, <1>8, <1>9 DEF Next

LEMMA StreamInvariance == Spec => []StreamIInv
<1>1. StreamIInv /\ [Next]_vars => StreamIInv'
  BY StreamTypeStep, ClocksStep, LateStep, NotYetPassedStep, SentRowsStep DEF StreamIInv
<1> QED BY StreamInvInit, <1>1, PTL DEF Spec

\* Clocks and windows stay in range, for any rows and delays.
THEOREM StreamTypes == Spec => []TypeOK
<1>1. StreamIInv => TypeOK
  BY DEF StreamIInv
<1> QED BY StreamInvariance, <1>1, PTL

\* However long the queries take and rows keep arriving, the snapshot misses no
\* row before its end and the windows of the updates leave no gap between them.
\* A row is missed only if it lies between the end of the snapshot and the
\* beginning of the updates, was stored late, or fell to a failed query or the
\* LIMIT.
THEOREM NoGaps == Spec => []MissedForAReason
<1>1. StreamIInv => MissedForAReason
  BY TimesAreNumbers DEF StreamIInv, NotYetPassed, MissedForAReason, InTheGap
<1> QED BY StreamInvariance, <1>1, PTL

\* No row is sent to a client three times.
THEOREM AtMostTwice == Spec => []SentAtMostTwice
<1>1. StreamIInv => SentAtMostTwice
  BY DEF StreamIInv, SentRowsPassed, SentAtMostTwice
<1> QED BY StreamInvariance, <1>1, PTL

-----------------------------------------------------------------------------
(* NetRates *)

\* The counter is what it was in the previous snapshot plus the traffic since,
\* wrapped around at most once, unless it has started from zero in between.
Wrapped == prev # Absent /\ ~replaced => counter \in {prev + unread, prev + unread - Word}

\* An interface that prev does not have was not replaced either: Appear then
\* makes no promise about rates that were already wrong.
UnknownIsNotReplaced == prev = Absent => ~replaced

NetIInv == NetTypeOK /\ Wrapped /\ UnknownIsNotReplaced /\ RatesAddUp

\* The unsigned subtraction undoes one wrap.
LEMMA MinusUndoesWrap ==
    ASSUME NEW c \in Counters, NEW p \in Counters, NEW n \in Counters,
           c \in {p + n, p + n - Word}
    PROVE  Minus(c, p) = n
  BY NetAssumption DEF Minus, Counters

\* It never leaves the counter's range, whatever the two counters are.
LEMMA MinusIsCounter ==
    ASSUME NEW c \in Counters, NEW p \in Counters
    PROVE  Minus(c, p) \in Counters
  BY NetAssumption DEF Minus, Counters

LEMMA NetInvInit == NetInit => NetIInv
<1> SUFFICES ASSUME NetInit PROVE NetIInv
  OBVIOUS
<1>1. 0 \in Counters /\ counter \in Counters /\ Absent \notin Counters
  BY NetAssumption DEF NetInit, Counters, Absent
<1>2. NetTypeOK
  BY <1>1 DEF NetInit, NetTypeOK
<1>3. Wrapped
  BY <1>1 DEF NetInit, Wrapped, Counters
<1> QED BY <1>2, <1>3 DEF NetInit, NetIInv, UnknownIsNotReplaced, RatesAddUp

LEMMA NetInvStep == NetIInv /\ [NetNext]_netVars => NetIInv'
<1> SUFFICES ASSUME NetIInv, [NetNext]_netVars PROVE NetIInv'
  OBVIOUS
<1>t. /\ Word \in Nat \ {0} /\ counter \in 0..Word - 1 /\ unread \in 0..Word - 1
      /\ prev \in 0..Word - 1 \/ prev = -1
      /\ present \in BOOLEAN /\ replaced \in BOOLEAN /\ reported \in Nat /\ bytes \in Nat
  BY NetAssumption DEF NetIInv, NetTypeOK, Counters, Absent
<1> USE DEF NetIInv, NetTypeOK, Wrapped, UnknownIsNotReplaced, RatesAddUp, Counters, Absent
<1>1. ASSUME NEW n \in 1..MaxBytes, Send(n) PROVE NetIInv'
  <2>1. /\ n \in Nat /\ unread' = unread + n /\ unread + n < Word
        /\ counter' \in {counter + n, counter + n - Word} /\ counter' \in 0..Word - 1
    BY <1>1, <1>t, NetAssumption DEF Send
  <2> QED BY <1>1, <1>t, <2>1 DEF Send
<1>2. CASE Disappear
  BY <1>2 DEF Disappear
<1>3. CASE Appear
  <2>1. CASE prev = Absent
    <3>1. replaced' = FALSE /\ replaced = FALSE
      BY <1>3, <1>t, <2>1 DEF Appear
    <3> QED BY <1>3, <1>t, <2>1, <3>1 DEF Appear
  <2>2. CASE prev # Absent
    <3>1. replaced' = TRUE
      BY <1>3, <2>2 DEF Appear
    <3> QED BY <1>3, <1>t, <2>2, <3>1 DEF Appear
  <2> QED BY <2>1, <2>2
<1>4. CASE Report
  <2>1. Minus(counter, prev) \in Nat
    BY <1>4, <1>t, MinusIsCounter DEF Report
  <2>2. ~replaced => Minus(counter, prev) = unread
    BY <1>4, <1>t, MinusUndoesWrap DEF Report
  <2> QED BY <1>4, <1>t, <2>1, <2>2 DEF Report
<1>5. CASE FirstSeen \/ ClockWentBack
  <2>1. /\ present' = present /\ counter' = counter /\ replaced' = FALSE
        /\ reported' = 0 /\ bytes' = 0 /\ unread' = 0
        /\ prev' = counter \/ prev' = -1
    BY <1>5 DEF FirstSeen, ClockWentBack, StartSeries
  <2>2. NetTypeOK'
    <3>1. present' \in BOOLEAN /\ replaced' \in BOOLEAN
      BY <1>t, <2>1
    <3>2. counter' \in 0..Word - 1 /\ prev' \in (0..Word - 1) \cup {-1}
      BY <1>t, <2>1
    <3>3. unread' \in 0..Word - 1 /\ reported' \in Nat /\ bytes' \in Nat
      BY <1>t, <2>1
    <3> QED BY <3>1, <3>2, <3>3
  <2>3. Wrapped'
    <3>1. prev' # -1 => prev' = counter
      BY <2>1
    <3> QED BY <1>t, <2>1, <3>1
  <2>4. UnknownIsNotReplaced' /\ RatesAddUp'
    BY <2>1
  <2> QED BY <2>2, <2>3, <2>4
<1>6. CASE SnapshotFails \/ UNCHANGED netVars
  BY <1>6 DEF SnapshotFails, netVars
<1> QED BY <1>1, <1>2, <1>3, <1>4, <1>5, <1>6 DEF NetNext

LEMMA NetInvariance == NetSpec => []NetIInv
  BY NetInvInit, NetInvStep, PTL DEF NetSpec

\* The counters stay in range, through wraps and interfaces that come and go.
THEOREM NetTypeCorrect == NetSpec => []NetTypeOK
<1>1. NetIInv => NetTypeOK
  BY DEF NetIInv
<1> QED BY NetInvariance, <1>1, PTL

\* streamNetwork neither loses nor invents traffic: its rates add up to what
\* the interface sent, through failed snapshots, a clock that is stepped back
\* and wrapped counters, as long as the interface itself is not replaced.
THEOREM NoTrafficInvented == NetSpec => []RatesAddUp
<1>1. NetIInv => RatesAddUp
  BY DEF NetIInv
<1> QED BY NetInvariance, <1>1, PTL

-----------------------------------------------------------------------------
(* RateLimiter *)

\* A call asks the limiter that the map has for its address, and no address
\* gets the limiter of another.
LimiterOfItsAddress ==
    /\ \A c \in Calls : limiter[c] # None => clients[Client[c]] = limiter[c]
    /\ \A a \in Addresses : clients[a] # None => Client[clients[a]] = a

\* A limiter that is not in the map has its first tokens.
UnusedIsFull == \A l \in Calls : clients[Client[l]] # l => tokens[l] = Burst

\* Calls pass through a limiter, and not ahead of the clock; finitely many have.
PassedInTime ==
    /\ \A c \in Calls : passed[c] # NotYet => limiter[c] # None /\ passed[c] <= time
    /\ \A c \in Calls : refused[c] <= time
    /\ IsFiniteSet({c \in Calls : passed[c] # NotYet})

\* What has passed since any moment, and the tokens that are left, are within
\* the rate and one burst: spending and saving are bounded together.
SpentAndSaved ==
    \A a \in Addresses : clients[a] # None =>
       \A f \in 0..time : PassedOf(a, f, time) + tokens[clients[a]] <= Capacity(f, time)

\* Since the bucket was last full nothing was lost: all that the time since
\* then allowed is spent or saved.
NothingLost ==
    \A a \in Addresses : clients[a] # None =>
       \E f \in 0..time : PassedOf(a, f, time) + tokens[clients[a]] >= Capacity(f, time)

LimitIInv == /\ LimitTypeOK /\ LimiterOfItsAddress /\ UnusedIsFull /\ PassedInTime
             /\ SpentAndSaved /\ NothingLost /\ BurstIsBound /\ RefusedForOwnFlood

LEMMA CapacityIsNat ==
    ASSUME NEW f \in Nat, NEW t \in Nat, f <= t
    PROVE  Capacity(f, t) \in Nat /\ Capacity(f, t) >= Burst
<1>1. t - f \in Nat
  OBVIOUS
<1>2. ASSUME NEW d \in Nat PROVE Rate * d \in Nat
  BY LimiterAssumption
<1> QED BY <1>1, <1>2, LimiterAssumption DEF Capacity

LEMMA CapacityGrows ==
    ASSUME NEW f \in Nat, NEW t \in Nat, f <= t
    PROVE  Capacity(f, t + 1) = Capacity(f, t) + Rate
<1>1. ASSUME NEW d \in Int PROVE Rate * (d + 1) = Rate * d + Rate
  BY LimiterAssumption
<1>2. (t + 1) - f = (t - f) + 1 /\ t - f \in Int
  OBVIOUS
<1>3. Rate * ((t + 1) - f) = Rate * (t - f) + Rate
  BY <1>1, <1>2
<1>4. Rate * (t - f) \in Int /\ Rate \in Int /\ Burst \in Int
  BY <1>2, LimiterAssumption
<1> QED BY <1>3, <1>4 DEF Capacity

LEMMA CapacityMonotone ==
    ASSUME NEW f \in Nat, NEW t \in Nat, NEW u \in Nat, f <= t, t <= u
    PROVE  Capacity(f, t) <= Capacity(f, u)
<1>1. ASSUME NEW d \in Nat, NEW e \in Nat, d <= e PROVE Rate * d <= Rate * e
  <2>1. Rate * e = Rate * d + Rate * (e - d)
    BY LimiterAssumption
  <2>2. Rate * (e - d) \in Nat /\ Rate * d \in Nat
    BY LimiterAssumption, <1>1
  <2> QED BY <2>1, <2>2
<1>2. t - f \in Nat /\ u - f \in Nat /\ t - f <= u - f
  OBVIOUS
<1>3. Rate * (t - f) <= Rate * (u - f)
  BY <1>1, <1>2
<1>4. Rate * (t - f) \in Int /\ Rate * (u - f) \in Int
  BY <1>2, LimiterAssumption
<1> QED BY <1>3, <1>4, LimiterAssumption DEF Capacity

\* The calls that PassedOf counts.
Passing(a, f, t) == {c \in Calls : Client[c] = a /\ passed[c] \in f..t}

LEMMA LimitTypes ==
    ASSUME LimitIInv
    PROVE  /\ clients \in [Addresses -> Calls \cup {None}] /\ None \notin Calls
           /\ limiter \in [Calls -> Calls \cup {None}]
           /\ tokens \in [Calls -> 0..Burst] /\ tokens \in [Calls -> Nat]
           /\ time \in Nat /\ time <= MaxTicks /\ MaxTicks \in Nat /\ Burst \in Nat /\ Rate \in Nat
           /\ passed \in [Calls -> Nat \cup {NotYet}]
           /\ refused \in [Calls -> Nat \cup {NotYet}]
           /\ \A c \in Calls : Client[c] \in Addresses
           /\ \A a \in Addresses : \E c \in Calls : Client[c] = a
  BY LimiterAssumption DEF LimitIInv, LimitTypeOK, Times, NotYet, Addresses

\* Finitely many calls have passed, so the count is a number.
LEMMA PassedOfIsNat ==
    ASSUME PassedInTime, NEW a, NEW f \in Nat, NEW t \in Nat
    PROVE  IsFiniteSet(Passing(a, f, t)) /\ PassedOf(a, f, t) \in Nat
<1>1. Passing(a, f, t) \in SUBSET {c \in Calls : passed[c] # NotYet}
  BY DEF Passing, NotYet
<1>2. IsFiniteSet(Passing(a, f, t))
  BY <1>1, FS_Subset DEF PassedInTime
<1>3. PassedOf(a, f, t) = Cardinality(Passing(a, f, t))
  BY DEF PassedOf, Passing
<1> QED BY <1>2, <1>3, FS_CardinalityType

\* Nobody passes before the map has a limiter for the address, ...
LEMMA NobodyBeforeLimiter ==
    ASSUME LimitIInv, NEW a \in Addresses, clients[a] = None, NEW f \in Nat, NEW t \in Nat
    PROVE  PassedOf(a, f, t) = 0
<1>1. {c \in Calls : Client[c] = a /\ passed[c] \in f..t} = {}
  BY LimitTypes DEF LimitIInv, PassedInTime, LimiterOfItsAddress, NotYet
<1> QED BY <1>1, FS_EmptySet DEF PassedOf

\* ... nor in the future.
LEMMA NobodyInTheFuture ==
    ASSUME PassedInTime, time \in Nat, passed \in [Calls -> Nat \cup {NotYet}],
           NEW a, NEW f \in Nat, NEW t \in Nat
    PROVE  /\ f > time => PassedOf(a, f, t) = 0
           /\ time <= t => PassedOf(a, f, t) = PassedOf(a, f, time)
<1>1. f > time => {c \in Calls : Client[c] = a /\ passed[c] \in f..t} = {}
  BY DEF PassedInTime, NotYet
<1>2. time <= t => {c \in Calls : Client[c] = a /\ passed[c] \in f..t}
                   = {c \in Calls : Client[c] = a /\ passed[c] \in f..time}
  BY DEF PassedInTime, NotYet
<1> QED BY <1>1, <1>2, FS_EmptySet DEF PassedOf

\* A call that passes is counted once in every span that reaches the present,
\* for its address, and in no other.
LEMMA PassedOfAllow ==
    ASSUME LimitIInv, NEW c \in Calls, Allow(c), NEW a \in Addresses,
           NEW f \in Nat, NEW t \in Nat, f <= time
    PROVE  /\ t < time \/ a # Client[c] => PassedOf(a, f, t)' = PassedOf(a, f, t)
           /\ time <= t /\ a = Client[c] => PassedOf(a, f, t)' = PassedOf(a, f, t) + 1
<1> USE LimitTypes
<1>1. /\ passed[c] = NotYet /\ passed' = [passed EXCEPT ![c] = time]
  BY DEF Allow, Asking
<1>c. /\ PassedOf(a, f, t) = Cardinality({d \in Calls : Client[d] = a /\ passed[d] \in f..t})
      /\ PassedOf(a, f, t)' = Cardinality({d \in Calls : Client[d] = a /\ passed'[d] \in f..t})
  BY DEF PassedOf
<1>2. CASE t < time \/ a # Client[c]
  <2>1. {d \in Calls : Client[d] = a /\ passed'[d] \in f..t}
        = {d \in Calls : Client[d] = a /\ passed[d] \in f..t}
    BY <1>1, <1>2 DEF NotYet
  <2>2. PassedOf(a, f, t)' = PassedOf(a, f, t)
    BY <1>c, <2>1
  <2> QED BY <1>2, <2>2
<1>3. CASE time <= t /\ a = Client[c]
  <2>1. {d \in Calls : Client[d] = a /\ passed'[d] \in f..t} = Passing(a, f, t) \cup {c}
    BY <1>1, <1>3 DEF NotYet, Passing
  <2>2. c \notin Passing(a, f, t)
    BY <1>1 DEF Passing, NotYet
  <2>3. Cardinality(Passing(a, f, t) \cup {c}) = Cardinality(Passing(a, f, t)) + 1
    BY <2>2, PassedOfIsNat, FS_AddElement DEF LimitIInv
  <2>4. PassedOf(a, f, t)' = PassedOf(a, f, t) + 1
    BY <1>c, <2>1, <2>3 DEF Passing
  <2> QED BY <1>3, <2>4
<1> QED BY <1>2, <1>3

LEMMA PassedOfUnchanged ==
    ASSUME UNCHANGED passed, NEW a, NEW f, NEW t
    PROVE  PassedOf(a, f, t)' = PassedOf(a, f, t)
  BY DEF PassedOf

LEMMA LimitInvInit == LimitInit => LimitIInv
<1> SUFFICES ASSUME LimitInit PROVE LimitIInv
  OBVIOUS
<1> USE LimiterAssumption DEF LimitInit
<1>1. LimitTypeOK
  BY DEF LimitTypeOK, Times
<1>2. LimiterOfItsAddress /\ UnusedIsFull
  BY DEF LimiterOfItsAddress, UnusedIsFull, Addresses
<1>3. PassedInTime
  <2>1. {c \in Calls : passed[c] # NotYet} = {}
    OBVIOUS
  <2> QED BY <2>1, FS_EmptySet DEF PassedInTime, NotYet
<1>4. SpentAndSaved /\ NothingLost
  BY DEF SpentAndSaved, NothingLost
<1>5. BurstIsBound
  <2> SUFFICES ASSUME NEW a \in Addresses, NEW f \in Times, NEW t \in Times, f <= t
               PROVE  PassedOf(a, f, t) <= Capacity(f, t)
    BY DEF BurstIsBound
  <2>1. {c \in Calls : Client[c] = a /\ passed[c] \in f..t} = {}
    BY DEF Times, NotYet
  <2>2. PassedOf(a, f, t) = 0
    BY <2>1, FS_EmptySet DEF PassedOf
  <2> QED BY <2>2, CapacityIsNat DEF Times
<1>6. RefusedForOwnFlood
  BY DEF RefusedForOwnFlood
<1> QED BY <1>1, <1>2, <1>3, <1>4, <1>5, <1>6 DEF LimitIInv

\* The bound on all spans, from that on those which reach the present.
LEMMA BoundOnAllSpans ==
    ASSUME LimitIInv
    PROVE  \A a \in Addresses : \A f \in 0..time :
              PassedOf(a, f, time) <= Capacity(f, time)
<1> SUFFICES ASSUME NEW a \in Addresses, NEW f \in 0..time
             PROVE  PassedOf(a, f, time) <= Capacity(f, time)
  OBVIOUS
<1> QED BY LimitTypes DEF LimitIInv, BurstIsBound, Times

\* Refill: every span that reaches the present grows by a tick.
LEMMA RefillStep == LimitIInv /\ Refill => LimitIInv'
<1> SUFFICES ASSUME LimitIInv, Refill PROVE LimitIInv'
  OBVIOUS
<1> USE LimitTypes
<1>0. /\ time' = time + 1 /\ time' \in Nat /\ time' <= MaxTicks
      /\ UNCHANGED <<clients, limiter, passed, refused>>
      /\ tokens' \in [Calls -> 0..Burst]
      /\ \A l \in Calls : \/ tokens'[l] = tokens[l] + Rate
                          \/ tokens'[l] = Burst /\ tokens[l] + Rate >= Burst
  BY DEF Refill
<1>1. LimitTypeOK'
  BY <1>0 DEF LimitIInv, LimitTypeOK, Times
<1>2. LimiterOfItsAddress'
  BY <1>0 DEF LimitIInv, LimiterOfItsAddress
<1>3. UnusedIsFull'
  BY <1>0 DEF LimitIInv, UnusedIsFull
<1>4. PassedInTime'
  <2>1. \A c \in Calls : passed'[c] # NotYet => limiter'[c] # None /\ passed'[c] <= time'
    BY <1>0 DEF LimitIInv, PassedInTime, NotYet
  <2>2. \A c \in Calls : refused'[c] <= time'
    BY <1>0 DEF LimitIInv, PassedInTime, NotYet
  <2>3. {c \in Calls : passed'[c] # NotYet} = {c \in Calls : passed[c] # NotYet}
    BY <1>0
  <2> QED BY <2>1, <2>2, <2>3 DEF LimitIInv, PassedInTime
<1>c. ASSUME NEW a \in Addresses, NEW f \in 0..time
      PROVE  /\ PassedOf(a, f, time)' = PassedOf(a, f, time)
             /\ Capacity(f, time)' = Capacity(f, time) + Rate
             /\ PassedOf(a, f, time) \in Nat /\ Capacity(f, time) \in Nat
  <2>1. PassedOf(a, f, time + 1) = PassedOf(a, f, time)
    BY NobodyInTheFuture DEF LimitIInv
  <2>2. Capacity(f, time + 1) = Capacity(f, time) + Rate
    BY CapacityGrows
  <2>3. PassedOf(a, f, time)' = PassedOf(a, f, time + 1)
    BY <1>0 DEF PassedOf
  <2>4. Capacity(f, time)' = Capacity(f, time + 1)
    BY <1>0 DEF Capacity
  <2>5. PassedOf(a, f, time) \in Nat /\ Capacity(f, time) \in Nat
    BY PassedOfIsNat, CapacityIsNat DEF LimitIInv
  <2> QED BY <2>1, <2>2, <2>3, <2>4, <2>5
<1>d. ASSUME NEW a \in Addresses, NEW f \in Nat, f = time + 1
      PROVE  PassedOf(a, f, time)' = 0 /\ Capacity(f, time)' = Burst
  <2>0. PassedInTime /\ f > time
    BY <1>d DEF LimitIInv
  <2>1. PassedOf(a, f, f) = 0
    BY <2>0, NobodyInTheFuture
  <2>2. PassedOf(a, f, time)' = PassedOf(a, f, f)
    BY <1>0, <1>d DEF PassedOf
  <2>3. Capacity(f, time)' = Burst
    BY <1>0, <1>d, LimiterAssumption DEF Capacity
  <2> QED BY <2>1, <2>2, <2>3
<1>5. SpentAndSaved'
  <2> SUFFICES ASSUME NEW a \in Addresses, clients[a] # None, NEW f \in 0..(time + 1)
               PROVE  PassedOf(a, f, time)' + tokens'[clients[a]] <= Capacity(f, time)'
    BY <1>0 DEF SpentAndSaved
  <2>1. CASE f <= time
    <3>1. PassedOf(a, f, time) + tokens[clients[a]] <= Capacity(f, time)
      BY <2>1 DEF LimitIInv, SpentAndSaved
    <3>2. tokens'[clients[a]] <= tokens[clients[a]] + Rate
      BY <1>0
    <3> QED BY <1>0, <1>c, <2>1, <3>1, <3>2
  <2>2. CASE f = time + 1
    BY <1>0, <1>d, <2>2
  <2> QED BY <2>1, <2>2
<1>6. NothingLost'
  <2> SUFFICES ASSUME NEW a \in Addresses, clients[a] # None
               PROVE  \E f \in 0..(time + 1) :
                         PassedOf(a, f, time)' + tokens'[clients[a]] >= Capacity(f, time)'
    BY <1>0 DEF NothingLost
  <2>1. CASE tokens'[clients[a]] = tokens[clients[a]] + Rate
    <3>1. PICK f \in 0..time : PassedOf(a, f, time) + tokens[clients[a]] >= Capacity(f, time)
      BY DEF LimitIInv, NothingLost
    <3>2. PassedOf(a, f, time)' + tokens'[clients[a]] >= Capacity(f, time)'
      BY <1>c, <2>1, <3>1
    <3> QED BY <3>1, <3>2
  <2>2. CASE tokens'[clients[a]] = Burst
    <3>1. PICK f \in 0..(time + 1) : f = time + 1
      OBVIOUS
    <3>2. PassedOf(a, f, time)' = 0 /\ Capacity(f, time)' = Burst
      BY <1>d, <3>1
    <3> QED BY <1>0, <2>2, <3>2
  <2> QED BY <1>0, <2>1, <2>2
<1>7. BurstIsBound' /\ RefusedForOwnFlood'
  <2>1. UNCHANGED <<passed, refused>>
    BY <1>0
  <2>2. \A a, f, t : PassedOf(a, f, t)' = PassedOf(a, f, t)
    BY <2>1 DEF PassedOf
  <2>3. BurstIsBound'
    BY <2>2 DEF LimitIInv, BurstIsBound
  <2>4. RefusedForOwnFlood'
    BY <2>1, <2>2 DEF LimitIInv, RefusedForOwnFlood
  <2> QED BY <2>3, <2>4
<1> QED BY <1>1, <1>2, <1>3, <1>4, <1>5, <1>6, <1>7 DEF LimitIInv

\* Bounds on what has passed do not change when nobody passes, or time.
LEMMA NobodyPasses ==
    ASSUME LimitIInv, UNCHANGED passed
    PROVE  /\ \A a, f, t : PassedOf(a, f, t)' = PassedOf(a, f, t)
           /\ BurstIsBound'
           /\ UNCHANGED refused => RefusedForOwnFlood'
<1>1. \A a, f, t : PassedOf(a, f, t)' = PassedOf(a, f, t)
  BY DEF PassedOf
<1>2. BurstIsBound'
  BY <1>1 DEF LimitIInv, BurstIsBound
<1>3. UNCHANGED refused => RefusedForOwnFlood'
  BY <1>1 DEF LimitIInv, RefusedForOwnFlood
<1> QED BY <1>1, <1>2, <1>3

\* A new limiter is full, and nobody of its address has passed.
LEMMA LookUpStep ==
    ASSUME LimitIInv, NEW c \in Calls, LookUp(c)
    PROVE  LimitIInv'
<1> USE LimitTypes
<1> DEFINE l == IF clients[Client[c]] = None THEN c ELSE clients[Client[c]]
<1>0. /\ limiter[c] = None /\ l \in Calls
      /\ clients' = [clients EXCEPT ![Client[c]] = l]
      /\ limiter' = [limiter EXCEPT ![c] = l]
      /\ UNCHANGED <<tokens, time, passed, refused>>
  BY DEF LookUp
<1>a. Client[l] = Client[c]
  BY DEF LimitIInv, LimiterOfItsAddress
<1>b. \A a \in Addresses : clients[a] # None => clients'[a] = clients[a]
  BY <1>0
<1>1. LimitTypeOK'
  BY <1>0 DEF LimitIInv, LimitTypeOK
<1>2. LimiterOfItsAddress'
  <2>1. \A d \in Calls : limiter'[d] # None => clients'[Client[d]] = limiter'[d]
    BY <1>0, <1>b DEF LimitIInv, LimiterOfItsAddress
  <2>2. \A a \in Addresses : clients'[a] # None => Client[clients'[a]] = a
    BY <1>0, <1>a DEF LimitIInv, LimiterOfItsAddress
  <2> QED BY <2>1, <2>2 DEF LimiterOfItsAddress
<1>3. UnusedIsFull'
  <2> SUFFICES ASSUME NEW d \in Calls, clients'[Client[d]] # d PROVE tokens[d] = Burst
    BY <1>0 DEF UnusedIsFull
  <2>1. clients[Client[d]] # d
    BY <1>b
  <2> QED BY <2>1 DEF LimitIInv, UnusedIsFull
<1>4. PassedInTime'
  BY <1>0 DEF LimitIInv, PassedInTime
<1>c. \A a \in Addresses : \A f \in 0..time : PassedOf(a, f, time)' = PassedOf(a, f, time)
  BY <1>0, NobodyPasses
<1>d. ASSUME NEW a \in Addresses, clients[a] = None, clients'[a] # None
      PROVE  /\ \A f \in 0..time : PassedOf(a, f, time) = 0
             /\ tokens[clients'[a]] = Burst
  <2>1. \A f \in 0..time : PassedOf(a, f, time) = 0
    BY <1>d, NobodyBeforeLimiter
  <2>2. a = Client[c] /\ clients'[a] = c
    BY <1>0, <1>d
  <2>3. tokens[c] = Burst
    BY <1>d, <2>2 DEF LimitIInv, UnusedIsFull
  <2> QED BY <2>1, <2>2, <2>3
<1>5. SpentAndSaved'
  <2> SUFFICES ASSUME NEW a \in Addresses, clients'[a] # None, NEW f \in 0..time
               PROVE  PassedOf(a, f, time) + tokens[clients'[a]] <= Capacity(f, time)
    BY <1>0, <1>c DEF SpentAndSaved
  <2>1. CASE clients[a] = None
    BY <1>d, <2>1, CapacityIsNat
  <2>2. CASE clients[a] # None
    BY <1>b, <2>2 DEF LimitIInv, SpentAndSaved
  <2> QED BY <2>1, <2>2
<1>6. NothingLost'
  <2> SUFFICES ASSUME NEW a \in Addresses, clients'[a] # None
               PROVE  \E f \in 0..time :
                         PassedOf(a, f, time) + tokens[clients'[a]] >= Capacity(f, time)
    BY <1>0, <1>c DEF NothingLost
  <2>1. CASE clients[a] = None
    <3>1. Capacity(time, time) = Burst
      BY LimiterAssumption DEF Capacity
    <3> QED BY <1>d, <2>1, <3>1
  <2>2. CASE clients[a] # None
    BY <1>b, <2>2 DEF LimitIInv, NothingLost
  <2> QED BY <2>1, <2>2
<1>7. BurstIsBound' /\ RefusedForOwnFlood'
  BY <1>0, NobodyPasses
<1> QED BY <1>1, <1>2, <1>3, <1>4, <1>5, <1>6, <1>7 DEF LimitIInv

\* What the call spends was saved by its own limiter.
LEMMA AllowStep ==
    ASSUME LimitIInv, NEW c \in Calls, Allow(c)
    PROVE  LimitIInv'
<1> USE LimitTypes
<1> DEFINE l == limiter[c]
<1>0. /\ limiter[c] # None /\ l \in Calls /\ tokens[l] > 0 /\ passed[c] = NotYet
      /\ tokens' = [tokens EXCEPT ![l] = @ - 1]
      /\ passed' = [passed EXCEPT ![c] = time]
      /\ UNCHANGED <<clients, limiter, time, refused>>
  BY DEF Allow, Asking
<1>a. clients[Client[c]] = l /\ Client[l] = Client[c]
  BY <1>0 DEF LimitIInv, LimiterOfItsAddress
<1>1. LimitTypeOK'
  <2>1. tokens' \in [Calls -> 0..Burst]
    BY <1>0
  <2>2. passed' \in [Calls -> Times \cup {NotYet}]
    BY <1>0 DEF LimitIInv, LimitTypeOK
  <2> QED BY <1>0, <2>1, <2>2 DEF LimitIInv, LimitTypeOK
<1>2. LimiterOfItsAddress'
  BY <1>0 DEF LimitIInv, LimiterOfItsAddress
<1>3. UnusedIsFull'
  BY <1>0, <1>a DEF LimitIInv, UnusedIsFull
<1>4. PassedInTime'
  <2>1. \A d \in Calls : passed'[d] # NotYet => limiter'[d] # None /\ passed'[d] <= time'
    BY <1>0 DEF LimitIInv, PassedInTime
  <2>2. \A d \in Calls : refused'[d] <= time'
    BY <1>0 DEF LimitIInv, PassedInTime
  <2>3. {d \in Calls : passed'[d] # NotYet} = {d \in Calls : passed[d] # NotYet} \cup {c}
    BY <1>0 DEF NotYet
  <2>4. IsFiniteSet({d \in Calls : passed'[d] # NotYet})
    <3>1. IsFiniteSet({d \in Calls : passed[d] # NotYet})
      BY DEF LimitIInv, PassedInTime
    <3>2. IsFiniteSet({d \in Calls : passed[d] # NotYet} \cup {c})
      BY <3>1, FS_AddElement, Zenon
    <3> QED BY <2>3, <3>2, Zenon
  <2> QED BY <2>1, <2>2, <2>4 DEF PassedInTime
<1>b. \A a \in Addresses, f \in 0..time, t \in Nat :
         /\ t < time \/ a # Client[c] => PassedOf(a, f, t)' = PassedOf(a, f, t)
         /\ time <= t /\ a = Client[c] => PassedOf(a, f, t)' = PassedOf(a, f, t) + 1
  <2> SUFFICES ASSUME NEW a \in Addresses, NEW f \in 0..time, NEW t \in Nat
               PROVE  /\ t < time \/ a # Client[c] => PassedOf(a, f, t)' = PassedOf(a, f, t)
                      /\ time <= t /\ a = Client[c] => PassedOf(a, f, t)' = PassedOf(a, f, t) + 1
    OBVIOUS
  <2>1. f \in Nat /\ f <= time
    OBVIOUS
  <2> QED BY <2>1, PassedOfAllow
<1>n. \A a \in Addresses, f \in 0..time :
         PassedOf(a, f, time)' = PassedOf(a, f, time) + (IF a = Client[c] THEN 1 ELSE 0)
  <2> SUFFICES ASSUME NEW t \in Nat, t = time, NEW a \in Addresses, NEW f \in 0..t
               PROVE  PassedOf(a, f, t)' = PassedOf(a, f, t) + (IF a = Client[c] THEN 1 ELSE 0)
    BY <1>0
  <2>1. PassedOf(a, f, t) \in Nat
    BY PassedOfIsNat DEF LimitIInv
  <2> QED BY <1>b, <2>1
<1>c. ASSUME NEW a \in Addresses, clients[a] # None, NEW f \in 0..time
      PROVE  /\ PassedOf(a, f, time)' + tokens'[clients[a]]
                    = PassedOf(a, f, time) + tokens[clients[a]]
             /\ PassedOf(a, f, time) \in Nat
  <2>0. PassedOf(a, f, time) \in Nat
    BY PassedOfIsNat DEF LimitIInv
  <2>2. CASE a = Client[c]
    BY <1>0, <1>a, <1>n, <2>0, <2>2
  <2>3. CASE a # Client[c]
    <3>1. clients[a] # l
      BY <1>a, <1>c, <2>3 DEF LimitIInv, LimiterOfItsAddress
    <3> QED BY <1>0, <1>n, <1>c, <2>0, <2>3, <3>1
  <2> QED BY <2>0, <2>2, <2>3
<1>5. SpentAndSaved'
  <2> SUFFICES ASSUME NEW a \in Addresses, clients[a] # None, NEW f \in 0..time
               PROVE  PassedOf(a, f, time)' + tokens'[clients[a]] <= Capacity(f, time)
    BY <1>0 DEF SpentAndSaved
  <2> QED BY <1>c DEF LimitIInv, SpentAndSaved
<1>6. NothingLost'
  <2> SUFFICES ASSUME NEW a \in Addresses, clients[a] # None
               PROVE  \E f \in 0..time :
                         PassedOf(a, f, time)' + tokens'[clients[a]] >= Capacity(f, time)
    BY <1>0 DEF NothingLost
  <2> QED BY <1>c DEF LimitIInv, NothingLost
<1>d. PassedInTime' /\ time' \in Nat /\ passed' \in [Calls -> Nat \cup {NotYet}]
  BY <1>0, <1>4
<1>7. BurstIsBound'
  <2> SUFFICES ASSUME NEW a \in Addresses, NEW f \in Times, NEW t \in Times, f <= t
               PROVE  PassedOf(a, f, t)' <= Capacity(f, t)
    BY DEF BurstIsBound
  <2>t. f \in Nat /\ t \in Nat
    BY DEF Times
  <2>b. PassedOf(a, f, t) <= Capacity(f, t) /\ Capacity(f, t) \in Nat
    BY <2>t, CapacityIsNat DEF LimitIInv, BurstIsBound
  <2>1. CASE f <= time /\ (t < time \/ a # Client[c])
    BY <1>b, <2>1, <2>b, <2>t
  <2>2. CASE f <= time /\ time <= t /\ a = Client[c]
    <3>1. clients[a] # None
      BY <1>0, <1>a, <2>2
    <3>2. PassedOf(a, f, time) + tokens[clients[a]] <= Capacity(f, time)
      BY <2>2, <2>t, <3>1 DEF LimitIInv, SpentAndSaved
    <3>3. PassedOf(a, f, t)' = PassedOf(a, f, time) + 1
      <4>1. PassedOf(a, f, t) = PassedOf(a, f, time)
        BY <2>2, <2>t, NobodyInTheFuture DEF LimitIInv
      <4> QED BY <1>b, <2>2, <2>t, <4>1
    <3>4. Capacity(f, time) <= Capacity(f, t) /\ Capacity(f, time) \in Nat
      BY <2>2, <2>t, CapacityMonotone, CapacityIsNat
    <3>5. PassedOf(a, f, time) \in Nat /\ tokens[clients[a]] > 0
      BY <1>0, <1>a, <1>c, <2>2, <2>t, <3>1
    <3> QED BY <2>b, <3>2, <3>3, <3>4, <3>5, <3>1
  <2>3. CASE f > time
    <3>1. {d \in Calls : Client[d] = a /\ passed'[d] \in f..t}
          = {d \in Calls : Client[d] = a /\ passed[d] \in f..t}
      BY <1>0, <2>3, <2>t DEF NotYet
    <3>2. PassedOf(a, f, t)' = PassedOf(a, f, t)
      BY <3>1 DEF PassedOf
    <3> QED BY <2>b, <3>2
  <2> QED BY <2>1, <2>2, <2>3, <2>t
<1>8. RefusedForOwnFlood'
  <2> SUFFICES ASSUME NEW d \in Calls, NEW r \in Nat, r = refused[d]
               PROVE  \E f \in 0..r : PassedOf(Client[d], f, r)' >= Capacity(f, r)
    BY <1>0 DEF RefusedForOwnFlood
  <2>1. r <= time
    BY DEF LimitIInv, PassedInTime
  <2>2. PICK f \in 0..r : PassedOf(Client[d], f, r) >= Capacity(f, r)
    BY DEF LimitIInv, RefusedForOwnFlood, NotYet
  <2>3. f \in 0..time /\ PassedOf(Client[d], f, r) \in Nat
    BY <2>1, PassedOfIsNat DEF LimitIInv
  <2>4. /\ PassedOf(Client[d], f, r)' >= PassedOf(Client[d], f, r)
        /\ PassedOf(Client[d], f, r)' \in Nat
    <3> SUFFICES ASSUME NEW a \in Addresses, a = Client[d]
                 PROVE  PassedOf(a, f, r)' >= PassedOf(a, f, r) /\ PassedOf(a, f, r)' \in Nat
      OBVIOUS
    <3>1. PassedOf(a, f, r) \in Nat
      BY <2>3
    <3> QED BY <1>b, <2>1, <2>3, <3>1
  <2>5. Capacity(f, r) \in Nat
    BY <2>1, CapacityIsNat
  <2> QED BY <2>2, <2>3, <2>4, <2>5
<1> QED BY <1>1, <1>2, <1>3, <1>4, <1>5, <1>6, <1>7, <1>8 DEF LimitIInv

\* The bucket is empty: all that was allowed since it was full has passed.
LEMMA RefuseStep ==
    ASSUME LimitIInv, NEW c \in Calls, Refuse(c)
    PROVE  LimitIInv'
<1> USE LimitTypes
<1>0. /\ limiter[c] # None /\ tokens[limiter[c]] = 0
      /\ refused' = [refused EXCEPT ![c] = time]
      /\ UNCHANGED <<clients, limiter, tokens, time, passed>>
  BY DEF Refuse, Asking
<1>1. LimitTypeOK' /\ LimiterOfItsAddress' /\ UnusedIsFull'
  BY <1>0 DEF LimitIInv, LimitTypeOK, LimiterOfItsAddress, UnusedIsFull, Times
<1>2. PassedInTime'
  <2>1. \A d \in Calls : refused'[d] <= time'
    BY <1>0 DEF LimitIInv, PassedInTime
  <2> QED BY <1>0, <2>1 DEF LimitIInv, PassedInTime
<1>3. BurstIsBound' /\ \A a, f, t : PassedOf(a, f, t)' = PassedOf(a, f, t)
  BY <1>0, NobodyPasses
<1>4. SpentAndSaved' /\ NothingLost'
  BY <1>0, <1>3 DEF LimitIInv, SpentAndSaved, NothingLost
<1>5. RefusedForOwnFlood'
  <2> SUFFICES ASSUME NEW d \in Calls, refused'[d] # NotYet
               PROVE  \E f \in 0..refused'[d] :
                         PassedOf(Client[d], f, refused'[d]) >= Capacity(f, refused'[d])
    BY <1>0, <1>3 DEF RefusedForOwnFlood
  <2>1. CASE d = c
    <3>1. /\ clients[Client[c]] = limiter[c] /\ clients[Client[c]] # None
      BY <1>0 DEF LimitIInv, LimiterOfItsAddress
    <3>2. PICK f \in 0..time :
             PassedOf(Client[c], f, time) + tokens[limiter[c]] >= Capacity(f, time)
      BY <3>1 DEF LimitIInv, NothingLost
    <3>3. PassedOf(Client[c], f, time) \in Nat
      BY PassedOfIsNat DEF LimitIInv
    <3> QED BY <1>0, <2>1, <3>2, <3>3
  <2>2. CASE d # c
    BY <1>0, <2>2 DEF LimitIInv, RefusedForOwnFlood
  <2> QED BY <2>1, <2>2
<1> QED BY <1>1, <1>2, <1>3, <1>4, <1>5 DEF LimitIInv

LEMMA LimitInvariance == LimitSpec => []LimitIInv
<1>1. LimitIInv /\ UNCHANGED limitVars => LimitIInv'
  <2> SUFFICES ASSUME LimitIInv, UNCHANGED limitVars PROVE LimitIInv'
    OBVIOUS
  <2>0. UNCHANGED <<clients, limiter, tokens, time, passed, refused>>
    BY DEF limitVars
  <2>1. \A a, f, t : PassedOf(a, f, t)' = PassedOf(a, f, t)
    BY <2>0, NobodyPasses
  <2>2. LimitTypeOK' /\ LimiterOfItsAddress' /\ UnusedIsFull' /\ PassedInTime'
    BY <2>0 DEF LimitIInv, LimitTypeOK, LimiterOfItsAddress, UnusedIsFull, PassedInTime
  <2>3. SpentAndSaved' /\ NothingLost'
    BY <2>0, <2>1 DEF LimitIInv, SpentAndSaved, NothingLost
  <2>4. BurstIsBound' /\ RefusedForOwnFlood'
    BY <2>0, NobodyPasses
  <2> QED BY <2>2, <2>3, <2>4 DEF LimitIInv
<1>2. LimitIInv /\ [LimitNext]_limitVars => LimitIInv'
  BY <1>1, RefillStep, LookUpStep, AllowStep, RefuseStep DEF LimitNext
<1> QED BY LimitInvInit, <1>2, PTL DEF LimitSpec

\* A bucket never holds more than a burst, for any clients and any rate.
THEOREM LimiterTypes == LimitSpec => []LimitTypeOK
<1>1. LimitIInv => LimitTypeOK
  BY DEF LimitIInv
<1> QED BY LimitInvariance, <1>1, PTL

\* In no span of time does an address get more through than the rate and one
\* burst allow, for any rate, burst, number of clients and of concurrent calls.
THEOREM BurstBounds == LimitSpec => []BurstIsBound
<1>1. LimitIInv => BurstIsBound
  BY DEF LimitIInv
<1> QED BY LimitInvariance, <1>1, PTL

\* Whoever is refused has itself used up all that some span of time, up to that
\* moment, allowed it: no other client's calls, and no race for the limiter,
\* cost it anything.
THEOREM RefusedOnlyForOwnFlood == LimitSpec => []RefusedForOwnFlood
<1>1. LimitIInv => RefusedForOwnFlood
  BY DEF LimitIInv
<1> QED BY LimitInvariance, <1>1, PTL

LEMMA BucketInit == LimitInit => Bucket!Init
<1> SUFFICES ASSUME LimitInit PROVE Bucket!Init
  OBVIOUS
<1>1. Bucket!Addresses = Addresses
  BY DEF Bucket!Addresses, Addresses
<1> QED BY <1>1 DEF LimitInit, Bucket!Init

\* A limiter that is made for an address has what its bucket had before; the
\* other steps are those of the bucket of the call's address.
LEMMA BucketStep == LimitIInv /\ [LimitNext]_limitVars => [Bucket!Next]_(Bucket!vars)
<1> SUFFICES ASSUME LimitIInv, [LimitNext]_limitVars PROVE [Bucket!Next]_(Bucket!vars)
  OBVIOUS
<1> USE LimitTypes
<1> DEFINE held(a) == IF clients[a] = None THEN Burst ELSE tokens[clients[a]]
           told(c) == CASE passed[c] # NotYet -> "passed"
                        [] refused[c] # NotYet -> "refused"
                        [] OTHER -> "none"
           bucket == [a \in Addresses |-> held(a)]
           answer == [c \in Calls |-> told(c)]
<1>a. Bucket!Addresses = Addresses
  BY DEF Bucket!Addresses, Addresses
<1>1. CASE Refill
  <2>1. \A a \in Addresses : held(a)' = IF held(a) + Rate < Burst THEN held(a) + Rate ELSE Burst
    BY <1>1 DEF Refill
  <2>2. bucket' = [a \in Addresses |->
                     IF bucket[a] + Rate < Burst THEN bucket[a] + Rate ELSE Burst]
    BY <2>1
  <2>3. answer' = answer
    BY <1>1 DEF Refill
  <2> QED BY <1>a, <2>2, <2>3 DEF Bucket!Next, Bucket!Refill
<1>2. ASSUME NEW c \in Calls, LookUp(c) PROVE UNCHANGED Bucket!vars
  <2>1. answer' = answer
    BY <1>2 DEF LookUp
  <2>2. ASSUME NEW a \in Addresses PROVE held(a)' = held(a)
    <3>1. CASE clients'[a] = clients[a]
      BY <1>2, <3>1 DEF LookUp
    <3>2. CASE clients'[a] # clients[a]
      <4>1. a = Client[c] /\ clients[a] = None /\ clients'[a] = c
        BY <1>2, <3>2 DEF LookUp
      <4>2. tokens[c] = Burst
        BY <4>1 DEF LimitIInv, UnusedIsFull
      <4> QED BY <1>2, <4>1, <4>2 DEF LookUp
    <3> QED BY <3>1, <3>2
  <2>3. bucket' = bucket
    BY <2>2
  <2> QED BY <2>1, <2>3 DEF Bucket!vars
<1>3. ASSUME NEW c \in Calls, Allow(c) \/ Refuse(c)
      PROVE  /\ Client[c] \in Addresses /\ clients[Client[c]] = limiter[c]
             /\ limiter[c] \in Calls /\ bucket[Client[c]] = tokens[limiter[c]]
             /\ answer[c] = "none"
  <2>1. Asking(c)
    BY <1>3 DEF Allow, Refuse
  <2>2. clients[Client[c]] = limiter[c] /\ limiter[c] # None
    BY <2>1 DEF Asking, LimitIInv, LimiterOfItsAddress
  <2> QED BY <2>1, <2>2 DEF Asking
<1>4. ASSUME NEW c \in Calls, Allow(c) PROVE Bucket!Take(c)
  <2>1. ASSUME NEW a \in Addresses, a # Client[c] PROVE held(a)' = held(a)
    <3>1. clients[a] # None => clients[a] # limiter[c]
      BY <1>3, <1>4, <2>1 DEF LimitIInv, LimiterOfItsAddress
    <3> QED BY <1>4, <3>1 DEF Allow
  <2>2. held(Client[c])' = tokens[limiter[c]] - 1 /\ tokens[limiter[c]] > 0
    <3>1. /\ clients' = clients /\ clients[Client[c]] = limiter[c] /\ limiter[c] # None
          /\ tokens[limiter[c]] > 0 /\ tokens'[limiter[c]] = tokens[limiter[c]] - 1
      BY <1>3, <1>4 DEF Allow
    <3> QED BY <3>1
  <2>3. bucket' = [bucket EXCEPT ![Client[c]] = @ - 1]
    BY <1>3, <1>4, <2>1, <2>2
  <2>4. answer' = [answer EXCEPT ![c] = "passed"]
    <3>1. /\ passed' = [passed EXCEPT ![c] = time] /\ refused' = refused
          /\ time # NotYet /\ refused[c] = NotYet /\ DOMAIN passed = Calls
      BY <1>4 DEF Allow, Asking, NotYet, LimitIInv, LimitTypeOK
    <3>2. \A d \in Calls : told(d)' = IF d = c THEN "passed" ELSE told(d)
      BY <3>1
    <3>3. answer' = [d \in Calls |-> IF d = c THEN "passed" ELSE told(d)]
      BY <3>2
    <3> HIDE DEF told
    <3> QED BY <3>3
  <2> QED BY <1>3, <1>4, <2>2, <2>3, <2>4 DEF Bucket!Take
<1>5. ASSUME NEW c \in Calls, Refuse(c) PROVE Bucket!Refuse(c)
  <2>1. tokens[limiter[c]] = 0
    BY <1>5 DEF Refuse
  <2>2. bucket' = bucket
    BY <1>5 DEF Refuse
  <2>3. answer' = [answer EXCEPT ![c] = "refused"]
    <3>1. /\ refused' = [refused EXCEPT ![c] = time] /\ passed' = passed
          /\ time # NotYet /\ passed[c] = NotYet /\ DOMAIN refused = Calls
      BY <1>5 DEF Refuse, Asking, NotYet, LimitIInv, LimitTypeOK
    <3>2. \A d \in Calls : told(d)' = IF d = c THEN "refused" ELSE told(d)
      BY <3>1
    <3>3. answer' = [d \in Calls |-> IF d = c THEN "refused" ELSE told(d)]
      BY <3>2
    <3> HIDE DEF told
    <3> QED BY <3>3
  <2> QED BY <1>3, <1>5, <2>1, <2>2, <2>3 DEF Bucket!Refuse
<1>6. CASE UNCHANGED limitVars
  BY <1>6 DEF limitVars, Bucket!vars
<1> QED BY <1>1, <1>2, <1>4, <1>5, <1>6 DEF LimitNext, Bucket!Next

\* The map, its lock and the calls that race for a limiter implement one atomic
\* bucket for each address, for any clients, rate and burst.
THEOREM AtomicBuckets == LimitSpec => OneBucketEach
  BY BucketInit, BucketStep, LimitInvariance, PTL DEF LimitSpec, OneBucketEach, Bucket!Spec

-----------------------------------------------------------------------------
(* Numbers: induction without operator parameters, recursion, the maximum *)

\* Numbers are ordered as the intervals 0..n are, and finite sets are well
\* founded: this gives induction a set T of numbers as its hypothesis, where
\* the library's theorems want an operator.
LEMMA LeastNumber ==
    ASSUME NEW T, T \subseteq Nat, T # {}
    PROVE  \E n \in T : \A m \in T : n <= m
<1> DEFINE Below == {0..n : n \in T}
<1>1. Below \subseteq FiniteSubsetsOf(Nat) /\ Below # {}
  <2>1. ASSUME NEW n \in T PROVE 0..n \subseteq Nat /\ IsFiniteSet(0..n)
    BY FS_Interval
  <2> QED BY <2>1 DEF FiniteSubsetsOf
<1>2. PICK n \in T : \A m \in T : ~(<<0..m, 0..n>> \in StrictSubsetOrdering(Nat))
  <2>1. \E S \in Below : \A U \in Below : ~(<<U, S>> \in StrictSubsetOrdering(Nat))
    <3> HIDE DEF Below
    <3> QED BY <1>1, FS_StrictSubsetOrderingWellFounded, WFMin
  <2> QED BY <2>1
<1>3. ASSUME NEW m \in T, m < n PROVE FALSE
  <2>1. 0..m \subseteq 0..n /\ 0..m # 0..n /\ 0..m \subseteq Nat /\ 0..n \subseteq Nat
    BY <1>3
  <2>2. <<0..m, 0..n>> \in StrictSubsetOrdering(Nat)
    BY <2>1 DEF StrictSubsetOrdering
  <2> QED BY <1>2, <2>2
<1> QED BY <1>3

LEMMA Induction ==
    ASSUME NEW T, 0 \in T, \A n \in Nat : n \in T => n + 1 \in T
    PROVE  \A n \in Nat : n \in T
<1> SUFFICES ASSUME Nat \ T # {} PROVE FALSE
  OBVIOUS
<1>1. PICK n \in Nat \ T : \A m \in Nat \ T : n <= m
  BY LeastNumber
<1>2. n - 1 \in Nat /\ n - 1 \in T
  BY <1>1
<1> QED BY <1>1, <1>2

\* Any element and any step have a sequence: what the definition of a
\* recursive function needs to define something.
LEMMA SequenceExists ==
    ASSUME NEW D, NEW z \in D, NEW G \in [D -> D]
    PROVE  \E f \in [Nat -> D] : f[0] = z /\ \A n \in Nat : f[n + 1] = G[f[n]]
<1> DEFINE Upto(n) == {f \in [0..n -> D] : f[0] = z /\ \A i \in 0..(n - 1) : f[i + 1] = G[f[i]]}
<1>1. \A n \in Nat : Upto(n) # {}
  <2> DEFINE T == {n \in Nat : Upto(n) # {}}
  <2>1. 0 \in T
    <3>1. [i \in 0..0 |-> z] \in Upto(0)
      OBVIOUS
    <3> QED BY <3>1
  <2>2. ASSUME NEW n \in Nat, n \in T PROVE n + 1 \in T
    <3>1. PICK f : f \in Upto(n)
      BY <2>2
    <3>2. [i \in 0..(n + 1) |-> IF i = n + 1 THEN G[f[n]] ELSE f[i]] \in Upto(n + 1)
      BY <3>1
    <3> QED BY <3>2
  <2> HIDE DEF T
  <2>3. \A n \in Nat : n \in T
    BY <2>1, <2>2, Induction
  <2> QED BY <2>3 DEF T
<1>2. ASSUME NEW n \in Nat, NEW f \in Upto(n), NEW g \in Upto(n + 1)
      PROVE  \A i \in 0..n : f[i] = g[i]
  <2> DEFINE T == {i \in Nat : i <= n => f[i] = g[i]}
  <2>1. 0 \in T
    OBVIOUS
  <2>2. ASSUME NEW i \in Nat, i \in T PROVE i + 1 \in T
    <3> SUFFICES ASSUME i + 1 <= n PROVE f[i + 1] = g[i + 1]
      OBVIOUS
    <3>1. i \in 0..(n - 1) /\ i \in 0..n /\ f[i] = g[i]
      BY <2>2
    <3>2. f[i + 1] = G[f[i]] /\ g[i + 1] = G[g[i]]
      BY <3>1
    <3> QED BY <3>1, <3>2
  <2>3. \A i \in Nat : i \in T
    <3> HIDE DEF T
    <3> QED BY <2>1, <2>2, Induction
  <2> QED BY <2>3
<1> DEFINE F == [n \in Nat |-> CHOOSE f : f \in Upto(n)]
<1>3. ASSUME NEW n \in Nat PROVE F[n] \in Upto(n)
  BY <1>1
<1> DEFINE h == [n \in Nat |-> F[n][n]]
<1>4. h \in [Nat -> D] /\ h[0] = z
  <2>1. ASSUME NEW n \in Nat PROVE F[n][n] \in D /\ F[0][0] = z
    <3> HIDE DEF F
    <3> QED BY <1>3
  <2> QED BY <2>1
<1>5. ASSUME NEW n \in Nat PROVE h[n + 1] = G[h[n]]
  <2> HIDE DEF F
  <2>1. F[n] \in Upto(n) /\ F[n + 1] \in Upto(n + 1)
    BY <1>3
  <2>2. F[n + 1][n] = F[n][n]
    <3> HIDE DEF Upto
    <3> QED BY <1>2, <2>1
  <2>3. F[n + 1][n + 1] = G[F[n + 1][n]]
    BY <2>1
  <2> QED BY <2>2, <2>3
<1> QED BY <1>4, <1>5

\* A finite set of numbers is bounded, and has a greatest element.
LEMMA FiniteIsBounded ==
    ASSUME NEW S, S \subseteq Nat, IsFiniteSet(S)
    PROVE  \E n \in Nat : \A x \in S : x <= n
<1> DEFINE Bounded(A) == \E n \in Nat : \A x \in A : x <= n
           T == {A \in SUBSET S : ~Bounded(A)}
<1> SUFFICES ASSUME T # {} PROVE FALSE
  OBVIOUS
<1>1. T \subseteq FiniteSubsetsOf(S)
  <2>1. \A A \in SUBSET S : IsFiniteSet(A)
    BY FS_Subset
  <2> QED BY <2>1 DEF FiniteSubsetsOf
<1>2. PICK A \in T : \A B \in T : ~(<<B, A>> \in StrictSubsetOrdering(S))
  <2> HIDE DEF T
  <2> QED BY <1>1, FS_StrictSubsetOrderingWellFounded, WFMin
<1>3. A \subseteq Nat /\ ~Bounded(A) /\ A \in SUBSET S
  OBVIOUS
<1>4. PICK x \in A : TRUE
  BY <1>3
<1>5. <<A \ {x}, A>> \in StrictSubsetOrdering(S)
  BY <1>3, <1>4 DEF StrictSubsetOrdering
<1>6. PICK n \in Nat : \A y \in A \ {x} : y <= n
  <2>1. A \ {x} \notin T
    BY <1>2, <1>5
  <2>2. Bounded(A \ {x})
    BY <1>3, <2>1
  <2> QED BY <2>2
<1>7. n + x \in Nat /\ \A y \in A : y <= n + x
  BY <1>3, <1>4, <1>6
<1> QED BY <1>3, <1>7

LEMMA MaxOfNumbers ==
    ASSUME NEW S, S \subseteq Nat, IsFiniteSet(S), S # {}
    PROVE  Max(S) \in S /\ \A x \in S : x <= Max(S)
<1> DEFINE B == {n \in Nat : \A x \in S : x <= n}
<1>1. B \subseteq Nat /\ B # {}
  BY FiniteIsBounded
<1>2. PICK n \in B : \A m \in B : n <= m
  <2> HIDE DEF B
  <2> QED BY <1>1, LeastNumber
<1>3. n \in S
  <2> SUFFICES ASSUME n \notin S PROVE FALSE
    OBVIOUS
  <2>1. \A x \in S : x \in Nat /\ x < n
    BY <1>2
  <2>2. n - 1 \in Nat /\ \A x \in S : x <= n - 1
    <3>1. PICK x \in S : TRUE
      OBVIOUS
    <3> QED BY <2>1, <3>1
  <2> QED BY <1>2, <2>2
<1>4. \E x \in S : \A y \in S : x >= y
  BY <1>2, <1>3
<1> QED BY <1>4 DEF Max

-----------------------------------------------------------------------------
(* Trace *)

LEMMA TraceInvInit == TraceInit => TraceTypeOK /\ SpansAreOfTheTraceNamed
<1> SUFFICES ASSUME TraceInit PROVE TraceTypeOK /\ SpansAreOfTheTraceNamed
  OBVIOUS
<1>1. TraceTypeOK
  BY TraceAssumption DEF TraceInit, TraceTypeOK, NothingStored
<1>2. SpansAreOfTheTraceNamed
  BY DEF TraceInit, SpansAreOfTheTraceNamed, NothingStored
<1> QED BY <1>1, <1>2

LEMMA TraceInvStep ==
    TraceTypeOK /\ SpansAreOfTheTraceNamed /\ [TraceNext]_traceVars
       => TraceTypeOK' /\ SpansAreOfTheTraceNamed'
<1> SUFFICES ASSUME TraceTypeOK, SpansAreOfTheTraceNamed, [TraceNext]_traceVars
             PROVE  TraceTypeOK' /\ SpansAreOfTheTraceNamed'
  OBVIOUS
<1> USE DEF TraceTypeOK, SpansAreOfTheTraceNamed
<1>1. ASSUME NEW s \in Spans, InsertSpan(s) \/ CleanupSpans(Start[s])
      PROVE  TraceTypeOK' /\ SpansAreOfTheTraceNamed'
  <2>1. CASE InsertSpan(s)
    BY <2>1 DEF InsertSpan
  <2>2. CASE CleanupSpans(Start[s])
    BY <2>2 DEF CleanupSpans
  <2> QED BY <1>1, <2>1, <2>2
<1>2. ASSUME NEW id \in Traces, Load(id)
      PROVE  TraceTypeOK' /\ SpansAreOfTheTraceNamed'
  BY <1>2 DEF Load
<1>3. ASSUME NEW id \in Traces, Render(id)
      PROVE  TraceTypeOK' /\ SpansAreOfTheTraceNamed'
  <2>1. /\ UNCHANGED <<parent, rows, field>> /\ loading' \subseteq Traces
        /\ view'.id = id /\ view'.rows = OfTrace(id)
    BY <1>3 DEF Render
  <2>2. /\ OfTrace(id) \in [Spans -> {0, 1}]
        /\ \A s \in Spans : OfTrace(id)[s] > 0 => TraceOf[s] = id
    BY DEF OfTrace
  <2> QED BY <2>1, <2>2
<1>4. CASE UNCHANGED traceVars
  BY <1>4 DEF traceVars
<1> QED BY <1>1, <1>2, <1>3, <1>4 DEF TraceNext

LEMMA TraceInvariance == TraceSpec => [](TraceTypeOK /\ SpansAreOfTheTraceNamed)
  BY TraceInvInit, TraceInvStep, PTL DEF TraceSpec

\* A span has one row at most, in the table and in view.
THEOREM TraceTypes == TraceSpec => []TraceTypeOK
  BY TraceInvariance, PTL

\* Whatever requests overtake each other, the spans in view are those of the
\* trace that is named above them.
THEOREM SpansOfTheirTrace == TraceSpec => []SpansAreOfTheTraceNamed
  BY TraceInvariance, PTL

\* Rendered is well defined: each depth takes the one above it on.
LEMMA RenderedUnfolds ==
    ASSUME TraceTypeOK
    PROVE  /\ Rendered \in [Nat -> [Spans -> Nat]]
           /\ Rendered = [d \in Nat |->
                 [s \in Spans |-> IF IsRoot(s) THEN view.rows[s]
                                  ELSE IF d = 0 THEN 0
                                  ELSE view.rows[s] * Rendered[d - 1][parent[s]]]]
<1> DEFINE D == [Spans -> Nat]
           z == [s \in Spans |-> IF IsRoot(s) THEN view.rows[s] ELSE 0]
           G == [r \in D |->
                   [s \in Spans |-> IF IsRoot(s) THEN view.rows[s]
                                    ELSE view.rows[s] * r[parent[s]]]]
           Unfolds(f) == f = [d \in Nat |->
                 [s \in Spans |-> IF IsRoot(s) THEN view.rows[s]
                                  ELSE IF d = 0 THEN 0
                                  ELSE view.rows[s] * f[d - 1][parent[s]]]]
<1>1. \A s \in Spans : /\ view.rows[s] \in {0, 1}
                       /\ ~IsRoot(s) => parent[s] \in Spans
  BY DEF TraceTypeOK, IsRoot
<1>m. \A a \in {0, 1}, b \in Nat : a * b \in Nat
  OBVIOUS
<1>2. z \in D
  BY <1>1
<1>3. G \in [D -> D]
  <2>1. ASSUME NEW r \in D, NEW s \in Spans, ~IsRoot(s)
        PROVE  view.rows[s] * r[parent[s]] \in Nat
    BY <1>1, <1>m, <2>1
  <2> QED BY <1>1, <2>1
<1>4. PICK f \in [Nat -> D] : f[0] = z /\ \A n \in Nat : f[n + 1] = G[f[n]]
  <2> HIDE DEF D, z, G
  <2> QED BY <1>2, <1>3, SequenceExists
<1>5. \A d \in Nat : f[d] = [s \in Spans |-> IF IsRoot(s) THEN view.rows[s]
                                  ELSE IF d = 0 THEN 0
                                  ELSE view.rows[s] * f[d - 1][parent[s]]]
  <2> SUFFICES ASSUME NEW d \in Nat
      PROVE f[d] = [s \in Spans |-> IF IsRoot(s) THEN view.rows[s]
                                  ELSE IF d = 0 THEN 0
                                  ELSE view.rows[s] * f[d - 1][parent[s]]]
    OBVIOUS
  <2>1. CASE d = 0
    BY <1>4, <2>1
  <2>2. CASE d # 0
    <3>1. d - 1 \in Nat /\ (d - 1) + 1 = d
      BY <2>2
    <3>2. f[d - 1] \in D /\ f[d] = G[f[d - 1]]
      <4> HIDE DEF D, G
      <4> QED BY <1>4, <3>1
    <3>3. G[f[d - 1]] = [s \in Spans |-> IF IsRoot(s) THEN view.rows[s]
                                         ELSE view.rows[s] * f[d - 1][parent[s]]]
      BY <3>2
    <3> HIDE DEF G
    <3> QED BY <2>2, <3>2, <3>3
  <2> QED BY <2>1, <2>2
<1>6. Unfolds(f)
  BY <1>5
<1>7. Unfolds(Rendered)
  <2>1. Rendered = CHOOSE g : Unfolds(g)
    BY Zenon DEF Rendered
  <2> HIDE DEF Unfolds
  <2>2. \E g : Unfolds(g)
    BY <1>6
  <2> QED BY <2>1, <2>2, Zenon
<1>8. \A n \in Nat : Rendered[n] \in [Spans -> Nat]
  <2> DEFINE T == {n \in Nat : Rendered[n] \in [Spans -> Nat]}
  <2>1. 0 \in T
    BY <1>1, <1>7
  <2>2. ASSUME NEW n \in Nat, n \in T PROVE n + 1 \in T
    <3>1. /\ n + 1 \in Nat /\ n + 1 # 0 /\ (n + 1) - 1 = n
          /\ Rendered[n] \in [Spans -> Nat]
      BY <2>2
    <3>2. Rendered[n + 1] = [s \in Spans |-> IF IsRoot(s) THEN view.rows[s]
                                             ELSE view.rows[s] * Rendered[n][parent[s]]]
      BY <1>7, <3>1
    <3>3. ASSUME NEW s \in Spans, ~IsRoot(s)
          PROVE  view.rows[s] * Rendered[n][parent[s]] \in Nat
      BY <1>1, <1>m, <3>1, <3>3
    <3>4. \A s \in Spans : Rendered[n + 1][s] \in Nat
      BY <1>1, <3>2, <3>3
    <3> QED BY <3>1, <3>2, <3>4
  <2>3. \A n \in Nat : n \in T
    <3> HIDE DEF T
    <3> QED BY <2>1, <2>2, Induction
  <2> QED BY <2>3
<1> QED BY <1>7, <1>8

\* So are the ancestors, which do not leave the spans.
LEMMA AncestorsUnfold ==
    ASSUME TraceTypeOK
    PROVE  \A s \in Spans :
              /\ Ancestors[0][s] = s
              /\ \A n \in Nat :
                    /\ Ancestors[n][s] \in Spans \cup {NoParent}
                    /\ Ancestors[n + 1][s] = IF IsRoot(s) THEN NoParent ELSE Ancestors[n][parent[s]]
<1> DEFINE D == [Spans -> Spans \cup {NoParent}]
           z == [s \in Spans |-> s]
           G == [r \in D |-> [s \in Spans |-> IF IsRoot(s) THEN NoParent ELSE r[parent[s]]]]
           Unfolds(f) == f = [d \in Nat |->
                 [s \in Spans |-> IF d = 0 THEN s
                                  ELSE IF parent[s] = NoParent THEN NoParent
                                  ELSE IF view.rows[parent[s]] = 0 THEN NoParent
                                  ELSE f[d - 1][parent[s]]]]
<1>1. \A s \in Spans : ~IsRoot(s) => parent[s] \in Spans
  BY DEF TraceTypeOK, IsRoot
<1>2. z \in D /\ G \in [D -> D]
  BY <1>1
<1>3. PICK f \in [Nat -> D] : f[0] = z /\ \A n \in Nat : f[n + 1] = G[f[n]]
  <2> HIDE DEF D, z, G
  <2> QED BY <1>2, SequenceExists
<1>4. \A d \in Nat : f[d] = [s \in Spans |-> IF d = 0 THEN s
                                  ELSE IF parent[s] = NoParent THEN NoParent
                                  ELSE IF view.rows[parent[s]] = 0 THEN NoParent
                                  ELSE f[d - 1][parent[s]]]
  <2> SUFFICES ASSUME NEW d \in Nat
      PROVE f[d] = [s \in Spans |-> IF d = 0 THEN s
                                  ELSE IF parent[s] = NoParent THEN NoParent
                                  ELSE IF view.rows[parent[s]] = 0 THEN NoParent
                                  ELSE f[d - 1][parent[s]]]
    OBVIOUS
  <2>1. CASE d = 0
    BY <1>3, <2>1
  <2>2. CASE d # 0
    <3>1. d - 1 \in Nat /\ (d - 1) + 1 = d
      BY <2>2
    <3>2. f[d - 1] \in D /\ f[d] = G[f[d - 1]]
      <4> HIDE DEF D, G
      <4> QED BY <1>3, <3>1
    <3>3. G[f[d - 1]] = [s \in Spans |-> IF IsRoot(s) THEN NoParent ELSE f[d - 1][parent[s]]]
      BY <3>2
    <3> HIDE DEF G
    <3> QED BY <2>2, <3>2, <3>3 DEF IsRoot
  <2> QED BY <2>1, <2>2
<1>5. Unfolds(Ancestors)
  <2>1. Ancestors = CHOOSE g : Unfolds(g)
    BY Zenon DEF Ancestors
  <2>2. \E g : Unfolds(g)
    BY <1>4
  <2> HIDE DEF Unfolds
  <2> QED BY <2>1, <2>2, Zenon
<1>6. \A s \in Spans : /\ Ancestors[0][s] = s
                       /\ \A n \in Nat : Ancestors[n + 1][s] =
                             IF IsRoot(s) THEN NoParent ELSE Ancestors[n][parent[s]]
  <2>1. ASSUME NEW s \in Spans PROVE Ancestors[0][s] = s
    BY <1>5
  <2>2. ASSUME NEW s \in Spans, NEW n \in Nat
        PROVE  Ancestors[n + 1][s] = IF IsRoot(s) THEN NoParent ELSE Ancestors[n][parent[s]]
    <3>1. n + 1 \in Nat /\ n + 1 # 0 /\ (n + 1) - 1 = n
      OBVIOUS
    <3>2. Ancestors[n + 1] = [t \in Spans |-> IF parent[t] = NoParent THEN NoParent
                                              ELSE IF view.rows[parent[t]] = 0 THEN NoParent
                                              ELSE Ancestors[n][parent[t]]]
      BY <1>5, <3>1
    <3> QED BY <3>2 DEF IsRoot
  <2> QED BY <2>1, <2>2
<1>7. \A n \in Nat : \A s \in Spans : Ancestors[n][s] \in Spans \cup {NoParent}
  <2> DEFINE T == {n \in Nat : \A s \in Spans : Ancestors[n][s] \in Spans \cup {NoParent}}
  <2>1. 0 \in T
    BY <1>6
  <2>2. ASSUME NEW n \in Nat, n \in T PROVE n + 1 \in T
    <3>1. ASSUME NEW s \in Spans PROVE Ancestors[n + 1][s] \in Spans \cup {NoParent}
      BY <1>1, <1>6, <2>2
    <3> QED BY <3>1
  <2>3. \A n \in Nat : n \in T
    <3> HIDE DEF T
    <3> QED BY <2>1, <2>2, Induction
  <2> QED BY <2>3
<1> QED BY <1>6, <1>7

\* The next ancestor is the parent of the last.
LEMMA NextAncestor ==
    ASSUME TraceTypeOK
    PROVE  \A n \in Nat : \A s \in Spans :
              Ancestors[n + 1][s] = IF Ancestors[n][s] = NoParent \/ IsRoot(Ancestors[n][s])
                                    THEN NoParent ELSE parent[Ancestors[n][s]]
<1> DEFINE Step(n, s) ==
              Ancestors[n + 1][s] = IF Ancestors[n][s] = NoParent \/ IsRoot(Ancestors[n][s])
                                    THEN NoParent ELSE parent[Ancestors[n][s]]
           T == {n \in Nat : \A s \in Spans : Step(n, s)}
<1>0. NoParent \notin Spans /\ \A s \in Spans : ~IsRoot(s) => parent[s] \in Spans
  BY TraceAssumption DEF TraceTypeOK, IsRoot
<1>1. 0 \in T
  <2>1. ASSUME NEW s \in Spans PROVE Step(0, s)
    <3>1. Ancestors[0][s] = s /\ s # NoParent
      BY <1>0, AncestorsUnfold
    <3>2. Ancestors[0 + 1][s] = IF IsRoot(s) THEN NoParent ELSE Ancestors[0][parent[s]]
      BY AncestorsUnfold
    <3>3. ~IsRoot(s) => Ancestors[0][parent[s]] = parent[s]
      BY <1>0, AncestorsUnfold
    <3> QED BY <3>1, <3>2, <3>3
  <2> HIDE DEF Step
  <2> QED BY <2>1
<1>2. ASSUME NEW n \in Nat, n \in T PROVE n + 1 \in T
  <2>1. ASSUME NEW s \in Spans, IsRoot(s) PROVE Step(n + 1, s)
    <3>1. Ancestors[n + 1][s] = NoParent /\ Ancestors[(n + 1) + 1][s] = NoParent
      BY <2>1, AncestorsUnfold
    <3> QED BY <3>1
  <2>2. ASSUME NEW s \in Spans, ~IsRoot(s) PROVE Step(n + 1, s)
    <3>1. parent[s] \in Spans /\ Step(n, parent[s])
      BY <1>0, <1>2, <2>2
    <3>2. /\ Ancestors[n + 1][s] = Ancestors[n][parent[s]]
          /\ Ancestors[(n + 1) + 1][s] = Ancestors[n + 1][parent[s]]
      BY <2>2, AncestorsUnfold
    <3> QED BY <3>1, <3>2
  <2> HIDE DEF Step
  <2> QED BY <2>1, <2>2
<1>3. \A n \in Nat : n \in T
  <2> HIDE DEF T
  <2> QED BY <1>1, <1>2, Induction
<1> QED BY <1>3

\* The way up from s ends at a root after k steps.
RootAbove(s, k) == Ancestors[k][s] # NoParent /\ IsRoot(Ancestors[k][s])

\* A span in view is rendered once as soon as its root is within reach.
LEMMA RenderedBelowRoot ==
    ASSUME TraceTypeOK
    PROVE  \A n \in Nat : \A s \in Spans : view.rows[s] > 0 =>
              Rendered[n][s] = IF \E k \in 0..n : RootAbove(s, k) THEN 1 ELSE 0
<1> DEFINE Once(n, s) == view.rows[s] > 0 =>
              Rendered[n][s] = IF \E k \in 0..n : RootAbove(s, k) THEN 1 ELSE 0
           T == {n \in Nat : \A s \in Spans : Once(n, s)}
<1>0. ASSUME NEW s \in Spans
      PROVE  /\ view.rows[s] > 0 => view.rows[s] = 1
             /\ ~IsRoot(s) => parent[s] \in Spans /\ view.rows[parent[s]] > 0
             /\ s # NoParent
  BY TraceAssumption DEF TraceTypeOK, IsRoot
<1>1. ASSUME NEW s \in Spans
      PROVE  RootAbove(s, 0) <=> IsRoot(s)
  BY <1>0, AncestorsUnfold DEF RootAbove
<1>2. 0 \in T
  <2>1. ASSUME NEW s \in Spans, view.rows[s] > 0
        PROVE  Rendered[0][s] = IF \E k \in 0..0 : RootAbove(s, k) THEN 1 ELSE 0
    <3>1. Rendered[0] = [t \in Spans |-> IF IsRoot(t) THEN view.rows[t] ELSE 0]
      BY RenderedUnfolds
    <3>2. (\E k \in 0..0 : RootAbove(s, k)) <=> IsRoot(s)
      BY <1>1
    <3> QED BY <1>0, <2>1, <3>1, <3>2
  <2> QED BY <2>1
<1>3. ASSUME NEW n \in Nat, n \in T PROVE n + 1 \in T
  <2>1. ASSUME NEW s \in Spans, view.rows[s] > 0
        PROVE  Rendered[n + 1][s] = IF \E k \in 0..(n + 1) : RootAbove(s, k) THEN 1 ELSE 0
    <3>1. n + 1 \in Nat /\ n + 1 # 0 /\ (n + 1) - 1 = n
      OBVIOUS
    <3>2. Rendered[n + 1] = [t \in Spans |-> IF IsRoot(t) THEN view.rows[t]
                                             ELSE view.rows[t] * Rendered[n][parent[t]]]
      BY <3>1, RenderedUnfolds
    <3>3. CASE IsRoot(s)
      <4>1. RootAbove(s, 0) /\ 0 \in 0..(n + 1)
        BY <1>1, <3>3
      <4>2. Rendered[n + 1][s] = 1
        BY <1>0, <2>1, <3>2, <3>3
      <4> QED BY <4>1, <4>2
    <3>4. CASE ~IsRoot(s)
      <4>1. \A k \in Nat : RootAbove(s, k + 1) <=> RootAbove(parent[s], k)
        BY <3>4, AncestorsUnfold DEF RootAbove
      <4>2. (\E k \in 0..(n + 1) : RootAbove(s, k)) <=> \E k \in 0..n : RootAbove(parent[s], k)
        <5>1. ASSUME NEW k \in 0..(n + 1), RootAbove(s, k)
              PROVE  \E j \in 0..n : RootAbove(parent[s], j)
          <6>1. k # 0
            BY <1>1, <3>4, <5>1
          <6>2. k - 1 \in 0..n /\ k - 1 \in Nat /\ (k - 1) + 1 = k
            BY <6>1
          <6>3. RootAbove(parent[s], k - 1)
            BY <4>1, <5>1, <6>2
          <6> QED BY <6>2, <6>3
        <5>2. ASSUME NEW k \in 0..n, RootAbove(parent[s], k)
              PROVE  \E j \in 0..(n + 1) : RootAbove(s, j)
          <6>1. k + 1 \in 0..(n + 1) /\ RootAbove(s, k + 1)
            BY <4>1, <5>2
          <6> QED BY <6>1
        <5> QED BY <5>1, <5>2
      <4>3. Rendered[n][parent[s]] = IF \E k \in 0..n : RootAbove(parent[s], k) THEN 1 ELSE 0
        BY <1>0, <1>3, <3>4
      <4>4. Rendered[n + 1][s] = Rendered[n][parent[s]]
        BY <1>0, <2>1, <3>2, <3>4, <4>3
      <4> QED BY <4>2, <4>3, <4>4
    <3> QED BY <3>3, <3>4
  <2> QED BY <2>1
<1>4. \A n \in Nat : n \in T
  <2> HIDE DEF T
  <2> QED BY <1>2, <1>3, Induction
<1> QED BY <1>4

\* A way up that has no end among Cardinality(Spans) steps comes back.
LEMMA EndlessIsCircular ==
    ASSUME TraceTypeOK, NEW s \in Spans, \A k \in 0..Cardinality(Spans) : ~RootAbove(s, k)
    PROVE  Circular(s)
<1> DEFINE N == Cardinality(Spans)
<1>0. IsFiniteSet(Spans) /\ N \in Nat /\ NoParent \notin Spans
  BY TraceAssumption, FS_CardinalityType
<1> DEFINE T == {k \in Nat : k <= N => Ancestors[k][s] \in Spans}
<1> HIDE DEF N
<1>1. 0 \in T
  BY AncestorsUnfold
<1>2. ASSUME NEW k \in Nat, k \in T PROVE k + 1 \in T
  <2> SUFFICES ASSUME k + 1 <= N PROVE Ancestors[k + 1][s] \in Spans
    OBVIOUS
  <2>1. Ancestors[k][s] \in Spans /\ k \in 0..N
    BY <1>0, <1>2
  <2>2. ~IsRoot(Ancestors[k][s])
    BY <1>0, <2>1 DEF RootAbove, N
  <2>3. Ancestors[k + 1][s] = parent[Ancestors[k][s]]
    BY <1>0, <2>1, <2>2, NextAncestor
  <2> QED BY <2>1, <2>2, <2>3 DEF TraceTypeOK, IsRoot
<1>3. \A k \in Nat : k \in T
  <2> HIDE DEF T
  <2> QED BY <1>1, <1>2, Induction
<1> DEFINE f == [k \in 0..N |-> Ancestors[k][s]]
<1>4. f \in [0..N -> Spans]
  BY <1>0, <1>3
<1>5. IsFiniteSet(0..N) /\ Cardinality(0..N) = N + 1
  BY <1>0, FS_Interval
<1>6. PICK x, y \in 0..N : x # y /\ f[x] = f[y]
  <2>1. Cardinality(Spans) < Cardinality(0..N)
    BY <1>0, <1>5 DEF N
  <2> HIDE DEF f
  <2> QED BY <1>0, <1>4, <1>5, <2>1, FS_PigeonHole
<1>7. Ancestors[x][s] = Ancestors[y][s] /\ Ancestors[y][s] # NoParent /\ Ancestors[x][s] # NoParent
  BY <1>0, <1>4, <1>6
<1> QED BY <1>0, <1>6, <1>7 DEF Circular, N

\* A way up that comes back has no end.
LEMMA CircularIsEndless ==
    ASSUME TraceTypeOK, NEW s \in Spans, Circular(s), NEW k \in Nat
    PROVE  ~RootAbove(s, k)
<1> SUFFICES ASSUME RootAbove(s, k) PROVE FALSE
  OBVIOUS
<1>0. Cardinality(Spans) \in Nat /\ NoParent \notin Spans
  BY TraceAssumption, FS_CardinalityType
<1> DEFINE Ended == {j \in Nat : Ancestors[j][s] = NoParent}
<1>1. k + 1 \in Ended
  BY NextAncestor DEF RootAbove
<1>2. PICK e \in Ended : \A j \in Ended : e <= j
  <2>1. Ended \subseteq Nat /\ Ended # {}
    BY <1>1
  <2> HIDE DEF Ended
  <2> QED BY <2>1, LeastNumber
<1>3. PICK m, n \in 0..Cardinality(Spans) :
         m < n /\ Ancestors[m][s] = Ancestors[n][s] /\ Ancestors[n][s] # NoParent
  BY DEF Circular
<1>4. n < e
  <2> DEFINE T == {j \in Nat : Ancestors[e + j][s] = NoParent}
  <2>1. 0 \in T
    OBVIOUS
  <2>2. ASSUME NEW j \in Nat, j \in T PROVE j + 1 \in T
    <3>1. e + j \in Nat /\ (e + j) + 1 = e + (j + 1) /\ Ancestors[e + j][s] = NoParent
      BY <2>2
    <3>2. Ancestors[(e + j) + 1][s] = NoParent
      BY <3>1, NextAncestor
    <3> QED BY <3>1, <3>2
  <2>3. \A j \in Nat : j \in T
    <3> HIDE DEF T
    <3> QED BY <2>1, <2>2, Induction
  <2>4. CASE e <= n
    <3>1. n - e \in Nat /\ e + (n - e) = n
      BY <1>0, <2>4
    <3>2. n - e \in T
      BY <2>3, <3>1
    <3> QED BY <1>3, <3>1, <3>2
  <2> QED BY <1>0, <2>4
<1> DEFINE T == {j \in Nat : Ancestors[m + j][s] = Ancestors[n + j][s]}
<1>5. \A j \in Nat : j \in T
  <2>1. 0 \in T
    BY <1>0, <1>3
  <2>2. ASSUME NEW j \in Nat, j \in T PROVE j + 1 \in T
    <3>1. /\ m + j \in Nat /\ n + j \in Nat
          /\ (m + j) + 1 = m + (j + 1) /\ (n + j) + 1 = n + (j + 1)
          /\ Ancestors[m + j][s] = Ancestors[n + j][s]
      BY <1>0, <2>2
    <3>2. Ancestors[(m + j) + 1][s] = Ancestors[(n + j) + 1][s]
      BY <3>1, NextAncestor
    <3> QED BY <3>1, <3>2
  <2> HIDE DEF T
  <2> QED BY <2>1, <2>2, Induction
<1>6. /\ e - n \in Nat /\ n + (e - n) = e /\ m + (e - n) \in Nat /\ m + (e - n) < e
  BY <1>0, <1>3, <1>4
<1>7. e - n \in T
  BY <1>5, <1>6
<1>8. m + (e - n) \in Ended
  BY <1>2, <1>6, <1>7
<1> QED BY <1>2, <1>6, <1>8

LEMMA EachShownOnce == TraceTypeOK => ShownOnce
<1> SUFFICES ASSUME TraceTypeOK, NEW s \in Spans, view.rows[s] > 0
             PROVE  Renderings(s) = IF Circular(s) THEN 0 ELSE 1
  BY DEF ShownOnce
<1>1. Cardinality(Spans) \in Nat
  BY TraceAssumption, FS_CardinalityType
<1>2. Renderings(s) = IF \E k \in 0..Cardinality(Spans) : RootAbove(s, k) THEN 1 ELSE 0
  BY <1>1, RenderedBelowRoot DEF Renderings
<1>3. (\E k \in 0..Cardinality(Spans) : RootAbove(s, k)) <=> ~Circular(s)
  BY <1>1, EndlessIsCircular, CircularIsEndless
<1> QED BY <1>2, <1>3

\* Every span in view is on the screen exactly once, whichever of its ancestors
\* are missing, and only those whose way up is circular are not; for any number
\* of spans and any parents they name.
THEOREM SpanShownOnce == TraceSpec => []ShownOnce
  BY TraceInvariance, EachShownOnce, PTL

-----------------------------------------------------------------------------
(* ServerList *)

\* What is on its way, and what the browser shows, was inserted; and only
\* finitely many rows ever are.
ShownWasInserted ==
    /\ IsFiniteSet(inserted) /\ IsFiniteSet(answers)
    /\ push \cup answers \subseteq SUBSET inserted
    /\ \A s \in Services : servers[s] \subseteq inserted

\* Unless a query ran while another result was under way, there is but one
\* result, and nothing the browser shows and the table still has is newer.
OneResultUnderWay ==
    ~crossed => /\ push = {} \/ answers = {}
                /\ \A p, q \in push \cup answers : p = q
                /\ \A rs \in push \cup answers : \A s \in Services :
                      \A r \in servers[s] \cap table :
                         \E q \in rs : Service[q] = s /\ Written[q] >= Written[r]

\* An entry is made of rows of its own server.
EntryOfItsServer == \A s \in Services : \A r \in servers[s] : Service[r] = s

ListIInv == ListTypeOK /\ ShownWasInserted /\ OneResultUnderWay /\ EntryOfItsServer

LEMMA LastSeenBounds ==
    ASSUME NEW rs \in SUBSET Metrics, IsFiniteSet(rs)
    PROVE  LastSeen(rs) \in Nat /\ \A q \in rs : Written[q] <= LastSeen(rs)
<1> DEFINE Stamps == {Written[r] : r \in rs}
<1>1. IsFiniteSet(Stamps)
  <2>1. [r \in rs |-> Written[r]] \in Surjection(rs, Stamps)
    BY DEF Surjection
  <2> QED BY <2>1, FS_Surjection
<1>2. IsFiniteSet({0} \cup Stamps)
  <2> HIDE DEF Stamps
  <2> QED BY <1>1, FS_AddElement
<1>3. {0} \cup Stamps \subseteq Nat /\ {0} \cup Stamps # {}
  BY ServerListAssumption
<1>4. /\ Max({0} \cup Stamps) \in {0} \cup Stamps
      /\ \A x \in {0} \cup Stamps : x <= Max({0} \cup Stamps)
  <2> HIDE DEF Stamps
  <2> QED BY <1>2, <1>3, MaxOfNumbers
<1> QED BY <1>3, <1>4 DEF LastSeen

\* A query returns, for every row of the table, one that is as new.
LEMMA QueryCoversTable ==
    ASSUME NEW rs \in QueryServices, table \subseteq Metrics
    PROVE  /\ rs \subseteq table
           /\ \A r \in table : \E q \in rs : Service[q] = Service[r] /\ Written[q] >= Written[r]
<1>1. rs \subseteq {r \in table : Latest(r)}
  BY DEF QueryServices
<1>2. ASSUME NEW r \in table
      PROVE  \E q \in rs : Service[q] = Service[r] /\ Written[q] >= Written[r]
  <2>1. Cardinality({q \in rs : SameGroup(r, q)}) = 1
    BY DEF QueryServices
  <2>2. {q \in rs : SameGroup(r, q)} # {}
    BY <2>1, FS_EmptySet
  <2>3. PICK q \in rs : SameGroup(r, q)
    BY <2>2
  <2>4. q \in table /\ Latest(q)
    BY <1>1
  <2>5. SameGroup(q, r)
    BY <2>3 DEF SameGroup
  <2>6. Written[r] <= Written[q]
    BY <2>4, <2>5 DEF Latest
  <2>7. Written[r] \in Nat /\ Written[q] \in Nat
    BY <2>4, ServerListAssumption
  <2> QED BY <2>3, <2>6, <2>7 DEF SameGroup
<1> QED BY <1>1, <1>2

LEMMA ListInvInit == ListInit => ListIInv
<1> SUFFICES ASSUME ListInit PROVE ListIInv
  OBVIOUS
<1>1. IsFiniteSet({}) /\ Cardinality({}) = 0
  BY FS_EmptySet
<1>2. push \cup answers = {} /\ inserted = {} /\ table = {}
  BY DEF ListInit
<1>3. ListTypeOK
  <2>1. /\ inserted \subseteq Metrics /\ table \subseteq inserted /\ cutoff \in Nat
        /\ api \in {"up", "stopping", "down"} /\ stream \in {"closed", "open", "failed"}
    BY DEF ListInit
  <2>2. /\ push \subseteq SUBSET Metrics /\ Cardinality(push) <= 1
        /\ answers \subseteq SUBSET Metrics /\ Cardinality(answers) <= MaxRefreshes
    <3>1. push = {} /\ answers = {}
      BY DEF ListInit
    <3> QED BY <1>1, <3>1, ServerListAssumption
  <2>3. servers \in [Services -> SUBSET Metrics] /\ crossed \in BOOLEAN
    BY DEF ListInit
  <2> QED BY <2>1, <2>2, <2>3 DEF ListTypeOK
<1>4. ShownWasInserted
  BY <1>1 DEF ListInit, ShownWasInserted
<1>5. OneResultUnderWay /\ EntryOfItsServer
  BY <1>2 DEF ListInit, OneResultUnderWay, EntryOfItsServer
<1> QED BY <1>3, <1>4, <1>5 DEF ListIInv

\* What the browser takes in becomes the entries of the servers it has rows of;
\* the others stay.
LEMMA TakeInEffect ==
    ASSUME ListIInv, NEW rs \in push \cup answers, TakeIn(rs)
    PROVE  /\ servers' \in [Services -> SUBSET Metrics]
           /\ \A s \in Services : /\ servers'[s] \subseteq inserted
                                  /\ \A r \in servers'[s] : Service[r] = s
                                  /\ \/ servers'[s] = servers[s]
                                     \/ servers'[s] = {r \in rs : Service[r] = s}
                                  /\ (\E r \in rs : Service[r] = s)
                                        => servers'[s] = {r \in rs : Service[r] = s}
<1> DEFINE entry(s) == {r \in rs : Service[r] = s}
<1>1. rs \subseteq inserted /\ inserted \subseteq Metrics
  BY DEF ListIInv, ListTypeOK, ShownWasInserted
<1>2. servers' = [s \in Services |-> IF entry(s) = {} THEN servers[s] ELSE entry(s)]
  BY DEF TakeIn
<1>3. ASSUME NEW s \in Services
      PROVE  /\ servers[s] \subseteq inserted /\ \A r \in servers[s] : Service[r] = s
             /\ entry(s) \subseteq inserted /\ \A r \in entry(s) : Service[r] = s
  BY <1>1 DEF ListIInv, ListTypeOK, ShownWasInserted, EntryOfItsServer
<1>4. ASSUME NEW s \in Services
      PROVE  servers'[s] = IF entry(s) = {} THEN servers[s] ELSE entry(s)
  BY <1>2
<1>5. ASSUME NEW s \in Services
      PROVE  servers'[s] \in SUBSET Metrics
  <2> HIDE DEF entry
  <2> QED BY <1>1, <1>3, <1>4
<1>6. servers' \in [Services -> SUBSET Metrics]
  <2> HIDE DEF entry
  <2> QED BY <1>2, <1>4, <1>5
<1>7. ASSUME NEW s \in Services
      PROVE  /\ servers'[s] \subseteq inserted
             /\ \A r \in servers'[s] : Service[r] = s
             /\ servers'[s] = servers[s] \/ servers'[s] = entry(s)
  <2> HIDE DEF entry
  <2> QED BY <1>3, <1>4
<1>8. ASSUME NEW s \in Services, \E r \in rs : Service[r] = s
      PROVE  servers'[s] = entry(s)
  BY <1>4, <1>8
<1> QED BY <1>6, <1>7, <1>8

\* The database and what has been inserted.
LEMMA ListDataStep ==
    ASSUME ListIInv, NEW r \in Metrics, InsertMetric(r) \/ CleanupMetrics(Written[r])
    PROVE  ListIInv'
<1> USE DEF ListIInv, ListTypeOK
<1>1. CASE InsertMetric(r)
  <2>0. /\ r \notin inserted /\ inserted' = inserted \cup {r} /\ table' = table \cup {r}
        /\ UNCHANGED <<cutoff, api, stream, push, answers, servers, crossed>>
    BY <1>1 DEF InsertMetric
  <2>1. ListTypeOK'
    BY <2>0
  <2>2. ShownWasInserted'
    <3>1. IsFiniteSet(inserted')
      BY <2>0, FS_AddElement DEF ShownWasInserted
    <3> QED BY <2>0, <3>1 DEF ShownWasInserted
  <2>3. OneResultUnderWay'
    <3>1. \A s \in Services : servers[s] \cap table' = servers[s] \cap table
      BY <2>0 DEF ShownWasInserted
    <3> QED BY <2>0, <3>1 DEF OneResultUnderWay
  <2> QED BY <2>0, <2>1, <2>2, <2>3 DEF EntryOfItsServer
<1>2. CASE CleanupMetrics(Written[r])
  <2>0. /\ table' \subseteq table /\ cutoff' \in Nat
        /\ UNCHANGED <<inserted, api, stream, push, answers, servers, crossed>>
    BY <1>2, ServerListAssumption DEF CleanupMetrics
  <2>1. ListTypeOK'
    BY <2>0
  <2>2. ShownWasInserted'
    BY <2>0 DEF ShownWasInserted
  <2>3. OneResultUnderWay'
    BY <2>0 DEF OneResultUnderWay
  <2> QED BY <2>0, <2>1, <2>2, <2>3 DEF EntryOfItsServer
<1> QED BY <1>1, <1>2

\* A query that runs while nothing is under way is as new as the table.
LEMMA QueryStep == ListIInv /\ (PushServices \/ Refresh) => ListIInv'
<1> SUFFICES ASSUME ListIInv, PushServices \/ Refresh PROVE ListIInv'
  OBVIOUS
<1>0. PICK rs \in QueryServices :
         /\ \/ push = {} /\ push' = {rs} /\ answers' = answers /\ crossed' = (answers # {})
            \/ push' = push /\ answers' = answers \cup {rs} /\ crossed' = (push \cup answers # {})
               /\ Cardinality(answers) < MaxRefreshes
         /\ UNCHANGED <<inserted, table, cutoff, api, stream, servers>>
  BY DEF PushServices, Refresh, dbVars
<1>1. /\ rs \subseteq table /\ rs \subseteq inserted /\ rs \subseteq Metrics
      /\ \A r \in table : \E q \in rs : Service[q] = Service[r] /\ Written[q] >= Written[r]
  BY QueryCoversTable DEF ListIInv, ListTypeOK
<1>2. IsFiniteSet({rs}) /\ Cardinality({rs}) = 1
  BY FS_Singleton
<1>3. /\ IsFiniteSet(answers')
      /\ Cardinality(push') <= 1 /\ Cardinality(answers') <= MaxRefreshes
  <2>1. /\ IsFiniteSet(answers) /\ Cardinality(answers) \in Nat
        /\ Cardinality(push) <= 1 /\ Cardinality(answers) <= MaxRefreshes
    BY FS_CardinalityType DEF ListIInv, ListTypeOK, ShownWasInserted
  <2>2. /\ IsFiniteSet(answers \cup {rs})
        /\ Cardinality(answers \cup {rs}) <= Cardinality(answers) + 1
    BY <2>1, FS_AddElement
  <2>3. Cardinality(answers \cup {rs}) \in Nat
    BY <2>2, FS_CardinalityType
  <2> QED BY <1>0, <1>2, <2>1, <2>2, <2>3, ServerListAssumption
<1>4. ListTypeOK'
  <2>1. crossed' \in BOOLEAN
    BY <1>0
  <2>2. push' \subseteq SUBSET Metrics /\ answers' \subseteq SUBSET Metrics
    BY <1>0, <1>1 DEF ListIInv, ListTypeOK
  <2> QED BY <1>0, <1>3, <2>1, <2>2 DEF ListIInv, ListTypeOK
<1>5. ShownWasInserted'
  <2>1. push' \cup answers' \subseteq SUBSET inserted
    BY <1>0, <1>1 DEF ListIInv, ShownWasInserted
  <2> QED BY <1>0, <1>3, <2>1 DEF ListIInv, ShownWasInserted
<1>6. OneResultUnderWay'
  <2> SUFFICES ASSUME ~crossed'
               PROVE  /\ push' = {} \/ answers' = {}
                      /\ push' \cup answers' = {rs}
                      /\ \A s \in Services : \A r \in servers[s] \cap table :
                            \E q \in rs : Service[q] = s /\ Written[q] >= Written[r]
    BY <1>0 DEF OneResultUnderWay
  <2>1. \/ push' = {rs} /\ answers' = {}
        \/ push' = {} /\ answers' = {rs}
    BY <1>0
  <2>2. ASSUME NEW s \in Services, NEW r \in servers[s] \cap table
        PROVE  \E q \in rs : Service[q] = s /\ Written[q] >= Written[r]
    BY <1>1 DEF ListIInv, EntryOfItsServer
  <2> QED BY <2>1, <2>2
<1> QED BY <1>0, <1>4, <1>5, <1>6 DEF ListIInv, EntryOfItsServer

\* Whatever cuts results off leaves nothing to be crossed with.
LEMMA CutOffStep == ListIInv /\ (Shut \/ Reload) => ListIInv'
<1> SUFFICES ASSUME ListIInv, Shut \/ Reload PROVE ListIInv'
  OBVIOUS
<1>1. /\ push' = {} /\ answers' = {} /\ crossed' = FALSE
      /\ UNCHANGED <<inserted, table, cutoff>>
      /\ servers' = servers \/ servers' = [s \in Services |-> {}]
      /\ api' \in {"up", "stopping", "down"} /\ stream' \in {"closed", "open", "failed"}
  BY DEF Shut, Reload, dbVars, ListIInv, ListTypeOK
<1>2. IsFiniteSet({}) /\ Cardinality({}) = 0
  BY FS_EmptySet
<1>3. /\ servers' \in [Services -> SUBSET Metrics]
      /\ \A s \in Services : servers'[s] \subseteq inserted
      /\ EntryOfItsServer'
  BY <1>1 DEF ListIInv, ListTypeOK, ShownWasInserted, EntryOfItsServer
<1>4. ListTypeOK'
  <2>1. /\ push' \subseteq SUBSET Metrics /\ Cardinality(push') <= 1
        /\ answers' \subseteq SUBSET Metrics /\ Cardinality(answers') <= MaxRefreshes
    BY <1>1, <1>2, ServerListAssumption
  <2> QED BY <1>1, <1>3, <2>1 DEF ListIInv, ListTypeOK
<1>5. ShownWasInserted'
  BY <1>1, <1>2, <1>3 DEF ListIInv, ShownWasInserted
<1>6. OneResultUnderWay'
  BY <1>1 DEF OneResultUnderWay
<1> QED BY <1>3, <1>4, <1>5, <1>6 DEF ListIInv

\* A result that is taken in leaves none behind, unless queries crossed.
LEMMA TakeStep == ListIInv /\ (TakePush \/ TakeAnswer) => ListIInv'
<1> SUFFICES ASSUME ListIInv, TakePush \/ TakeAnswer PROVE ListIInv'
  OBVIOUS
<1>0. PICK rs \in push \cup answers :
         /\ TakeIn(rs)
         /\ \/ rs \in push /\ push' = {} /\ answers' = answers
            \/ rs \in answers /\ push' = push /\ answers' = answers \ {rs}
         /\ UNCHANGED <<inserted, table, cutoff, api, stream, crossed>>
  BY DEF TakePush, TakeAnswer, dbVars
<1>1. /\ servers' \in [Services -> SUBSET Metrics]
      /\ \A s \in Services : servers'[s] \subseteq inserted
      /\ EntryOfItsServer'
  BY <1>0, TakeInEffect DEF EntryOfItsServer
<1>2. /\ push' \cup answers' \subseteq push \cup answers /\ push' \subseteq push
      /\ IsFiniteSet(answers') /\ Cardinality(push') <= 1
      /\ Cardinality(answers') <= MaxRefreshes
  <2>1. /\ IsFiniteSet(answers) /\ Cardinality(answers) \in Nat
        /\ Cardinality(push) <= 1 /\ Cardinality(answers) <= MaxRefreshes
    BY FS_CardinalityType DEF ListIInv, ListTypeOK, ShownWasInserted
  <2>2. IsFiniteSet(answers') /\ Cardinality(answers') <= Cardinality(answers)
    <3>1. answers' \in SUBSET answers
      BY <1>0
    <3> QED BY <2>1, <3>1, FS_Subset
  <2>3. Cardinality(push') <= 1
    BY <1>0, <2>1, FS_EmptySet
  <2>4. Cardinality(answers') \in Nat
    BY <2>2, FS_CardinalityType
  <2> QED BY <1>0, <2>1, <2>2, <2>3, <2>4, ServerListAssumption
<1>3. ListTypeOK'
  BY <1>0, <1>1, <1>2 DEF ListIInv, ListTypeOK
<1>4. ShownWasInserted'
  BY <1>0, <1>1, <1>2 DEF ListIInv, ShownWasInserted
<1>5. OneResultUnderWay'
  <2> SUFFICES ASSUME ~crossed' PROVE push' \cup answers' = {}
    BY DEF OneResultUnderWay
  <2>1. /\ push = {} \/ answers = {}
        /\ \A p, q \in push \cup answers : p = q
    BY <1>0 DEF ListIInv, OneResultUnderWay
  <2> QED BY <1>0, <2>1
<1> QED BY <1>1, <1>3, <1>4, <1>5 DEF ListIInv

LEMMA ListInvStep == ListIInv /\ [ListNext]_listVars => ListIInv'
<1> SUFFICES ASSUME ListIInv, [ListNext]_listVars PROVE ListIInv'
  OBVIOUS
<1>1. CASE Stop \/ Restart \/ Connect \/ ConnectFails
  <2>1. /\ UNCHANGED <<inserted, table, cutoff, push, answers, servers, crossed>>
        /\ api' \in {"up", "stopping", "down"} /\ stream' \in {"closed", "open", "failed"}
    BY <1>1 DEF Stop, Restart, Connect, ConnectFails, dbVars, ListIInv, ListTypeOK
  <2> QED BY <2>1 DEF ListIInv, ListTypeOK, ShownWasInserted, OneResultUnderWay, EntryOfItsServer
<1>2. CASE UNCHANGED listVars
  BY <1>2 DEF listVars, ListIInv, ListTypeOK, ShownWasInserted, OneResultUnderWay, EntryOfItsServer
<1> QED BY <1>1, <1>2, ListDataStep, QueryStep, CutOffStep, TakeStep DEF ListNext, Browser

LEMMA ListInvariance == ListSpec => []ListIInv
  BY ListInvInit, ListInvStep, PTL DEF ListSpec

\* The list's state stays within its types, and no push overtakes another.
THEOREM ListTypes == ListSpec => []ListTypeOK
<1>1. ListIInv => ListTypeOK
  BY DEF ListIInv
<1> QED BY ListInvariance, <1>1, PTL

\* Only an older result that was under way could set "last seen" back, and a
\* result that is alone under way covers whatever the table still has.
LEMMA LastSeenStep ==
    ASSUME ListIInv, [ListNext]_listVars, NEW s \in Services,
           servers'[s] # {}, LastSeen(servers'[s]) < LastSeen(servers[s]), ~crossed,
           NEW r \in servers[s], Written[r] = LastSeen(servers[s])
    PROVE  r \notin table
<1> SUFFICES ASSUME r \in table PROVE FALSE
  OBVIOUS
<1>1. servers[s] \in SUBSET Metrics /\ IsFiniteSet(servers[s])
  <2>1. servers[s] \in SUBSET inserted /\ IsFiniteSet(inserted) /\ inserted \subseteq Metrics
    BY DEF ListIInv, ListTypeOK, ShownWasInserted
  <2> QED BY <2>1, FS_Subset
<1>2. LastSeen(servers[s]) \in Nat
  BY <1>1, LastSeenBounds
<1>3. servers'[s] # servers[s]
  BY <1>2
<1>4. PICK rs \in push \cup answers : TakeIn(rs)
  <2>1. CASE Reload
    BY <2>1 DEF Reload
  <2>2. CASE TakePush \/ TakeAnswer
    BY <2>2 DEF TakePush, TakeAnswer
  <2>3. CASE ~(Reload \/ TakePush \/ TakeAnswer)
    <3>1. servers' = servers
      BY <2>3 DEF ListNext, Browser, InsertMetric, CleanupMetrics, Stop, Shut, Restart,
                  PushServices, Refresh, Connect, ConnectFails, dbVars, listVars
    <3> QED BY <1>3, <3>1
  <2> QED BY <2>1, <2>2, <2>3
<1>5. PICK q \in rs : Service[q] = s /\ Written[q] >= Written[r]
  BY DEF ListIInv, OneResultUnderWay
<1>6. servers'[s] = {p \in rs : Service[p] = s}
  BY <1>4, <1>5, TakeInEffect
<1>7. q \in servers'[s]
  BY <1>5, <1>6
<1>8. servers'[s] \in SUBSET Metrics /\ IsFiniteSet(servers'[s])
  <2>1. servers'[s] \in SUBSET inserted /\ IsFiniteSet(inserted) /\ inserted \subseteq Metrics
    BY <1>4, TakeInEffect DEF ListIInv, ListTypeOK, ShownWasInserted
  <2> QED BY <2>1, FS_Subset
<1>9. LastSeen(servers'[s]) \in Nat /\ Written[q] <= LastSeen(servers'[s])
  <2> DEFINE e == servers'[s]
  <2>1. e \in SUBSET Metrics /\ IsFiniteSet(e) /\ q \in e
    BY <1>7, <1>8
  <2> HIDE DEF e
  <2>2. LastSeen(e) \in Nat /\ Written[q] <= LastSeen(e)
    BY <2>1, LastSeenBounds
  <2> QED BY <2>2 DEF e
<1>10. Written[q] \in Nat
  BY <1>7, <1>8, ServerListAssumption
<1> QED BY <1>2, <1>5, <1>9, <1>10

\* "Last seen" of an entry on the dashboard never goes back, unless two results
\* crossed or the rows it was taken from have been cleaned up; for any rows,
\* servers, refreshes and restarts of the API.
THEOREM LastSeenNeverGoesBack == ListSpec => LastSeenAdvances
<1>1. ListIInv /\ [ListNext]_listVars =>
        [\A s \in Services :
            servers'[s] # {} /\ LastSeen(servers'[s]) < LastSeen(servers[s]) =>
               crossed \/ \A r \in servers[s] : Written[r] = LastSeen(servers[s]) => r \notin table
        ]_listVars
  BY LastSeenStep
<1> QED BY <1>1, ListInvariance, PTL DEF ListSpec, LastSeenAdvances

-----------------------------------------------------------------------------
(* All parts *)

\* A step of one part is a step or a stutter of each module.
LEMMA PartsStep ==
    [Stream \/ Net \/ Buckets \/ OneTrace \/ List]_MCVars =>
       [Next]_vars /\ [NetNext]_netVars /\ [LimitNext]_limitVars
       /\ [TraceNext]_traceVars /\ [ListNext]_listVars
  BY DEF Stream, Net, Buckets, OneTrace, List, MCVars

\* Whichever part runs, it behaves as its module says, and so do the others.
LEMMA PartsBehave == MCSpec => Spec /\ NetSpec /\ LimitSpec /\ TraceSpec /\ ListSpec
<1>1. MCInit => Init /\ NetInit /\ LimitInit /\ TraceInit /\ ListInit
  BY DEF MCInit
<1> QED BY <1>1, PartsStep, PTL
        DEF MCSpec, Spec, NetSpec, LimitSpec, TraceSpec, ListSpec

\* All parts keep their types, whichever of them runs and for any constants.
THEOREM PartsTypes == MCSpec => []PartsTypeOK
<1>1. TypeOK /\ NetTypeOK /\ LimitTypeOK /\ TraceTypeOK /\ ListTypeOK => PartsTypeOK
  BY DEF PartsTypeOK
<1> QED BY <1>1, PartsBehave, StreamTypes, NetTypeCorrect, LimiterTypes, TraceTypes, ListTypes, PTL
=============================================================================
