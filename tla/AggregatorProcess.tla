------------------------- MODULE AggregatorProcess --------------------------
(***************************************************************************)
(* The life of one aggregator process (cmd/aggregator/main.go): it         *)
(* connects to PostgreSQL and to NATS, reports itself ready, runs one      *)
(* goroutine per kind of telemetry, and on SIGTERM takes everything down   *)
(* in the order of its defers.  Kubernetes starts it again when it has     *)
(* ended, and kills it as long as /health is not 200.                      *)
(***************************************************************************)
EXTENDS Naturals

CONSTANTS Kinds,          \* kinds of telemetry: a goroutine each
          MaxReconnects   \* failed reconnects in a row before nats.go gives up (10)

ASSUME ProcessAssumption == MaxReconnects \in Nat \ {0}

VARIABLES
    nats, postgres,  \* the servers: "up" or "down"; PostgreSQL may also hang
    schema,          \* migrations in the database: "dirty" while they run
    sigterm,         \* the context of main is cancelled
    main,            \* where main is
    ready,           \* the readiness flag behind /health
    conn,            \* the NATS connection
    attempts,        \* failed reconnects since it was lost
    consumer,        \* the goroutine of a kind
    busy,            \* kinds whose callback is inserting a row
    missed           \* history: kinds this process ceased to consume by itself

serverVars == <<nats, postgres, schema>>
vars == <<serverVars, sigterm, main, ready, conn, attempts, consumer, busy, missed>>

Starting == {"postgres", "migrate", "migrating", "dial", "stream", "ready"}
Stopping == {"health", "drain", "pool"}

TypeOK == /\ nats \in {"up", "down"}
          /\ postgres \in {"up", "down", "hung"}
          /\ schema \in {"old", "dirty", "current"}
          /\ sigterm \in BOOLEAN
          /\ main \in Starting \cup {"run"} \cup Stopping \cup {"exited"}
          /\ ready \in BOOLEAN
          /\ conn \in {"none", "up", "down", "closed"}
          /\ attempts \in 0..MaxReconnects
          /\ consumer \in [Kinds -> {"off", "subscribing", "consuming", "ended"}]
          /\ busy \in SUBSET Kinds
          /\ missed \in SUBSET Kinds

Init == /\ nats \in {"up", "down"}
        /\ postgres \in {"up", "down", "hung"}
        /\ schema \in {"old", "current"}
        /\ sigterm = FALSE
        /\ main = "postgres"
        /\ ready = FALSE
        /\ conn = "none"
        /\ attempts = 0
        /\ consumer = [k \in Kinds |-> "off"]
        /\ busy = {}
        /\ missed = {}

-----------------------------------------------------------------------------
(* The environment *)

Nats == /\ nats' \in {"up", "down"}
        /\ UNCHANGED <<postgres, schema, sigterm, main, ready, conn, attempts, consumer, busy, missed>>

Postgres == /\ postgres' \in {"up", "down", "hung"}
            /\ UNCHANGED <<nats, schema, sigterm, main, ready, conn, attempts, consumer, busy, missed>>

Signal == /\ main # "exited"
          /\ sigterm' = TRUE
          /\ UNCHANGED <<serverVars, main, ready, conn, attempts, consumer, busy, missed>>

\* The container is started again, unless its pod is being removed.
Start == /\ main = "exited" /\ ~sigterm
         /\ main' = "postgres"
         /\ UNCHANGED <<serverVars, sigterm, ready, conn, attempts, consumer, busy, missed>>

\* The process ends; log.Fatal and the liveness probe do it without the defers.
Exit == /\ main' = "exited"
        /\ ready' = FALSE
        /\ conn' = "none"
        /\ attempts' = 0
        /\ consumer' = [k \in Kinds |-> "off"]
        /\ busy' = {}
        /\ missed' = {}
        /\ UNCHANGED <<serverVars, sigterm>>

\* /health is not 200: nobody listens yet, or it answers 503.
LivenessProbe == main \in Starting /\ Exit

-----------------------------------------------------------------------------
(* main, up to c.Run *)

At(from, to) == main = from /\ main' = to

\* storage.Connect: the ping is answered.
ConnectPostgres == /\ At("postgres", "migrate")
                   /\ postgres = "up" /\ ~sigterm
                   /\ UNCHANGED <<serverVars, sigterm, ready, conn, attempts, consumer, busy, missed>>

ConnectPostgresFails == /\ main = "postgres"
                        /\ postgres = "down" \/ sigterm
                        /\ Exit

\* migrate.New and m.Up, over a connection of their own: PostgreSQL answers the
\* ping, the lock and the version.  ErrNoChange, or the migrations begin and the
\* database is marked dirty.
Migrate == /\ postgres = "up"
           /\ \/ At("migrate", "dial") /\ schema = "current" /\ UNCHANGED schema
              \/ At("migrate", "migrating") /\ schema = "old" /\ schema' = "dirty"
           /\ UNCHANGED <<nats, postgres, sigterm, ready, conn, attempts, consumer, busy, missed>>

MigrationsDone == /\ At("migrating", "dial") /\ postgres = "up"
                  /\ schema' = "current"
                  /\ UNCHANGED <<nats, postgres, sigterm, ready, conn, attempts,
                                 consumer, busy, missed>>

\* PostgreSQL is down, or answers that the database is dirty; migrations that
\* break off leave it so.  While it hangs, main waits: nothing here has a context.
MigrateFails == /\ \/ main \in {"migrate", "migrating"} /\ postgres = "down"
                   \/ main = "migrate" /\ postgres = "up" /\ schema = "dirty"
                /\ Exit

\* nats.Connect: with RetryOnFailedConnect it returns no error.
Dial == /\ At("dial", "stream")
        /\ conn' = nats
        /\ attempts' = 0
        /\ UNCHANGED <<serverVars, sigterm, ready, consumer, busy, missed>>

\* CreateOrUpdateStream is answered within 10 s, or main ends.
EnsureStream == /\ At("stream", "ready")
                /\ conn = "up" /\ nats = "up"
                /\ UNCHANGED <<serverVars, sigterm, ready, conn, attempts, consumer, busy, missed>>

EnsureStreamFails == /\ main = "stream"
                     /\ conn # "up" \/ nats = "down"
                     /\ Exit

\* startHealthServer, ready.Store(1), and the goroutines of c.Run.
Run == /\ At("ready", "run")
       /\ ready' = TRUE
       /\ consumer' = [k \in Kinds |-> "subscribing"]
       /\ UNCHANGED <<serverVars, sigterm, conn, attempts, busy, missed>>

-----------------------------------------------------------------------------
(* The connection *)

ConnectionLost == /\ conn = "up" /\ nats = "down"
                  /\ conn' = "down"
                  /\ UNCHANGED <<serverVars, sigterm, main, ready, attempts, consumer, busy, missed>>

\* Mutant: nats.NoReconnect(), and nobody dials again.
ReconnectNever == FALSE

Reconnect == /\ conn = "down" /\ nats = "up"
             /\ conn' = "up"
             /\ attempts' = 0
             /\ UNCHANGED <<serverVars, sigterm, main, ready, consumer, busy, missed>>

\* Mutant: the connection is never given up, and the attempts are counted on.
ReconnectFailsOn ==
    /\ conn = "down" /\ nats = "down"
    /\ attempts' = attempts + 1
    /\ UNCHANGED <<serverVars, sigterm, main, ready, conn, consumer, busy, missed>>

\* The last attempt closes the connection for good.
ReconnectFails ==
    /\ conn = "down" /\ nats = "down"
    /\ attempts' = attempts + 1
    /\ IF attempts' < MaxReconnects THEN UNCHANGED <<conn, missed>>
                                    ELSE conn' = "closed" /\ missed' = Kinds
    /\ UNCHANGED <<serverVars, sigterm, main, ready, consumer, busy>>

-----------------------------------------------------------------------------
(* The goroutine of a kind: Subscribe and its callback *)

Becomes(k, c) == consumer' = [consumer EXCEPT ![k] = c]

\* CreateOrUpdateConsumer and Consume succeed.
Subscribe(k) == /\ consumer[k] = "subscribing"
                /\ conn = "up" /\ nats = "up" /\ ~sigterm
                /\ Becomes(k, "consuming")
                /\ UNCHANGED <<serverVars, sigterm, main, ready, conn, attempts, busy, missed>>

\* One of them fails: the error is logged and the goroutine ends.
SubscribeFails(k) == /\ consumer[k] = "subscribing"
                     /\ conn # "up" \/ nats = "down" \/ sigterm
                     /\ Becomes(k, "ended")
                     /\ missed' = IF sigterm THEN missed ELSE missed \cup {k}
                     /\ UNCHANGED <<serverVars, sigterm, main, ready, conn, attempts, busy>>

\* A delivery: the callback inserts a row, with the context of main.
Insert(k) == /\ consumer[k] = "consuming" /\ conn = "up" /\ k \notin busy
             /\ busy' = busy \cup {k}
             /\ UNCHANGED <<serverVars, sigterm, main, ready, conn, attempts, consumer, missed>>

\* Mutant: the rows are inserted with context.Background().
InsertReturnsUncancelled(k) ==
    /\ k \in busy
    /\ postgres # "hung"
    /\ busy' = busy \ {k}
    /\ UNCHANGED <<serverVars, sigterm, main, ready, conn, attempts, consumer, missed>>

\* The insert returns; while PostgreSQL hangs, only because of the signal.
InsertReturns(k) == /\ k \in busy
                    /\ postgres # "hung" \/ sigterm
                    /\ busy' = busy \ {k}
                    /\ UNCHANGED <<serverVars, sigterm, main, ready, conn, attempts,
                                   consumer, missed>>

\* <-ctx.Done(); cc.Stop() does not wait for the callback.
StopConsuming(k) == /\ consumer[k] = "consuming" /\ sigterm
                    /\ Becomes(k, "ended")
                    /\ UNCHANGED <<serverVars, sigterm, main, ready, conn, attempts, busy, missed>>

Goroutine(k) == \/ Subscribe(k) \/ SubscribeFails(k) \/ Insert(k)
                \/ InsertReturns(k) \/ StopConsuming(k)

-----------------------------------------------------------------------------
(* The end of main *)

\* Mutant: errgroup instead of WaitGroup: the first goroutine to end ends all.
RunReturnsEarly == /\ At("run", "health")
                   /\ \E k \in Kinds : consumer[k] = "ended"
                   /\ UNCHANGED <<serverVars, sigterm, ready, conn, attempts, consumer, busy, missed>>

\* wg.Wait(): also when every Subscribe has failed.
RunReturns == /\ At("run", "health")
              /\ \A k \in Kinds : consumer[k] = "ended"
              /\ UNCHANGED <<serverVars, sigterm, ready, conn, attempts, consumer, busy, missed>>

\* healthSrv.Shutdown, with 5 s
StopHealth == /\ At("health", "drain")
              /\ UNCHANGED <<serverVars, sigterm, ready, conn, attempts, consumer, busy, missed>>

\* nc.Close() starts the drain and does not wait for it.
CloseNats == /\ At("drain", "pool")
             /\ conn' = "closed"
             /\ UNCHANGED <<serverVars, sigterm, ready, attempts, consumer, busy, missed>>

\* db.Close() waits until the callbacks have returned their connections.
ClosePool == /\ main = "pool" /\ busy = {}
             /\ Exit

Startup == \/ ConnectPostgres \/ ConnectPostgresFails
           \/ Migrate \/ MigrationsDone \/ MigrateFails \/ Dial
           \/ EnsureStream \/ EnsureStreamFails \/ Run \/ LivenessProbe
Shutdown == RunReturns \/ StopHealth \/ CloseNats \/ ClosePool

Next == \/ Nats \/ Postgres \/ Signal \/ Start
        \/ Startup
        \/ ConnectionLost \/ Reconnect \/ ReconnectFails
        \/ \E k \in Kinds : Goroutine(k)
        \/ Shutdown

Spec == Init /\ [][Next]_vars

\* Every step of the process and of Kubernetes is taken in the end; the servers
\* need not come back, and nobody need send a signal.  A start-up that keeps
\* being possible is not for ever cut short by the probe or a failure.
Fairness == /\ WF_vars(Startup) /\ WF_vars(Shutdown) /\ WF_vars(Start)
            /\ SF_vars(ConnectPostgres) /\ SF_vars(Migrate) /\ SF_vars(Dial)
            /\ SF_vars(EnsureStream) /\ SF_vars(Run)
            /\ WF_vars(Reconnect)
            /\ \A k \in Kinds : /\ WF_vars(Goroutine(k))
                                /\ WF_vars(InsertReturns(k))
                                /\ WF_vars(StopConsuming(k))

FairSpec == Spec /\ Fairness

-----------------------------------------------------------------------------
(* Properties *)

Consumes(k) == consumer[k] = "consuming" /\ conn # "closed"
Receives(k) == consumer[k] = "consuming" /\ conn = "up"

\* SIGTERM ends the process whatever the servers do: goroutines blocked on NATS
\* return, the insert under way is cancelled, and db.Close has nothing to wait
\* for, even while PostgreSQL hangs.
StopsOnSignal == sigterm ~> main = "exited"

\* The start-up loop of process and Kubernetes ends: once the servers are up
\* for good, every kind is received, unless the process has itself given up a
\* kind (see ReadyMeansConsuming), or an attempt that was cut short during the
\* migrations has left a database that every later one refuses.
StartsInTheEnd ==
    <>[](nats = "up" /\ postgres = "up" /\ ~sigterm)
       => \/ <>[](\A k \in Kinds : Receives(k) \/ k \in missed)
          \/ <>[](schema = "dirty")

\* As long as it runs unsignalled, main never closes what a goroutine that
\* still consumes needs: the pool and the connection stay open under it.
NothingClosedInUse ==
    \A k \in Kinds : consumer[k] = "consuming" => main = "run"

\* "readiness flag: becomes 1 once consumers are running" (main.go:49): a
\* process that reports itself ready, and is not being stopped, comes to
\* consume every kind of telemetry.
ReadyMeansConsuming ==
    \A k \in Kinds : ready ~> Consumes(k) \/ sigterm \/ main # "run"
=============================================================================
