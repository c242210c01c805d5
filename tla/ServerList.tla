----------------------------- MODULE ServerList -----------------------------
(***************************************************************************)
(* The dashboard's list of servers: the metrics table, QueryServices       *)
(* (internal/storage/repository.go), the SSE stream that pushes its result *)
(* every 5 s (streamServices in cmd/api/sse.go), the GET that the refresh  *)
(* button sends (getServices in cmd/api/handler.go), and the map in the    *)
(* browser that both update (cmd/api/static/index.html).  Answers may      *)
(* overtake each other, rows come late or are cleaned up, and the API      *)
(* stops and starts.                                                       *)
(***************************************************************************)
EXTENDS Integers, FiniteSetsExt

CONSTANTS Metrics,    \* rows of the metrics table
          Service,    \* Service[r], Name[r], Written[r]: columns of a row
          Name,
          Written,
          MaxRefreshes  \* bound on refreshes under way

ASSUME ServerListAssumption == /\ Written \in [Metrics -> Nat \ {0}]
                               /\ MaxRefreshes \in Nat

Services == {Service[r] : r \in Metrics}

VARIABLES
    inserted,  \* rows ever inserted
    table,     \* rows in the metrics table
    cutoff,    \* the last cutoff of the retention job
    api,       \* the API process
    stream,    \* the browser's EventSource
    push,      \* the result that is on its way over it, if any
    answers,   \* results that are on their way to refreshes
    servers,   \* the rows each server's entry was made from; {}: no entry
    crossed    \* history: a query ran while another's result was under way

listVars == <<inserted, table, cutoff, api, stream, push, answers, servers, crossed>>
dbVars == <<inserted, table, cutoff>>

ListTypeOK == /\ inserted \subseteq Metrics
              /\ table \subseteq inserted
              /\ cutoff \in Nat
              /\ api \in {"up", "stopping", "down"}
              /\ stream \in {"closed", "open", "failed"}
              /\ push \subseteq SUBSET Metrics /\ Cardinality(push) <= 1
              /\ answers \subseteq SUBSET Metrics /\ Cardinality(answers) <= MaxRefreshes
              /\ servers \in [Services -> SUBSET Metrics]
              /\ crossed \in BOOLEAN

ListInit == /\ inserted = {} /\ table = {} /\ cutoff = 0
            /\ api = "up" /\ stream = "closed"
            /\ push = {} /\ answers = {}
            /\ servers = [s \in Services |-> {}]
            /\ crossed = FALSE

-----------------------------------------------------------------------------
(* The table and its query *)

\* Metrics reach the table late and in any order, though never from before the
\* retention: the stream keeps them for a day, the table for thirty.
InsertMetric(r) == /\ r \notin inserted
                   /\ Written[r] >= cutoff
                   /\ inserted' = inserted \cup {r}
                   /\ table' = table \cup {r}
                   /\ UNCHANGED <<cutoff, api, stream, push, answers, servers, crossed>>

\* cleanup_old_telemetry
CleanupMetrics(t) == /\ t > cutoff
              /\ cutoff' = t
              /\ table' = {r \in table : Written[r] >= t}
              /\ UNCHANGED <<inserted, api, stream, push, answers, servers, crossed>>

SameGroup(r, q) == Service[r] = Service[q] /\ Name[r] = Name[q]

\* Mutant: DISTINCT ON without its ORDER BY.
LatestUnordered(r) == r \in table

Latest(r) == r \in table /\ \A q \in table : SameGroup(r, q) => Written[q] <= Written[r]

\* DISTINCT ON (service_name, metric_name) ... ORDER BY timestamp DESC takes
\* one row of each group; which of several with the same time stamp (the disk
\* usage of several mounts) is left open.
QueryServices == {rs \in SUBSET {r \in table : Latest(r)} :
                     \A r \in table : Cardinality({q \in rs : SameGroup(r, q)}) = 1}

\* last_seen
LastSeen(rs) == Max({0} \cup {Written[r] : r \in rs})

-----------------------------------------------------------------------------
(* The API *)

\* SIGTERM, and srv.Shutdown: no new requests; streams go on.
Stop == /\ api = "up"
        /\ api' = "stopping"
        /\ UNCHANGED <<dbVars, stream, push, answers, servers, crossed>>

\* Shutdown returns: no request is left, or its 10 s have passed.  What is
\* still open is cut off.
Shut == /\ api = "stopping"
        /\ api' = "down"
        /\ stream' = IF stream = "open" THEN "closed" ELSE stream
        /\ push' = {} /\ answers' = {}
        /\ crossed' = FALSE
        /\ UNCHANGED <<dbVars, servers>>

Restart == /\ api = "down"
           /\ api' = "up"
           /\ UNCHANGED <<dbVars, stream, push, answers, servers, crossed>>

\* push() of streamServices; a query that fails pushes nothing.
PushServices == /\ stream = "open" /\ push = {}
        /\ \E rs \in QueryServices : push' = {rs}
        /\ crossed' = (answers # {})
        /\ UNCHANGED <<dbVars, api, stream, answers, servers>>

\* The refresh button, and getServices
Refresh == /\ api = "up" /\ Cardinality(answers) < MaxRefreshes
           /\ \E rs \in QueryServices : answers' = answers \cup {rs}
           /\ crossed' = (push \cup answers # {})
           /\ UNCHANGED <<dbVars, api, stream, push, servers>>

-----------------------------------------------------------------------------
(* The browser *)

\* Mutant: onerror closes the EventSource.
ConnectOnce == /\ stream = "closed" /\ api = "up"
               /\ \A s \in Services : servers[s] = {}
               /\ stream' = "open"
               /\ UNCHANGED <<dbVars, api, push, answers, servers, crossed>>

\* startServerStream; an EventSource connects again by itself.
Connect == /\ stream = "closed" /\ api = "up"
           /\ stream' = "open"
           /\ UNCHANGED <<dbVars, api, push, answers, servers, crossed>>

\* The ingress answers with an error while no API runs: an EventSource gives up
\* for good then, and onerror does not open another.
ConnectFails == /\ stream = "closed" /\ api # "up"
                /\ stream' = "failed"
                /\ UNCHANGED <<dbVars, api, push, answers, servers, crossed>>

\* The page is loaded again.
Reload == /\ stream' = "closed"
          /\ push' = {} /\ answers' = {}
          /\ servers' = [s \in Services |-> {}]
          /\ crossed' = FALSE
          /\ UNCHANGED <<dbVars, api>>

\* list.forEach(s => servers[s.ServiceName] = s): an entry is never removed.
TakeIn(rs) ==
    servers' = [s \in Services |->
                  LET entry == {r \in rs : Service[r] = s} IN
                  IF entry = {} THEN servers[s] ELSE entry]

TakePush == /\ \E rs \in push : TakeIn(rs)
            /\ push' = {}
            /\ UNCHANGED <<dbVars, api, stream, answers, crossed>>

TakeAnswer == /\ \E rs \in answers : TakeIn(rs) /\ answers' = answers \ {rs}
              /\ UNCHANGED <<dbVars, api, stream, push, crossed>>

Browser == Connect \/ ConnectFails \/ Reload \/ TakePush \/ TakeAnswer

ListNext == \/ \E r \in Metrics : InsertMetric(r) \/ CleanupMetrics(Written[r])
            \/ Stop \/ Shut \/ Restart
            \/ PushServices \/ Refresh
            \/ Browser

ListSpec == ListInit /\ [][ListNext]_listVars

\* An API that is stopping exits within 10 s, and is started again.  It may be
\* stopped again and again, but not always before it has pushed.  Nobody need
\* load the page again.
ListFairness == /\ WF_listVars(Shut) /\ WF_listVars(Restart)
                /\ SF_listVars(Connect) /\ SF_listVars(PushServices) /\ SF_listVars(TakePush)
                /\ WF_listVars(TakeAnswer)

FairListSpec == ListSpec /\ ListFairness

-----------------------------------------------------------------------------
(* Properties *)

\* An entry shows the newest row of each of its server's metrics.
UpToDate(s) == \A r \in table : Service[r] = s =>
                  \E q \in servers[s] : SameGroup(r, q) /\ Written[q] >= Written[r]

\* However rows, pushes and refreshes overtake each other, and however often
\* the API restarts: the list comes to show the newest values of all servers,
\* for good once rows stop coming, unless the browser has given up its stream
\* or somebody keeps loading the page.
ListCatchesUp ==
    <>[](\A s \in Services : UpToDate(s)) \/ <>[](stream = "failed")
       \/ []<><<Reload>>_listVars

\* "last seen" of a server never goes back, unless an answer was under way
\* while another query ran, or the rows it was taken from are cleaned up.
LastSeenAdvances ==
    [][\A s \in Services :
          servers'[s] # {} /\ LastSeen(servers'[s]) < LastSeen(servers[s]) =>
             crossed \/ \A r \in servers[s] : Written[r] = LastSeen(servers[s]) => r \notin table
      ]_listVars
=============================================================================
