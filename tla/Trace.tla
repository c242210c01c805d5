------------------------------- MODULE Trace --------------------------------
(***************************************************************************)
(* How a trace reaches the screen: the spans table, GET /traces/:trace_id  *)
(* (cmd/api/handler.go, QuerySpansByTrace) and loadTrace of the dashboard  *)
(* (cmd/api/static/index.html), which hangs each span below its parent, as *)
(* far as that is in the answer, and renders the roots.  Spans come in any *)
(* order from agents, collector, aggregator and other clients; a parent    *)
(* may never come; requests overlap.                                       *)
(***************************************************************************)
EXTENDS Integers, FiniteSetsExt

CONSTANTS Spans,    \* spans, by span_id
          TraceOf,  \* TraceOf[s]: the trace of a span
          Traces,   \* traces somebody asks for
          Start,    \* Start[s]: its start time
          NoParent  \* the empty ParentSpanID; also a span nobody has sent

ASSUME TraceAssumption == /\ IsFiniteSet(Spans)
                          /\ TraceOf \in [Spans -> Traces]
                          /\ Start \in [Spans -> Nat]
                          /\ NoParent \notin Spans

VARIABLES
    parent,   \* what the senders say a span's parent is
    rows,     \* rows stored for a span
    field,    \* the identifier in the input field
    loading,  \* traces that are being fetched
    view      \* what the page shows: the identifier and the rows of the answer

traceVars == <<parent, rows, field, loading, view>>

NothingStored == [s \in Spans |-> 0]

TraceTypeOK == /\ parent \in [Spans -> Spans \cup {NoParent}]
               /\ rows \in [Spans -> {0, 1}]
               /\ field \in Traces
               /\ loading \subseteq Traces
               /\ view.id \in Traces
               /\ view.rows \in [Spans -> {0, 1}]

TraceInit == /\ parent \in [Spans -> Spans \cup {NoParent}]
             /\ rows = NothingStored
             /\ field \in Traces
             /\ loading = {}
             /\ view = [id |-> field, rows |-> NothingStored]

-----------------------------------------------------------------------------
(* The table *)

\* idx_spans_span_id refuses a second row.
InsertSpan(s) == /\ rows[s] = 0
                 /\ rows' = [rows EXCEPT ![s] = 1]
                 /\ UNCHANGED <<parent, field, loading, view>>

\* cleanup_old_telemetry removes what began before the cutoff.
CleanupSpans(cutoff) ==
    /\ rows' = [s \in Spans |-> IF Start[s] < cutoff THEN 0 ELSE rows[s]]
    /\ UNCHANGED <<parent, field, loading, view>>

-----------------------------------------------------------------------------
(* The page *)

\* loadTrace reads the field and awaits the answer.
Load(id) == /\ field' = id
            /\ loading' = loading \cup {id}
            /\ UNCHANGED <<parent, rows, view>>

\* WHERE trace_id = $1
OfTrace(id) == [s \in Spans |-> IF TraceOf[s] = id THEN rows[s] ELSE 0]

\* Mutant: the field is read again after the await.
RenderField(id) == /\ id \in loading
                   /\ loading' = loading \ {id}
                   /\ view' = [id |-> field, rows |-> OfTrace(id)]
                   /\ UNCHANGED <<parent, rows, field>>

\* An answer comes, also after that of a later request: it is rendered with
\* the identifier it was asked for; a trace without rows is a 404.
Render(id) == /\ id \in loading
              /\ loading' = loading \ {id}
              /\ view' = [id |-> id, rows |-> OfTrace(id)]
              /\ UNCHANGED <<parent, rows, field>>

TraceNext == \/ \E s \in Spans : InsertSpan(s) \/ CleanupSpans(Start[s])
             \/ \E id \in Traces : Load(id) \/ Render(id)

TraceSpec == TraceInit /\ [][TraceNext]_traceVars

-----------------------------------------------------------------------------
(* The tree of the spans in view *)

\* Mutant: only spans without a ParentSpanID are roots.
IsRootIfUnnamed(s) == parent[s] = NoParent

\* byId has no entry for the parent, or there is none.
IsRoot(s) == parent[s] = NoParent \/ view.rows[parent[s]] = 0

\* Rendered[d][s]: how often renderSpan(s, depth) is called at depths up to d.
\* Each row of a span is a child of every rendering of its parent.
Rendered[d \in Nat] ==
    [s \in Spans |-> IF IsRoot(s) THEN view.rows[s]
                     ELSE IF d = 0 THEN 0
                     ELSE view.rows[s] * Rendered[d - 1][parent[s]]]

\* No tree is deeper than there are spans.
Renderings(s) == Rendered[Cardinality(Spans)][s]

\* Ancestors[d][s]: the span d steps above s in view, or NoParent.
Ancestors[d \in Nat] ==
    [s \in Spans |-> IF d = 0 THEN s
                     ELSE IF parent[s] = NoParent THEN NoParent
                     ELSE IF view.rows[parent[s]] = 0 THEN NoParent
                     ELSE Ancestors[d - 1][parent[s]]]

\* The way up from s comes to a span a second time.
Circular(s) == \E m, n \in 0..Cardinality(Spans) :
                  m < n /\ Ancestors[m][s] = Ancestors[n][s] /\ Ancestors[n][s] # NoParent

-----------------------------------------------------------------------------
(* Properties *)

\* Every span of the answer is on the screen exactly once, in whatever order
\* spans arrive, and also while, or after, its ancestors are missing: the
\* collector's span that failed to be published, a parent already cleaned up.
\* Only spans that are their own ancestors, or below such, are not shown.
ShownOnce ==
    \A s \in Spans :
       view.rows[s] > 0 => Renderings(s) = IF Circular(s) THEN 0 ELSE 1

\* Requests that overtake each other do not mix: the spans on the screen are
\* those of the trace that is named above them.
SpansAreOfTheTraceNamed ==
    \A s \in Spans : view.rows[s] > 0 => TraceOf[s] = view.id
=============================================================================
