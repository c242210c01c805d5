-------------------------- MODULE CollectorProcess --------------------------
(***************************************************************************)
(* Collector inside its process (cmd/collector/main.go): on SIGTERM main   *)
(* stops the gRPC server gracefully, then the HTTP server within 10 s, and *)
(* returns, which starts the drain of the NATS connection without waiting  *)
(* for it.  Every step is one of Collector or leaves its state alone.      *)
(***************************************************************************)
EXTENDS Collector

VARIABLES
    phase,    \* what main is doing
    sigterm,  \* the context of main is cancelled
    timeUp,   \* the 10 s of srv.Shutdown have passed
    killed    \* the process was killed

processVars == <<phase, sigterm, timeUp, killed>>
allVars == <<vars, processVars>>

Open(r) == pc[r] \in {"publish", "wait"}
Grpc == Requests \ Http

ProcessTypeOK == /\ TypeOK
                 /\ phase \in {"serving", "grpc", "http", "exited"}
                 /\ sigterm \in BOOLEAN
                 /\ timeUp \in BOOLEAN
                 /\ killed \in BOOLEAN

ProcessInit == /\ Init
               /\ phase = "serving"
               /\ sigterm = FALSE
               /\ timeUp = FALSE
               /\ killed = FALSE

-----------------------------------------------------------------------------
(* main *)

Signal == /\ phase # "exited"
          /\ sigterm' = TRUE
          /\ UNCHANGED <<vars, phase, timeUp, killed>>

\* SIGKILL, at the end of the grace period or out of memory
Kill == /\ phase # "exited"
        /\ phase' = "exited"
        /\ killed' = TRUE
        /\ UNCHANGED <<vars, sigterm, timeUp>>

\* Mutant: grpcSrv.Stop(), which does not wait for calls.
StopGrpcAtOnce == /\ phase = "serving" /\ sigterm
            /\ phase' = "http"
            /\ UNCHANGED <<vars, sigterm, timeUp, killed>>

\* <-ctx.Done(), and GracefulStop: no new gRPC calls; HTTP is still served.
StopGrpc == /\ phase = "serving" /\ sigterm
            /\ phase' = "grpc"
            /\ UNCHANGED <<vars, sigterm, timeUp, killed>>

\* GracefulStop returns, and srv.Shutdown begins: no new HTTP calls.
StopHttp == /\ phase = "grpc"
            /\ \A r \in Grpc : ~Open(r)
            /\ phase' = "http"
            /\ UNCHANGED <<vars, sigterm, timeUp, killed>>

TimeUp == /\ phase = "http"
          /\ timeUp' = TRUE
          /\ UNCHANGED <<vars, phase, sigterm, killed>>

\* srv.Shutdown and main return.
Return == /\ phase = "http"
          /\ timeUp \/ \A r \in Http : ~Open(r)
          /\ phase' = "exited"
          /\ UNCHANGED <<vars, sigterm, timeUp, killed>>

-----------------------------------------------------------------------------
(* Calls and messages *)

Accepting(r) == phase \in (IF r \in Http THEN {"serving", "grpc"} ELSE {"serving"})

Call(r) == \/ Accepting(r) /\ (Receive(r) \/ Reject(r))
           \/ phase # "exited" /\ Handler(r)
           \/ phase = "exited" /\ Abort(r)

Message(x) == Store(x) \/ Lose(x)

Main == Signal \/ Kill \/ StopGrpc \/ StopHttp \/ TimeUp \/ Return

ProcessNext == \/ Main
               \/ \E r \in Requests : Call(r) /\ UNCHANGED processVars
               \/ \E x \in sent : Message(x) /\ UNCHANGED processVars

ProcessSpec == ProcessInit /\ [][ProcessNext]_allVars

\* Publish returns after 5 s at the latest, a handler of a process that has
\* ended is gone, and main goes on; nobody need send a signal.
ProcessFairness ==
    /\ \A r \in Requests : WF_allVars((Handler(r) \/ Abort(r)) /\ Call(r) /\ UNCHANGED processVars)
    /\ \A x \in Items : WF_allVars(Message(x) /\ UNCHANGED processVars)
    /\ WF_allVars(StopGrpc) /\ WF_allVars(StopHttp)
    /\ WF_allVars(TimeUp) /\ WF_allVars(Return)

FairProcessSpec == ProcessSpec /\ ProcessFairness

-----------------------------------------------------------------------------
(* Properties *)

\* A planned stop of a collector cuts no gRPC call short, and an HTTP call
\* only when it has outlived the 10 s: a call that is open when main returns
\* had a process killed, or its deadline passed.
StopCutsNothing ==
    \A r \in Requests :
       phase = "exited" /\ Open(r) => killed \/ (r \in Http /\ timeUp)

\* GracefulStop waits without a limit for calls, and calls wait for NATS: they
\* are all answered and the process ends, whatever NATS does.
StopEnds == sigterm ~> phase = "exited"
=============================================================================
