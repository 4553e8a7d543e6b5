------------------------------- MODULE Shutdown -------------------------------
(***************************************************************************)
(* The end of a server process: startServer and its signal handlers         *)
(* (src/src/server.ts), with what they end: the HTTP server, its stream     *)
(* hub (SseHub), the Postgres pool (src/src/db/pool.ts) and the worker of   *)
(* the interest queue (src/src/queue/index.ts).                             *)
(*                                                                         *)
(* On a signal:  await app.close(); await pool.end(); await worker.close(); *)
(* process.exit(0).  app.close waits for connections, not for handlers: a   *)
(* handler whose client has hung up runs on while the pool ends. pool.end   *)
(* lets the statements that are running end and refuses every other.        *)
(*                                                                         *)
(* A request is a submission: two statements, then, in one stretch, a       *)
(* broadcast, the add of its job, which nobody awaits, and the answer. Its  *)
(* job is one statement more. Requests and jobs are named alike.            *)
(***************************************************************************)
EXTENDS SseHub

CONSTANTS
  Requests,       \* submissions, each sent once
  Signals,        \* the SIGINTs and SIGTERMs one process may get
  Attempts,       \* the attempts of a job
  WorkerEnabled   \* config.workerEnabled

ASSUME AttemptsAssumption == Attempts \in Nat \ {0}
ASSUME WorkerEnabledAssumption == WorkerEnabled \in BOOLEAN

VARIABLES
  proc,            \* the process: down, starting (not listening yet), up
  closing,         \* app.close was called
  pool, worker,    \* how far they are with their end
  shutdown,        \* what each signal's handler awaits
  pc,              \* what each request's handler awaits
  hungUp,          \* requests whose client has closed its connection
  jobs, failures,  \* each submission's job, and its failed attempts
  exit             \* how the last process ended

hub == <<clients, timers, conn, feed>>
work == <<pc, hungUp, jobs, failures>>
ends == <<closing, pool, worker, shutdown>>
svars == <<hub, work, ends, proc, exit>>

ShutdownTypeOK ==
  /\ TypeOK
  /\ proc \in {"down", "starting", "up"}
  /\ closing \in BOOLEAN
  /\ pool \in {"open", "ending", "ended"}
  /\ worker \in {"off", "running", "closing"}
  /\ shutdown \in [Signals -> {"none", "close", "end", "worker", "done"}]
  /\ pc \in [Requests -> {"idle", "first", "second", "answered", "noPool", "lost"}]
  /\ hungUp \subseteq Requests
  /\ jobs \in [Requests -> {"none", "adding", "waiting", "active", "logged", "complete",
                        "failed", "lost"}]
  /\ failures \in [Requests -> Nat]
  /\ exit \in {"none", "orderly", "error", "killed"}

Started == IF WorkerEnabled THEN "running" ELSE "off"

ShutdownInit ==
  /\ Init
  /\ proc = "down" /\ closing = FALSE /\ pool = "open" /\ worker = "off"
  /\ shutdown = [s \in Signals |-> "none"]
  /\ pc = [r \in Requests |-> "idle"] /\ hungUp = {}
  /\ jobs = [r \in Requests |-> "none"] /\ failures = [r \in Requests |-> 0]
  /\ exit = "none"

\* Handlers whose statement runs; jobs the worker is at, their statement included.
Querying == {r \in Requests : pc[r] \in {"first", "second"}}
Working == {r \in Requests : jobs[r] \in {"active", "logged"}}

\* Connections that keep the HTTP server from closing.
Streaming == {c \in Clients : conn[c] \in {"open", "vanished"}}

\* The process is gone: the kernel closes its connections, an add on its way is lost,
\* and a job it worked on will be found to have stalled (Interest counts how often).
Gone(how) ==
  /\ Restart
  /\ proc' = "down" /\ exit' = how
  /\ pc' = [r \in Requests |-> IF r \in Querying THEN "lost" ELSE pc[r]]
  /\ jobs' = [r \in Requests |-> IF jobs[r] = "adding" THEN "lost"
                                 ELSE IF r \in Working THEN "waiting" ELSE jobs[r]]
  /\ closing' = FALSE /\ pool' = "open" /\ worker' = "off"
  /\ shutdown' = [s \in Signals |-> "none"]
  /\ UNCHANGED <<hungUp, failures>>

-----------------------------------------------------------------------------
(* Start. *)

\* buildServer, startWorkers and process.on, without an await in between.
Start ==
  /\ proc = "down"
  /\ proc' = "starting" /\ worker' = Started /\ exit' = "none"
  /\ UNCHANGED <<hub, work, closing, pool, shutdown>>

Listen ==
  /\ proc = "starting"
  /\ ~closing
  /\ proc' = "up"
  /\ UNCHANGED <<hub, work, ends, exit>>

\* A server that was closed does not listen any more; src/src/index.ts exits with 1.
ListenRefused ==
  /\ proc = "starting"
  /\ closing
  /\ Gone("error")

-----------------------------------------------------------------------------
(* Service. A closing server answers a request that comes in with 503. *)

\* Faulty variant: a server that is closing goes on taking requests.
ServingToTheEnd == proc = "up"

Serving == proc = "up" /\ ~closing

OpenStream(c) ==
  /\ Serving
  /\ Register(c) \/ Refuse(c)
  /\ UNCHANGED <<work, ends, proc, exit>>

CloseStream(c) ==
  /\ Leave(c) \/ Vanish(c) \/ Heartbeat(c) \/ Close(c)
  /\ UNCHANGED <<work, ends, proc, exit>>

Arrive(r) ==
  /\ Serving
  /\ pc[r] = "idle"
  /\ pc' = [pc EXCEPT ![r] = "first"]
  /\ UNCHANGED <<hub, hungUp, jobs, failures, ends, proc, exit>>

\* A client gives up waiting for its answer; the handler does not notice.
HangUp(r) ==
  /\ r \in Querying \ hungUp
  /\ hungUp' = hungUp \cup {r}
  /\ UNCHANGED <<hub, pc, jobs, failures, ends, proc, exit>>

\* The first statement has returned, and the handler asks the pool for a second one.
FirstReturns(r) ==
  /\ pc[r] = "first"
  /\ pc' = [pc EXCEPT ![r] = IF pool = "open" THEN "second" ELSE "noPool"]
  /\ UNCHANGED <<hub, hungUp, jobs, failures, ends, proc, exit>>

\* The second has: broadcast, enqueueInterest, reply.
SecondReturns(r) ==
  /\ pc[r] = "second"
  /\ pc' = [pc EXCEPT ![r] = "answered"]
  /\ jobs' = [jobs EXCEPT ![r] = "adding"]
  /\ \E message \in Messages : Broadcast(message)
  /\ UNCHANGED <<hungUp, failures, ends, proc, exit>>

AddArrives(r) ==
  /\ jobs[r] = "adding"
  /\ jobs' = [jobs EXCEPT ![r] = "waiting"]
  /\ UNCHANGED <<hub, pc, hungUp, failures, ends, proc, exit>>

\* The worker takes one job at a time. Its insert needs the pool: without it the
\* attempt has failed.
Take(r) ==
  /\ proc # "down" /\ worker = "running"
  /\ Working = {}
  /\ jobs[r] = "waiting"
  /\ IF pool = "open"
       THEN jobs' = [jobs EXCEPT ![r] = "active"] /\ failures' = failures
       ELSE /\ failures' = [failures EXCEPT ![r] = @ + 1]
            /\ jobs' = [jobs EXCEPT ![r] = IF failures[r] + 1 < Attempts THEN "waiting" ELSE "failed"]
  /\ UNCHANGED <<hub, pc, hungUp, ends, proc, exit>>

\* insertInterestEvent has returned; then Redis is told that the job is complete.
Log(r) ==
  /\ jobs[r] = "active"
  /\ jobs' = [jobs EXCEPT ![r] = "logged"]
  /\ UNCHANGED <<hub, pc, hungUp, failures, ends, proc, exit>>

Complete(r) ==
  /\ jobs[r] = "logged"
  /\ jobs' = [jobs EXCEPT ![r] = "complete"]
  /\ UNCHANGED <<hub, pc, hungUp, failures, ends, proc, exit>>

-----------------------------------------------------------------------------
(* The end. *)

\* Faulty variant: the pool is ended before the server is closed.
SignalEndsPool(s) ==
  /\ proc # "down"
  /\ shutdown[s] = "none"
  /\ closing' = TRUE /\ pool' = IF pool = "open" THEN "ending" ELSE pool
  /\ shutdown' = [shutdown EXCEPT ![s] = "end"]
  /\ UNCHANGED <<hub, work, worker, proc, exit>>

\* app.close is called, as often as signals come.
Signal(s) ==
  /\ proc # "down"
  /\ shutdown[s] = "none"
  /\ closing' = TRUE
  /\ shutdown' = [shutdown EXCEPT ![s] = "close"]
  /\ UNCHANGED <<hub, work, pool, worker, proc, exit>>

\* No connection is left, and pool.end is called for the first time.
AppClosed(s) ==
  /\ shutdown[s] = "close"
  /\ Streaming = {} /\ Querying \subseteq hungUp
  /\ pool = "open"
  /\ pool' = "ending"
  /\ shutdown' = [shutdown EXCEPT ![s] = "end"]
  /\ UNCHANGED <<hub, work, closing, worker, proc, exit>>

\* A second pool.end rejects in a signal handler, and nobody catches it: the runtime
\* ends the process or only says so.
AppClosedAgain(s) ==
  /\ shutdown[s] = "close"
  /\ Streaming = {} /\ Querying \subseteq hungUp
  /\ pool # "open"
  /\ \/ Gone("error")
     \/ /\ shutdown' = [shutdown EXCEPT ![s] = "done"]
        /\ UNCHANGED <<hub, work, closing, pool, worker, proc, exit>>

\* pool.end has returned: the worker is closed, if there is one.
PoolEnded(s) ==
  /\ shutdown[s] = "end"
  /\ Querying = {} /\ \A r \in Requests : jobs[r] # "active"
  /\ pool' = "ended"
  /\ worker' = IF worker = "off" THEN "off" ELSE "closing"
  /\ shutdown' = [shutdown EXCEPT ![s] = "worker"]
  /\ UNCHANGED <<hub, work, closing, proc, exit>>

\* Faulty variant: worker.close is not awaited.
ExitAtOnce(s) ==
  /\ shutdown[s] = "worker"
  /\ Gone("orderly")

\* worker.close, which waits for the job at work, has returned: process.exit(0).
Exit(s) ==
  /\ shutdown[s] = "worker"
  /\ Working = {}
  /\ Gone("orderly")

\* SIGKILL, a crash, or a signal before its handler is there.
Kill ==
  /\ proc # "down"
  /\ Gone("killed")

ShutdownNext ==
  \/ Start \/ Listen \/ ListenRefused \/ Kill
  \/ \E c \in Clients : OpenStream(c) \/ CloseStream(c)
  \/ \E r \in Requests : \/ Arrive(r) \/ HangUp(r) \/ FirstReturns(r) \/ SecondReturns(r)
                         \/ AddArrives(r) \/ Take(r) \/ Log(r) \/ Complete(r)
  \/ \E s \in Signals : \/ Signal(s) \/ AppClosed(s) \/ AppClosedAgain(s) \/ PoolEnded(s)
                        \/ Exit(s)

\* A socket that closed is reported, and until then its timer rings.
HubStep(c) == Heartbeat(c) \/ Close(c)

ShutdownSpec == ShutdownInit /\ [][ShutdownNext]_svars

\* Postgres answers every statement, and the event loop runs what is ready, the
\* keep-alive timers among it. Nobody has to hang up, send a signal or start the
\* process again.
FairShutdownSpec ==
  /\ ShutdownSpec
  /\ WF_svars(Listen \/ ListenRefused)
  /\ \A c \in Clients : WF_svars(HubStep(c) /\ UNCHANGED <<work, ends, proc, exit>>)
  /\ \A r \in Requests : WF_svars(FirstReturns(r) \/ SecondReturns(r))
                         /\ WF_svars(Log(r) \/ Complete(r))
  /\ \A s \in Signals : WF_svars(AppClosed(s) \/ AppClosedAgain(s) \/ PoolEnded(s) \/ Exit(s))

-----------------------------------------------------------------------------
(* Properties; those of SseHub hold here, too. *)

\* Of all requests only those whose client has hung up can lose the pool between two
\* statements: whoever waits for an answer is answered first.
PoolOutlivesClients == \A r \in Requests : pc[r] = "noPool" => r \in hungUp

\* A process that exits with 0 has finished what it had begun: no statement runs, no
\* job is at work, no stream is open. Only adds may still be on their way.
ExitsClean ==
  [][exit # "orderly" /\ exit' = "orderly" =>
       Querying = {} /\ Working = {} /\ Streaming = {}]_svars

\* A process that was told to end does, as soon as no client reads a stream; those
\* that vanished are found out.
ShutdownEnds == closing /\ (\A c \in Clients : conn[c] # "open") ~> proc = "down"
=============================================================================
