--------------------------- MODULE ServiceLifecycle ---------------------------
(***************************************************************************)
(* One server process from start to exit: the order of startup and         *)
(* shutdown in src/main.rs, the loop that cleans up OAuth state, the       *)
(* guards of profiling.rs and observability.rs, the metrics guard around   *)
(* every HTTP request (app.rs) and the reporter that sends progress while  *)
(* an MCP call runs (mcp.rs).                                              *)
(***************************************************************************)
EXTENDS Integers, FiniteSets

CONSTANTS
  Requests,
  MaxBeats     \* bound on the progress notifications of a call

ASSUME BeatsAssumption == MaxBeats \in Nat \ {0}

VARIABLES
  phase,       \* where main is
  shutdown,    \* the watch channel
  cleanup,     \* the task of cleanup_loop
  profiler,    \* the agent of ProfilingGuard
  meter, tracer,   \* the providers of ObservabilityGuard
  req,         \* the HTTP requests
  activeRequests,      \* http.server.active_requests
  completed    \* http.server.request.count

lifeVars == <<phase, shutdown, cleanup, profiler, meter, tracer, req, activeRequests, completed>>

\* A request: its metrics guard, its reporter, how many notifications it has sent, and how
\* many of them after its handler had ended.
NoRequest == [state |-> "none", guard |-> "none", beat |-> "off", beats |-> 0, late |-> 0]

\* Its handler is at work: before the head of the response, or while the body streams.
Handling(r) == req[r].state \in {"running", "streaming"}
Running(r) == Handling(r) \/ req[r].state = "responding"

LifeInit ==
  /\ phase = "telemetry" /\ shutdown = FALSE /\ cleanup = "none"
  /\ profiler = "off" /\ meter = "off" /\ tracer = "off"
  /\ req = [r \in Requests |-> NoRequest]
  /\ activeRequests = 0 /\ completed = 0
-----------------------------------------------------------------------------
(* Startup.                                                                *)

\* observability::init, with an exporter or in local mode.
InitTelemetry ==
  /\ phase = "telemetry"
  /\ \E exporter \in {"on", "off"} : meter' = exporter /\ tracer' = exporter
  /\ phase' = "profiling"
  /\ UNCHANGED <<shutdown, cleanup, profiler, req, activeRequests, completed>>

\* profiling::init, with a Pyroscope URL or without.
InitProfiling ==
  /\ phase = "profiling"
  /\ profiler' \in {"off", "running"}
  /\ phase' = "starting"
  /\ UNCHANGED <<shutdown, cleanup, meter, tracer, req, activeRequests, completed>>

\* Configuration, database, migrations, OAuth, Services::production, routers, listener; then
\* the cleanup task is spawned and the server accepts requests.
Serve ==
  /\ phase = "starting"
  /\ phase' = "serving"
  /\ cleanup' = "waiting"
  /\ UNCHANGED <<shutdown, profiler, meter, tracer, req, activeRequests, completed>>

\* The Drop implementations of both guards: the agent is left to a detached thread, the
\* providers are shut down.
DropGuards ==
  /\ profiler' = IF profiler = "running" THEN "detached" ELSE profiler
  /\ meter' = "off" /\ tracer' = "off"

\* A step of startup fails, and main returns its error.
StartupFails ==
  /\ phase \in {"telemetry", "profiling", "starting"}
  /\ phase' = "exited"
  /\ DropGuards
  /\ UNCHANGED <<shutdown, cleanup, req, activeRequests, completed>>
-----------------------------------------------------------------------------
(* Requests.                                                               *)

\* instrument_request: probes of /health and /ready are not instrumented; a call of an MCP
\* tool that carries a progress token starts a reporter.
Accept(r) ==
  /\ phase = "serving" /\ req[r].state = "none"
  /\ \E probe, token \in BOOLEAN :
       /\ probe => ~token
       /\ req' = [req EXCEPT ![r] = [NoRequest EXCEPT !.state = "running",
                                       !.guard = IF probe THEN "none" ELSE "live",
                                       !.beat = IF token THEN "sleeping" ELSE "off"]]
       /\ activeRequests' = IF probe THEN activeRequests ELSE activeRequests + 1
  /\ UNCHANGED <<phase, shutdown, cleanup, profiler, meter, tracer, completed>>

AbortNothing(q) == q.beat

\* Drop of ProgressHeartbeat: the task is aborted, which takes effect where it awaits next.
Abort(q) == IF q.beat \in {"sleeping", "sending"} THEN "aborting" ELSE q.beat

FinishAgain(r) ==
  IF req[r].guard = "none" THEN UNCHANGED <<activeRequests, completed>>
  ELSE activeRequests' = activeRequests - 1 /\ completed' = completed + 1

\* RequestMetricsGuard::finish, which returns at once when it has finished before.
FinishGuard(r) ==
  IF req[r].guard # "live" THEN UNCHANGED <<activeRequests, completed>>
  ELSE activeRequests' = activeRequests - 1 /\ completed' = completed + 1

Guarded(r) == IF req[r].guard = "live" THEN "finished" ELSE req[r].guard

\* The head of the response completes the guard.  The handler has returned, and its reporter
\* was dropped with it, or goes on and streams the body.
Respond(r) ==
  /\ req[r].state = "running"
  /\ FinishGuard(r)
  /\ \E state \in {"responding", "streaming"} :
       req' = [req EXCEPT ![r].state = state, ![r].guard = Guarded(r),
                          ![r].beat = IF state = "streaming" THEN @ ELSE Abort(req[r])]
  /\ UNCHANGED <<phase, shutdown, cleanup, profiler, meter, tracer>>

\* The handler of a streamed response returns, and drops its reporter.
HandlerReturns(r) ==
  /\ req[r].state = "streaming"
  /\ req' = [req EXCEPT ![r].state = "responding", ![r].beat = Abort(req[r])]
  /\ UNCHANGED <<phase, shutdown, cleanup, profiler, meter, tracer, activeRequests, completed>>

\* The guard goes out of scope after the response, or because the client went away and the
\* request's future was dropped.
DropRequest(r) ==
  /\ Running(r)
  /\ FinishGuard(r)
  /\ req' = [req EXCEPT ![r].state = "ended", ![r].guard = Guarded(r),
                        ![r].beat = Abort(req[r])]
  /\ UNCHANGED <<phase, shutdown, cleanup, profiler, meter, tracer>>

\* The reporter: sleep, send, and again; a failed notification ends it.
Beat(r) ==
  /\ \/ /\ req[r].beat = "sleeping" /\ req[r].beats < MaxBeats
        /\ req' = [req EXCEPT ![r].beat = "sending"]
     \/ /\ req[r].beat = "sending"
        /\ \/ req' = [req EXCEPT ![r].beat = "sleeping", ![r].beats = @ + 1,
                                 ![r].late = IF Handling(r) THEN @ ELSE @ + 1]
           \/ req' = [req EXCEPT ![r].beat = "stopped"]
  /\ UNCHANGED <<phase, shutdown, cleanup, profiler, meter, tracer, activeRequests, completed>>

\* An aborted reporter stops; one that was being polled on another thread may still send the
\* notification it was about to send.
BeatAborted(r) ==
  /\ req[r].beat = "aborting"
  /\ \E sent \in {0, 1} :
       req' = [req EXCEPT ![r].beat = "stopped", ![r].beats = @ + sent, ![r].late = @ + sent]
  /\ UNCHANGED <<phase, shutdown, cleanup, profiler, meter, tracer, activeRequests, completed>>
-----------------------------------------------------------------------------
(* The cleanup loop.  Both selects look at the channel first.              *)

CleanupTick ==
  /\ cleanup = "waiting" /\ ~shutdown
  /\ cleanup' = "cleaning"
  /\ UNCHANGED <<phase, shutdown, profiler, meter, tracer, req, activeRequests, completed>>

CleanupDone ==
  /\ cleanup = "cleaning" /\ ~shutdown
  /\ cleanup' = "waiting"
  /\ UNCHANGED <<phase, shutdown, profiler, meter, tracer, req, activeRequests, completed>>

CleanupStopsBetween ==
  /\ cleanup = "waiting" /\ shutdown
  /\ cleanup' = "stopped"
  /\ UNCHANGED <<phase, shutdown, profiler, meter, tracer, req, activeRequests, completed>>

\* Also in the midst of a cleanup, which is dropped.
CleanupStops ==
  /\ cleanup \in {"waiting", "cleaning"} /\ shutdown
  /\ cleanup' = "stopped"
  /\ UNCHANGED <<phase, shutdown, profiler, meter, tracer, req, activeRequests, completed>>
-----------------------------------------------------------------------------
(* Shutdown.                                                               *)

\* SIGTERM or Ctrl-C: no more requests are accepted.
Signal ==
  /\ phase = "serving"
  /\ phase' = "draining" /\ shutdown' = TRUE
  /\ UNCHANGED <<cleanup, profiler, meter, tracer, req, activeRequests, completed>>

\* axum::serve returns when the requests have ended.
Drained ==
  /\ phase = "draining" /\ \A r \in Requests : ~Running(r)
  /\ phase' = "joining" /\ shutdown' = TRUE
  /\ UNCHANGED <<cleanup, profiler, meter, tracer, req, activeRequests, completed>>

JoinNothing ==
  /\ phase = "joining"
  /\ phase' = "profiler_shutdown"
  /\ UNCHANGED <<shutdown, cleanup, profiler, meter, tracer, req, activeRequests, completed>>

\* cleanup_task.await
Join ==
  /\ phase = "joining" /\ cleanup = "stopped"
  /\ phase' = "profiler_shutdown"
  /\ UNCHANGED <<shutdown, cleanup, profiler, meter, tracer, req, activeRequests, completed>>

\* ProfilingGuard::shutdown: a thread stops the agent, if there is one.
StopProfiler ==
  /\ phase = "profiler_shutdown" /\ profiler \in {"off", "running"}
  /\ IF profiler = "off" THEN phase' = "meter_shutdown" /\ UNCHANGED profiler
     ELSE \/ profiler' = "stopping" /\ UNCHANGED phase
          \/ profiler' = "failed" /\ phase' = "meter_shutdown"
  /\ UNCHANGED <<shutdown, cleanup, meter, tracer, req, activeRequests, completed>>

\* The thread is done, while main waits for it or after main gave up.
ProfilerStopped ==
  /\ profiler \in {"stopping", "detached"}
  /\ profiler' \in {"stopped", "failed"}
  /\ phase' = IF phase = "profiler_shutdown" THEN "meter_shutdown" ELSE phase
  /\ UNCHANGED <<shutdown, cleanup, meter, tracer, req, activeRequests, completed>>

\* recv_timeout: the thread is detached.
ProfilerTimeout ==
  /\ phase = "profiler_shutdown" /\ profiler = "stopping"
  /\ profiler' = "detached" /\ phase' = "meter_shutdown"
  /\ UNCHANGED <<shutdown, cleanup, meter, tracer, req, activeRequests, completed>>

\* ObservabilityGuard::shutdown: the meter, then the tracer, each with its own timeout.
StopMeter ==
  /\ phase = "meter_shutdown"
  /\ meter' = "off" /\ phase' = "tracer_shutdown"
  /\ UNCHANGED <<shutdown, cleanup, profiler, tracer, req, activeRequests, completed>>

StopTracer ==
  /\ phase = "tracer_shutdown"
  /\ tracer' = "off" /\ phase' = "exited"
  /\ UNCHANGED <<shutdown, cleanup, profiler, meter, req, activeRequests, completed>>
-----------------------------------------------------------------------------
Startup == InitTelemetry \/ InitProfiling \/ Serve \/ StartupFails
Shutdown == Drained \/ Join \/ StopProfiler \/ ProfilerTimeout \/ StopMeter \/ StopTracer

LifeNext ==
  \/ Startup \/ Signal \/ Shutdown \/ ProfilerStopped
  \/ CleanupTick \/ CleanupDone \/ CleanupStops
  \/ \E r \in Requests :
       \/ Accept(r) \/ Respond(r) \/ HandlerReturns(r) \/ DropRequest(r)
       \/ Beat(r) \/ BeatAborted(r)

\* main and the spawned tasks are polled and timers fire; a request ends, because every
\* handler works under a deadline (the clients' own modules).  A cleanup need not end, nor
\* the profiler's thread.
LifeFairness ==
  /\ WF_lifeVars(Startup) /\ WF_lifeVars(Shutdown) /\ WF_lifeVars(CleanupStops)
  /\ \A r \in Requests : /\ WF_lifeVars(Respond(r) \/ HandlerReturns(r) \/ DropRequest(r))
                         /\ WF_lifeVars(BeatAborted(r))

LifeSpec == LifeInit /\ [][LifeNext]_lifeVars /\ LifeFairness
-----------------------------------------------------------------------------
(* Properties.                                                             *)

\* Every variable keeps its type.
LifeTypeOK ==
  /\ phase \in {"telemetry", "profiling", "starting", "serving", "draining", "joining",
                "profiler_shutdown", "meter_shutdown", "tracer_shutdown", "exited"}
  /\ shutdown \in BOOLEAN
  /\ cleanup \in {"none", "waiting", "cleaning", "stopped"}
  /\ profiler \in {"off", "running", "stopping", "stopped", "failed", "detached"}
  /\ {meter, tracer} \subseteq {"on", "off"}
  /\ {activeRequests, completed} \subseteq Nat

\* "Active request count returns to balance" (docs/operations/observability.md): the gauge
\* is the number of instrumented requests whose guard has not finished, and each counts as
\* completed exactly once, whether it was answered or dropped, or dropped while it was
\* being answered (app.rs:94-176).
RequestsCounted ==
  /\ activeRequests = Cardinality({r \in Requests : req[r].guard = "live"})
  /\ completed = Cardinality({r \in Requests : req[r].guard = "finished"})
  /\ \A r \in Requests : req[r].guard = "live" => req[r].state = "running"

\* "On shutdown, the server drains first"; "the service stops cleanup work before Pyroscope
\* and OpenTelemetry shutdown": no request, cleanup or profiler of this process is at work
\* when its providers are shut down, except a profiler main gave up on.
ShutdownInOrder ==
  phase \in {"meter_shutdown", "tracer_shutdown", "exited"} =>
    /\ \A r \in Requests : ~Running(r)
    /\ cleanup \in {"none", "stopped"}
    /\ profiler \notin {"running", "stopping"}
    /\ phase = "exited" => meter = "off" /\ tracer = "off"

\* "Handler completion drops the guard and aborts the reporter" (docs/architecture): after
\* its handler has ended, a reporter sends at most the notification it was about to send.
FewLateBeats == \A r \in Requests : req[r].late <= 1

\* The reporter of a call ends with the call.
ReporterEnds ==
  \A r \in Requests : req[r].state = "ended" ~> req[r].beat \in {"off", "stopped"}

\* A signal ends the process, also in the midst of a cleanup that hangs and with a profiler
\* that does not stop.
SignalEndsProcess == phase = "draining" ~> phase = "exited"

\* Requests, reporters, cleanup, profiler and providers end in order and are counted once,
\* wherever in their work the signal meets them (main.rs:62-77, app.rs:94-176).
LifecycleInOrder == LifeTypeOK /\ RequestsCounted /\ ShutdownInOrder /\ FewLateBeats

\* A signal ends the process, and a call ends its reporter.
ServerEnds == SignalEndsProcess /\ ReporterEnds
=============================================================================
