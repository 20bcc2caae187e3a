----------------------------- MODULE ServerProofs -----------------------------
(***************************************************************************)
(* The signing keys for any number of servers, pools of any size and any   *)
(* number of starts, and the life of one server with any set of requests.  *)
(*                                                                         *)
(* KeyInv is inductive: the lock makes "no key is active", once read, stay *)
(* true until its holder has acted on it.  LifeInv says what is over in    *)
(* each phase of main, and what a request's guard and reporter may still   *)
(* do.                                                                     *)
(***************************************************************************)
EXTENDS MCServer, FiniteSetTheorems, TLAPS

-----------------------------------------------------------------------------
(* Servers that start together.                                            *)

\* The states of a start, spelt out for the provers.
LEMMA States ==
  /\ Locked = {"inspect", "generate", "activate", "validate", "commit"}
  /\ Starting = {"prepare", "begin", "lock", "inspect", "generate", "activate", "validate",
                 "commit"}
BY DEF Locked, Starting

\* KeyInv holds before any server starts.
LEMMA KeyInvInit == Init => KeyInv
<1> SUFFICES ASSUME Init PROVE KeyInv
  OBVIOUS
<1>1. TypeOK
  BY StartsAssumption DEF Init, TypeOK
<1>2. OneActiveKey /\ LockCoversWork
  BY NoneAssumption DEF Init, OneActiveKey, LockCoversWork, Locked
<1> QED
  BY <1>1, <1>2 DEF Init, KeyInv

\* Steps of a start that change neither keys nor the lock.
LEMMA QuietSteps ==
  ASSUME KeyInv, NEW s \in Servers,
         Start(s) \/ Prepare(s) \/ BeginTransaction(s) \/ Inspect(s) \/ Validate(s)
  PROVE  KeyInv'
<1> USE DEF KeyInv
<1>1. CASE Start(s)
  <2>1. TypeOK'
    BY <1>1, StartsAssumption DEF Start, Goto, TypeOK, Starting
  <2>2. OneActiveKey' /\ LockCoversWork'
    BY <1>1 DEF Start, Goto, TypeOK, OneActiveKey, LockCoversWork, Locked
  <2> QED
    BY <1>1, <2>1, <2>2 DEF Start, Goto, TypeOK
<1>2. CASE Prepare(s)
  <2>1. TypeOK'
    BY <1>2 DEF Prepare, Goto, TypeOK, Starting
  <2>2. OneActiveKey' /\ LockCoversWork'
    BY <1>2 DEF Prepare, Goto, TypeOK, OneActiveKey, LockCoversWork, Locked
  <2> QED
    BY <1>2, <2>1, <2>2 DEF Prepare, Goto, TypeOK
<1>3. CASE BeginTransaction(s)
  <2>1. conns[s] = 0
    BY <1>3 DEF BeginTransaction, LockCoversWork, Locked
  <2>2. TypeOK'
    BY <1>3, <2>1 DEF BeginTransaction, Goto, TypeOK, Starting
  <2>3. OneActiveKey' /\ LockCoversWork'
    BY <1>3, <2>1 DEF BeginTransaction, Goto, TypeOK, OneActiveKey, LockCoversWork, Locked
  <2> QED
    BY <1>3, <2>2, <2>3 DEF BeginTransaction, Goto, TypeOK
<1>4. CASE Inspect(s)
  <2>1. size[s] # 1
    BY <1>4, PoolSizesAssumption DEF Inspect, Spare, LockCoversWork, Locked, TypeOK
  <2>2. TypeOK'
    BY <1>4 DEF Inspect, Goto, TypeOK, Starting, Locked
  <2>3. OneActiveKey' /\ LockCoversWork'
    BY <1>4 DEF Inspect, Goto, TypeOK, OneActiveKey, LockCoversWork, Locked
  <2> QED
    BY <1>4, <2>1, <2>2, <2>3 DEF Inspect, Goto, TypeOK
<1>5. CASE Validate(s)
  <2>1. TypeOK'
    BY <1>5 DEF Validate, Goto, TypeOK, Starting, Locked
  <2>2. OneActiveKey' /\ LockCoversWork'
    BY <1>5 DEF Validate, Goto, TypeOK, OneActiveKey, LockCoversWork, Locked
  <2> QED
    BY <1>5, <2>1, <2>2 DEF Validate, Goto, TypeOK
<1> QED
  BY <1>1, <1>2, <1>3, <1>4, <1>5

\* Taking the lock: nobody else is at work.
LEMMA LockStep ==
  ASSUME KeyInv, NEW s \in Servers, Lock(s)
  PROVE  KeyInv'
<1> USE DEF KeyInv
<1>1. TypeOK'
  BY DEF Lock, Goto, TypeOK, Starting, Locked
<1>2. OneActiveKey' /\ LockCoversWork'
  BY NoneAssumption DEF Lock, Goto, TypeOK, OneActiveKey, LockCoversWork, Locked
<1> QED
  BY <1>1, <1>2 DEF Lock, Goto, TypeOK

\* Only the holder of the lock is between its first query and its commit.
LEMMA Exclusive ==
  ASSUME LockCoversWork, NEW s \in Servers, NEW t \in Servers,
         pc[s] \in Locked, pc[t] \in Locked
  PROVE  s = t
BY DEF LockCoversWork

\* Making a key: there was no active one, and nobody else relies on that.
LEMMA KeySteps ==
  ASSUME KeyInv, NEW s \in Servers, Generate(s) \/ Activate(s)
  PROVE  KeyInv'
<1> USE DEF KeyInv
<1>1. pc[s] \in Locked /\ active = {}
  BY DEF Generate, Activate, Locked
<1>2. \A t \in Servers \ {s} : pc[t] \notin Locked
  BY <1>1, Exclusive
<1>3. CASE Generate(s)
  <2>1. TypeOK'
    <3>1. made' \in Nat /\ active' \subseteq 1..made'
      BY <1>1, <1>3 DEF Generate, TypeOK
    <3>2. mine' \in [Servers -> 0..made']
      BY <1>3 DEF Generate, TypeOK
    <3>3. pc' \in [Servers -> {"down", "failed", "ready"} \cup Starting]
      BY <1>3 DEF Generate, TypeOK, Goto, Starting, Locked
    <3> QED
      BY <1>3, <3>1, <3>2, <3>3 DEF Generate, TypeOK
  <2>2. OneActiveKey'
    BY <1>1, <1>3 DEF Generate, OneActiveKey
  <2>3. LockCoversWork'
    BY <1>3 DEF Generate, Goto, TypeOK, LockCoversWork, Locked
  <2>4. \A t \in Servers : pc'[t] \in {"generate", "activate"} => active' = {}
    BY <1>1, <1>2, <1>3 DEF Generate, Goto, TypeOK, Locked
  <2>5. \A t \in Servers : pc'[t] = "activate" => mine'[t] \in 1..made'
    BY <1>2, <1>3 DEF Generate, Goto, TypeOK, Locked
  <2>6. \A t \in Servers : pc'[t] \in {"commit", "ready"} => active' # {}
    BY <1>1, <1>3 DEF Generate, Goto, TypeOK
  <2>7. \A t \in Servers :
          size'[t] = 1 => pc'[t] \notin {"generate", "activate", "validate", "commit", "ready"}
    BY <1>3 DEF Generate, Goto, TypeOK
  <2> QED
    BY <2>1, <2>2, <2>3, <2>4, <2>5, <2>6, <2>7
<1>4. CASE Activate(s)
  <2>1. TypeOK'
    <3>1. mine[s] \in 1..made
      BY <1>4 DEF Activate
    <3> QED
      BY <1>1, <1>4, <3>1 DEF Activate, TypeOK, Goto, Starting, Locked
  <2>2. OneActiveKey' /\ LockCoversWork'
    BY <1>1, <1>4 DEF Activate, Goto, TypeOK, OneActiveKey, LockCoversWork, Locked
  <2>3. \A t \in Servers : pc'[t] \in {"generate", "activate"} => active' = {}
    BY <1>2, <1>4 DEF Activate, Goto, TypeOK, Locked
  <2> QED
    BY <1>4, <2>1, <2>2, <2>3 DEF Activate, Goto, TypeOK
<1> QED
  BY <1>3, <1>4

\* The ends of a start: the commit, an error, a crash.
LEMMA EndSteps ==
  ASSUME KeyInv, NEW s \in Servers,
         Commit(s) \/ StepFails(s) \/ AcquireTimesOut(s) \/ Crash(s)
  PROVE  KeyInv'
<1> USE DEF KeyInv
<1>1. CASE Commit(s)
  <2>1. TypeOK'
    BY <1>1 DEF Commit, Goto, TypeOK, Starting
  <2>2. OneActiveKey' /\ LockCoversWork'
    BY <1>1, NoneAssumption DEF Commit, Goto, TypeOK, OneActiveKey, LockCoversWork, Locked
  <2> QED
    BY <1>1, <2>1, <2>2 DEF Commit, Goto, TypeOK
<1>2. ASSUME NEW p \in {"failed", "down"}, End(s, p)
      PROVE  KeyInv'
  <2>1. TypeOK'
    BY <1>2 DEF End, Goto, TypeOK, Starting
  <2>2. OneActiveKey' /\ LockCoversWork'
    BY <1>2, NoneAssumption DEF End, Goto, TypeOK, OneActiveKey, LockCoversWork, Locked
  <2> QED
    BY <1>2, <2>1, <2>2 DEF End, Goto, TypeOK
<1> QED
  BY <1>1, <1>2 DEF StepFails, AcquireTimesOut, Crash

\* KeyInv is inductive.
LEMMA KeyInvNext == KeyInv /\ [Next]_vars => KeyInv'
<1> SUFFICES ASSUME KeyInv, [Next]_vars PROVE KeyInv'
  OBVIOUS
<1>1. CASE Next
  BY <1>1, QuietSteps, LockStep, KeySteps, EndSteps DEF Next, Step
<1>2. CASE UNCHANGED vars
  BY <1>2 DEF vars, KeyInv, TypeOK, OneActiveKey, LockCoversWork
<1> QED
  BY <1>1, <1>2

\* The inductive invariant holds throughout, for every set of servers and pool sizes.
THEOREM KeyInvHolds == Spec => []KeyInv
<1> QED
  BY KeyInvInit, KeyInvNext, PTL DEF Spec

\* Type correctness.
THEOREM TypeCorrect == Spec => []TypeOK
<1>1. KeyInv => TypeOK
  BY DEF KeyInv
<1> QED
  BY <1>1, KeyInvHolds, PTL

\* There is never more than one active signing key, whatever starts, fails and crashes.
THEOREM AtMostOneActiveKey == Spec => []OneActiveKey
<1>1. KeyInv => OneActiveKey
  BY DEF KeyInv
<1> QED
  BY <1>1, KeyInvHolds, PTL

\* A server that serves has a signing key.
THEOREM ServingHasKey == Spec => []ReadyHasKey
<1>1. KeyInv => ReadyHasKey
  BY DEF KeyInv, ReadyHasKey
<1> QED
  BY <1>1, KeyInvHolds, PTL

\* The advisory lock covers the work of its holder and nothing more.
THEOREM LockIsHeldForWork == Spec => []LockCoversWork
<1>1. KeyInv => LockCoversWork
  BY DEF KeyInv
<1> QED
  BY <1>1, KeyInvHolds, PTL

\* A server whose pool has one connection never serves.
THEOREM PoolOfOneNeverServes == Spec => []OneConnectionNeverReady
<1>1. KeyInv => OneConnectionNeverReady
  BY DEF KeyInv, OneConnectionNeverReady
<1> QED
  BY <1>1, KeyInvHolds, PTL
-----------------------------------------------------------------------------
(* One server from its start to its end.                                   *)

Guards == {"none", "live", "finished"}
Beats == {"off", "sleeping", "sending", "aborting", "stopped"}
ReqRecord ==
  [state : {"none", "running", "streaming", "responding", "ended"}, guard : Guards,
   beat : Beats, beats : Nat, late : Nat]
AtWork == {"running", "streaming"}

\* A guard is live until the head of the response.  A reporter whose handler has ended has been
\* aborted, and sends nothing more but what it was about to send.
ReqInv(q) ==
  /\ q.state = "none" => q.guard = "none"
  /\ q.guard = "live" => q.state = "running"
  /\ q.beat \in {"sleeping", "sending"} => q.state \in AtWork /\ q.late = 0
  /\ q.beat = "aborting" => q.late = 0
  /\ q.late <= 1

\* What is over, and what has not begun, in each phase of main.
PhaseInv ==
  /\ phase \in {"telemetry", "profiling"} => profiler = "off"
  /\ profiler = "running" =>
       phase \in {"starting", "serving", "draining", "joining", "profiler_shutdown"}
  /\ profiler = "stopping" => phase = "profiler_shutdown"
  /\ phase \in {"telemetry", "profiling", "starting"} => cleanup = "none"
  /\ phase \in {"profiler_shutdown", "meter_shutdown", "tracer_shutdown", "exited"} =>
       cleanup \in {"none", "stopped"}
  /\ phase \in {"tracer_shutdown", "exited"} => meter = "off"
  /\ phase = "exited" => tracer = "off"

Accepting == phase \in {"serving", "draining"}
Guarding(g) == {r \in Requests : req[r].guard = g}

LifeInv ==
  /\ LifeTypeOK /\ PhaseInv /\ req \in [Requests -> ReqRecord]
  /\ \A g \in {"live", "finished"} : IsFiniteSet(Guarding(g))
  /\ activeRequests = Cardinality(Guarding("live"))
  /\ completed = Cardinality(Guarding("finished"))
  /\ \A r \in Requests : ReqInv(req[r]) /\ (Running(r) => Accepting)

\* A set that gains or loses at most one element.
LEMMA CountStep ==
  ASSUME NEW S, NEW T, NEW c, IsFiniteSet(S), T \ {c} = S \ {c}
  PROVE  /\ IsFiniteSet(T) /\ Cardinality(S) \in Nat /\ Cardinality(T) \in Nat
         /\ Cardinality(T) = (Cardinality(S) + (IF c \in T THEN 1 ELSE 0))
                               - (IF c \in S THEN 1 ELSE 0)
<1>1. Cardinality(S) \in Nat
  BY FS_CardinalityType
<1>2. CASE c \in T
  <2>1. T = S \cup {c}
    BY <1>2
  <2>2. /\ IsFiniteSet(S \cup {c})
        /\ Cardinality(S \cup {c}) = IF c \in S THEN Cardinality(S) ELSE Cardinality(S) + 1
    BY FS_AddElement
  <2> QED
    BY <1>1, <1>2, <2>1, <2>2
<1>3. CASE c \notin T
  <2>1. T = S \ {c}
    BY <1>3
  <2>2. /\ IsFiniteSet(S \ {c}) /\ Cardinality(S \ {c}) \in Nat
        /\ Cardinality(S \ {c}) = IF c \in S THEN Cardinality(S) - 1 ELSE Cardinality(S)
    BY FS_RemoveElement, FS_CardinalityType
  <2> QED
    BY <1>1, <1>3, <2>1, <2>2
<1> QED
  BY <1>2, <1>3

\* A request stays one when one of its fields changes.
LEMMA ReqFieldUpdates ==
  ASSUME NEW q \in ReqRecord
  PROVE  /\ \A v \in {"none", "running", "streaming", "responding", "ended"} :
              [q EXCEPT !.state = v] \in ReqRecord
         /\ \A v \in Guards : [q EXCEPT !.guard = v] \in ReqRecord
         /\ \A v \in Beats : [q EXCEPT !.beat = v] \in ReqRecord
         /\ \A v \in Nat : [q EXCEPT !.beats = v] \in ReqRecord
         /\ \A v \in Nat : [q EXCEPT !.late = v] \in ReqRecord
BY DEF ReqRecord

\* A step of one request: the gauge and the counter follow its guard.
LEMMA RequestStep ==
  ASSUME LifeInv, NEW r \in Requests, NEW n \in ReqRecord, req' = [req EXCEPT ![r] = n],
         ReqInv(n), n.state \in {"running", "streaming", "responding"} => Accepting,
         UNCHANGED <<phase, shutdown, cleanup, profiler, meter, tracer>>,
         activeRequests' = (activeRequests + (IF n.guard = "live" THEN 1 ELSE 0))
                             - (IF req[r].guard = "live" THEN 1 ELSE 0),
         completed' = (completed + (IF n.guard = "finished" THEN 1 ELSE 0))
                        - (IF req[r].guard = "finished" THEN 1 ELSE 0)
  PROVE  LifeInv'
<1>1. /\ req' \in [Requests -> ReqRecord] /\ req'[r] = n
      /\ \A d \in Requests \ {r} : req'[d] = req[d]
  BY DEF LifeInv
<1>2. ASSUME NEW g \in {"live", "finished"}
      PROVE  /\ IsFiniteSet(Guarding(g)') /\ Cardinality(Guarding(g)') \in Nat
             /\ Cardinality(Guarding(g)') =
                  (Cardinality(Guarding(g)) + (IF n.guard = g THEN 1 ELSE 0))
                    - (IF req[r].guard = g THEN 1 ELSE 0)
  <2> DEFINE S == Guarding(g)
             T == Guarding(g)'
  <2>1. /\ T \ {r} = S \ {r}
        /\ r \in T <=> n.guard = g
        /\ r \in S <=> req[r].guard = g
    BY <1>1 DEF Guarding
  <2>2. IsFiniteSet(S)
    BY DEF LifeInv
  <2> HIDE DEF S, T
  <2>3. /\ IsFiniteSet(T) /\ Cardinality(T) \in Nat
        /\ Cardinality(T) = (Cardinality(S) + (IF r \in T THEN 1 ELSE 0))
                              - (IF r \in S THEN 1 ELSE 0)
    BY <2>1, <2>2, CountStep
  <2>4. /\ IsFiniteSet(T) /\ Cardinality(T) \in Nat
        /\ Cardinality(T) = (Cardinality(S) + (IF n.guard = g THEN 1 ELSE 0))
                              - (IF req[r].guard = g THEN 1 ELSE 0)
    BY <2>1, <2>3
  <2> QED
    BY <2>4 DEF S, T
<1>3. /\ activeRequests' = Cardinality(Guarding("live"))'
      /\ completed' = Cardinality(Guarding("finished"))'
  BY <1>2 DEF LifeInv
<1>4. LifeTypeOK' /\ PhaseInv'
  BY <1>2, <1>3 DEF LifeInv, LifeTypeOK, PhaseInv
<1>5. \A d \in Requests : ReqInv(req[d])' /\ (Running(d)' => Accepting')
  BY <1>1 DEF LifeInv, ReqInv, Running, Handling, Accepting
<1> QED
  BY <1>1, <1>2, <1>3, <1>4, <1>5 DEF LifeInv

\* A step of main, of the cleanup loop or of the profiler's thread.
LEMMA MainStep ==
  ASSUME LifeInv, UNCHANGED <<req, activeRequests, completed>>, LifeTypeOK', PhaseInv',
         Accepting' \/ \A r \in Requests : ~Running(r)
  PROVE  LifeInv'
<1>1. \A g \in {"live", "finished"} : Guarding(g)' = Guarding(g)
  BY DEF Guarding
<1>2. \A r \in Requests : ReqInv(req[r])' /\ (Running(r)' => Running(r))
  BY DEF LifeInv, ReqInv, Running, Handling
<1>3. /\ \A g \in {"live", "finished"} : IsFiniteSet(Guarding(g))'
      /\ activeRequests' = Cardinality(Guarding("live"))'
      /\ completed' = Cardinality(Guarding("finished"))'
  BY <1>1 DEF LifeInv
<1> QED
  BY <1>2, <1>3 DEF LifeInv

\* Startup, the signal, the cleanup loop and shutdown.
LEMMA MainSteps ==
  ASSUME LifeInv,
         \/ Startup \/ Signal \/ Shutdown \/ ProfilerStopped
         \/ CleanupTick \/ CleanupDone \/ CleanupStops
  PROVE  LifeInv'
<1>1. CASE Startup
  <2>1. LifeTypeOK'
    BY <1>1 DEF LifeInv, LifeTypeOK, Startup, InitTelemetry, InitProfiling, Serve, StartupFails,
                DropGuards
  <2>2. PhaseInv'
    BY <1>1 DEF LifeInv, LifeTypeOK, PhaseInv, Startup, InitTelemetry, InitProfiling, Serve,
                StartupFails, DropGuards
  <2>3. UNCHANGED <<req, activeRequests, completed>> /\ \A r \in Requests : ~Running(r)
    BY <1>1 DEF LifeInv, Startup, InitTelemetry, InitProfiling, Serve, StartupFails, Accepting
  <2> QED
    BY <2>1, <2>2, <2>3, MainStep
<1>2. CASE Signal \/ Drained
  <2>1. LifeTypeOK' /\ PhaseInv'
    BY <1>2 DEF LifeInv, LifeTypeOK, PhaseInv, Signal, Drained
  <2>2. /\ UNCHANGED <<req, activeRequests, completed>>
        /\ Accepting' \/ \A r \in Requests : ~Running(r)
    BY <1>2 DEF Signal, Drained, Accepting
  <2> QED
    BY <2>1, <2>2, MainStep
<1>3. CASE Join \/ StopProfiler \/ ProfilerTimeout \/ StopMeter \/ StopTracer
  <2>1. LifeTypeOK'
    BY <1>3 DEF LifeInv, LifeTypeOK, Join, StopProfiler, ProfilerTimeout, StopMeter, StopTracer
  <2>2. PhaseInv'
    BY <1>3 DEF LifeInv, LifeTypeOK, PhaseInv, Join, StopProfiler, ProfilerTimeout, StopMeter,
                StopTracer
  <2>3. UNCHANGED <<req, activeRequests, completed>> /\ \A r \in Requests : ~Running(r)
    BY <1>3 DEF LifeInv, Accepting, Join, StopProfiler, ProfilerTimeout, StopMeter, StopTracer
  <2> QED
    BY <2>1, <2>2, <2>3, MainStep
<1>4. CASE ProfilerStopped \/ CleanupTick \/ CleanupDone \/ CleanupStops
  <2>1. LifeTypeOK'
    BY <1>4 DEF LifeInv, LifeTypeOK, ProfilerStopped, CleanupTick, CleanupDone, CleanupStops
  <2>2. PhaseInv'
    BY <1>4 DEF LifeInv, LifeTypeOK, PhaseInv, ProfilerStopped, CleanupTick, CleanupDone,
                CleanupStops
  <2>3. /\ UNCHANGED <<req, activeRequests, completed>>
        /\ Accepting' \/ \A r \in Requests : ~Running(r)
    BY <1>4 DEF LifeInv, Accepting, ProfilerStopped, CleanupTick, CleanupDone, CleanupStops
  <2> QED
    BY <2>1, <2>2, <2>3, MainStep
<1> QED
  BY <1>1, <1>2, <1>3, <1>4 DEF Shutdown

\* The requests, their guards and their reporters.
LEMMA AcceptStep ==
  ASSUME LifeInv, NEW r \in Requests, Accept(r)
  PROVE  LifeInv'
<1>1. /\ phase = "serving" /\ req[r].state = "none" /\ req[r] \in ReqRecord /\ ReqInv(req[r])
      /\ UNCHANGED <<phase, shutdown, cleanup, profiler, meter, tracer, completed>>
      /\ activeRequests \in Nat /\ completed \in Nat
  BY DEF Accept, LifeInv, LifeTypeOK
<1>2. PICK probe \in BOOLEAN, token \in BOOLEAN :
        /\ req' = [req EXCEPT ![r] = [NoRequest EXCEPT !.state = "running",
                                        !.guard = IF probe THEN "none" ELSE "live",
                                        !.beat = IF token THEN "sleeping" ELSE "off"]]
        /\ activeRequests' = IF probe THEN activeRequests ELSE activeRequests + 1
  BY DEF Accept
<1> DEFINE g == IF probe THEN "none" ELSE "live"
           b == IF token THEN "sleeping" ELSE "off"
           n == [NoRequest EXCEPT !.state = "running", !.guard = g, !.beat = b]
<1>3. /\ g \in {"none", "live"} /\ b \in {"sleeping", "off"}
      /\ activeRequests' = (activeRequests + (IF g = "live" THEN 1 ELSE 0)) - 0
  BY <1>1, <1>2
<1>4. req' = [req EXCEPT ![r] = n]
  BY <1>2
<1> HIDE DEF g, b
<1>5. n \in ReqRecord
  BY <1>3 DEF NoRequest, ReqRecord, Guards, Beats
<1>6. n.state = "running" /\ n.guard = g /\ n.beat = b /\ n.late = 0
  BY DEF NoRequest
<1> HIDE DEF n
<1>7. ReqInv(n) /\ Accepting
  BY <1>1, <1>3, <1>6 DEF ReqInv, Accepting, AtWork
<1>8. req[r].guard # "live"
  BY <1>1 DEF ReqInv
<1>9. req[r].guard # "finished"
  BY <1>1 DEF ReqInv
<1>10. /\ activeRequests' = (activeRequests + (IF n.guard = "live" THEN 1 ELSE 0))
                              - (IF req[r].guard = "live" THEN 1 ELSE 0)
       /\ completed' = (completed + (IF n.guard = "finished" THEN 1 ELSE 0))
                         - (IF req[r].guard = "finished" THEN 1 ELSE 0)
  BY <1>1, <1>3, <1>6, <1>8, <1>9
<1>11. UNCHANGED <<phase, shutdown, cleanup, profiler, meter, tracer>>
  BY <1>1
<1> QED
  BY <1>4, <1>5, <1>7, <1>10, <1>11, RequestStep

\* The head of the response is sent, the handler returns, or the request is dropped: its
\* guard finishes if it has not yet, and its reporter goes on only with its handler.
LEMMA RequestAdvances ==
  ASSUME LifeInv, NEW r \in Requests, NEW state \in {"streaming", "responding", "ended"},
         NEW b \in {req[r].beat, Abort(req[r])}, Running(r), FinishGuard(r),
         IF state = "streaming" THEN req[r].state \in AtWork ELSE b = Abort(req[r]),
         req' = [req EXCEPT ![r].state = state, ![r].guard = Guarded(r), ![r].beat = b],
         UNCHANGED <<phase, shutdown, cleanup, profiler, meter, tracer>>
  PROVE  LifeInv'
<1>1. /\ req[r] \in ReqRecord /\ ReqInv(req[r]) /\ Accepting
      /\ activeRequests \in Nat /\ completed \in Nat
  BY DEF LifeInv, LifeTypeOK
<1> DEFINE g == Guarded(r)
           n == [req[r] EXCEPT !.state = state, !.guard = g, !.beat = b]
<1>2. req' = [req EXCEPT ![r] = n]
  OBVIOUS
<1>3. /\ g \in {"none", "finished"} /\ b \in Beats
      /\ req[r].guard = "finished" <=> g = "finished" /\ req[r].guard # "live"
      /\ b = "aborting" => req[r].late = 0
      /\ b \in {"sleeping", "sending"} => state = "streaming" /\ req[r].late = 0
  BY <1>1 DEF Guarded, Abort, ReqRecord, Guards, Beats, ReqInv
<1>4. /\ activeRequests' = activeRequests - (IF req[r].guard = "live" THEN 1 ELSE 0)
      /\ completed' = completed + (IF req[r].guard = "live" THEN 1 ELSE 0)
  BY <1>1 DEF FinishGuard
<1>5. req[r].guard = "live" => g = "finished"
  BY DEF Guarded
<1> HIDE DEF g
<1>6. n \in ReqRecord
  <2>1. [req[r] EXCEPT !.state = state] \in ReqRecord
    BY <1>1, ReqFieldUpdates
  <2>2. [req[r] EXCEPT !.state = state, !.guard = g] \in ReqRecord
    BY <1>3, <2>1, ReqFieldUpdates DEF Guards
  <2> QED
    BY <1>3, <2>2, ReqFieldUpdates
<1>7. n.state = state /\ n.guard = g /\ n.beat = b /\ n.late = req[r].late
  BY <1>1 DEF ReqRecord
<1> HIDE DEF n
<1>8. ReqInv(n)
  BY <1>1, <1>3, <1>7 DEF ReqInv, AtWork
<1>9. /\ activeRequests' = (activeRequests + (IF n.guard = "live" THEN 1 ELSE 0))
                             - (IF req[r].guard = "live" THEN 1 ELSE 0)
      /\ completed' = (completed + (IF n.guard = "finished" THEN 1 ELSE 0))
                        - (IF req[r].guard = "finished" THEN 1 ELSE 0)
  BY <1>1, <1>3, <1>4, <1>5, <1>7
<1> QED
  BY <1>1, <1>2, <1>6, <1>8, <1>9, RequestStep

\* A reporter goes on, sends, stops, or is stopped.
LEMMA BeatStep ==
  ASSUME LifeInv, NEW r \in Requests, NEW n \in ReqRecord, req' = [req EXCEPT ![r] = n],
         n.state = req[r].state, n.guard = req[r].guard, n.late <= 1, n.beat # "aborting",
         n.beat \in {"sleeping", "sending"} => req[r].state \in AtWork /\ n.late = 0,
         UNCHANGED <<phase, shutdown, cleanup, profiler, meter, tracer, activeRequests, completed>>
  PROVE  LifeInv'
<1>1. /\ ReqInv(req[r]) /\ (Running(r) => Accepting)
      /\ activeRequests \in Nat /\ completed \in Nat
  BY DEF LifeInv, LifeTypeOK
<1>2. ReqInv(n) /\ (n.state \in {"running", "streaming", "responding"} => Accepting)
  BY <1>1 DEF ReqInv, Running, Handling
<1>3. /\ activeRequests' = (activeRequests + (IF n.guard = "live" THEN 1 ELSE 0))
                             - (IF req[r].guard = "live" THEN 1 ELSE 0)
      /\ completed' = (completed + (IF n.guard = "finished" THEN 1 ELSE 0))
                        - (IF req[r].guard = "finished" THEN 1 ELSE 0)
  BY <1>1
<1> QED
  BY <1>2, <1>3, RequestStep

\* A progress reporter beats, or stops because its call has ended.
LEMMA ReporterSteps ==
  ASSUME LifeInv, NEW r \in Requests, Beat(r) \/ BeatAborted(r)
  PROVE  LifeInv'
<1>1. req[r] \in ReqRecord /\ ReqInv(req[r])
  BY DEF LifeInv
<1>2. UNCHANGED <<phase, shutdown, cleanup, profiler, meter, tracer, activeRequests, completed>>
  BY DEF Beat, BeatAborted
<1>3. ASSUME NEW b \in {"sending", "stopped"}, req' = [req EXCEPT ![r].beat = b],
             req[r].beat \in {"sleeping", "sending"}
      PROVE  LifeInv'
  <2> DEFINE n == [req[r] EXCEPT !.beat = b]
  <2>1. req' = [req EXCEPT ![r] = n]
    BY <1>3
  <2>2. n \in ReqRecord
    BY <1>1, ReqFieldUpdates DEF Beats
  <2>3. n.state = req[r].state /\ n.guard = req[r].guard /\ n.beat = b /\ n.late = req[r].late
    BY <1>1 DEF ReqRecord
  <2> HIDE DEF n
  <2>4. req[r].state \in AtWork /\ n.late = 0
    BY <1>1, <1>3, <2>3 DEF ReqInv
  <2>5. /\ n.late <= 1 /\ n.beat # "aborting"
        /\ n.beat \in {"sleeping", "sending"} => req[r].state \in AtWork /\ n.late = 0
    BY <1>3, <2>3, <2>4
  <2> QED
    BY <1>2, <2>1, <2>2, <2>3, <2>5, BeatStep
<1>4. ASSUME NEW b \in {"sleeping", "stopped"}, NEW sent \in {0, 1}, NEW late \in {0, 1},
             b = "sleeping" => req[r].state \in AtWork /\ late = 0,
             req' = [req EXCEPT ![r].beat = b, ![r].beats = @ + sent, ![r].late = late]
      PROVE  LifeInv'
  <2> DEFINE beats == req[r].beats + sent
             n == [req[r] EXCEPT !.beat = b, !.beats = beats, !.late = late]
  <2>1. req' = [req EXCEPT ![r] = n]
    BY <1>4
  <2>2. beats \in Nat
    BY <1>1 DEF ReqRecord
  <2> HIDE DEF beats
  <2>3. n \in ReqRecord
    <3>1. [req[r] EXCEPT !.beat = b] \in ReqRecord
      BY <1>1, ReqFieldUpdates DEF Beats
    <3>2. [req[r] EXCEPT !.beat = b, !.beats = beats] \in ReqRecord
      BY <2>2, <3>1, ReqFieldUpdates
    <3> QED
      BY <3>2, ReqFieldUpdates
  <2>4. n.state = req[r].state /\ n.guard = req[r].guard /\ n.beat = b /\ n.late = late
    BY <1>1 DEF ReqRecord
  <2> HIDE DEF n
  <2>5. /\ n.late <= 1 /\ n.beat # "aborting"
        /\ n.beat \in {"sleeping", "sending"} => req[r].state \in AtWork /\ n.late = 0
    BY <1>4, <2>4
  <2> QED
    BY <1>2, <2>1, <2>3, <2>4, <2>5, BeatStep
<1>5. CASE /\ req[r].beat = "sending"
           /\ req' = [req EXCEPT ![r].beat = "sleeping", ![r].beats = @ + 1,
                                 ![r].late = IF Handling(r) THEN @ ELSE @ + 1]
  <2>1. Handling(r) /\ req[r].state \in AtWork /\ req[r].late = 0
    BY <1>1, <1>5 DEF ReqInv, Handling, AtWork
  <2>2. req' = [req EXCEPT ![r].beat = "sleeping", ![r].beats = @ + 1, ![r].late = 0]
    BY <1>5, <2>1
  <2> QED
    BY <1>4, <2>1, <2>2
<1>6. ASSUME NEW sent \in {0, 1}, req[r].beat = "aborting",
             req' = [req EXCEPT ![r].beat = "stopped", ![r].beats = @ + sent,
                                ![r].late = @ + sent]
      PROVE  LifeInv'
  <2>1. req[r].late + sent = sent
    BY <1>1, <1>6 DEF ReqInv
  <2>2. req' = [req EXCEPT ![r].beat = "stopped", ![r].beats = @ + sent, ![r].late = sent]
    BY <1>6, <2>1
  <2> QED
    BY <1>4, <2>2
<1> QED
  BY <1>3, <1>5, <1>6 DEF Beat, BeatAborted

\* LifeInv holds when a server starts and is preserved by its steps.
LEMMA LifeInvInit == LifeInit => LifeInv
<1> SUFFICES ASSUME LifeInit PROVE LifeInv
  OBVIOUS
<1>1. LifeTypeOK /\ PhaseInv
  <2>1. LifeTypeOK
    <3>1. {meter, tracer} \subseteq {"on", "off"} /\ {activeRequests, completed} \subseteq Nat
      BY DEF LifeInit
    <3> QED
      BY <3>1 DEF LifeInit, LifeTypeOK
  <2>2. PhaseInv
    BY DEF LifeInit, PhaseInv
  <2> QED
    BY <2>1, <2>2
<1>2. NoRequest \in ReqRecord /\ req = [r \in Requests |-> NoRequest]
  BY DEF LifeInit, NoRequest, ReqRecord, Guards, Beats
<1>3. /\ NoRequest.state = "none" /\ NoRequest.guard = "none" /\ NoRequest.beat = "off"
      /\ NoRequest.late = 0
  BY DEF NoRequest
<1>4. \A r \in Requests : ReqInv(req[r]) /\ ~Running(r)
  BY <1>2, <1>3 DEF ReqInv, Running, Handling
<1>5. Guarding("live") = {} /\ Guarding("finished") = {}
  BY <1>2, <1>3 DEF Guarding
<1> QED
  BY <1>1, <1>2, <1>4, <1>5, FS_EmptySet DEF LifeInv, LifeInit

\* Every step of the service keeps the invariant.
LEMMA LifeInvNext == LifeInv /\ [LifeNext]_lifeVars => LifeInv'
<1> SUFFICES ASSUME LifeInv, [LifeNext]_lifeVars PROVE LifeInv'
  OBVIOUS
<1>1. ASSUME NEW r \in Requests, Respond(r) PROVE LifeInv'
  <2>1. /\ Running(r) /\ FinishGuard(r) /\ req[r].state \in AtWork
        /\ UNCHANGED <<phase, shutdown, cleanup, profiler, meter, tracer>>
    BY <1>1 DEF Respond, Running, Handling, AtWork
  <2>2. PICK state \in {"responding", "streaming"} :
          req' = [req EXCEPT ![r].state = state, ![r].guard = Guarded(r),
                             ![r].beat = IF state = "streaming" THEN @ ELSE Abort(req[r])]
    BY <1>1 DEF Respond
  <2>3. CASE state = "streaming"
    <3>1. req' = [req EXCEPT ![r].state = state, ![r].guard = Guarded(r),
                             ![r].beat = req[r].beat]
      BY <2>2, <2>3
    <3> QED
      BY <2>1, <2>3, <3>1, RequestAdvances
  <2>4. CASE state = "responding"
    <3>1. req' = [req EXCEPT ![r].state = state, ![r].guard = Guarded(r),
                             ![r].beat = Abort(req[r])]
      BY <2>2, <2>4
    <3> QED
      BY <2>1, <2>4, <3>1, RequestAdvances
  <2> QED
    BY <2>3, <2>4
<1>2. ASSUME NEW r \in Requests, HandlerReturns(r) PROVE LifeInv'
  <2>1. /\ Running(r) /\ req[r].state = "streaming" /\ req[r] \in ReqRecord
        /\ ReqInv(req[r]) /\ req \in [Requests -> ReqRecord]
        /\ UNCHANGED <<phase, shutdown, cleanup, profiler, meter, tracer>>
        /\ UNCHANGED <<activeRequests, completed>>
    BY <1>2 DEF HandlerReturns, Running, Handling, LifeInv
  <2>2. FinishGuard(r) /\ Guarded(r) = req[r].guard
    BY <2>1 DEF FinishGuard, Guarded, ReqInv
  <2>3. req' = [req EXCEPT ![r].state = "responding", ![r].guard = Guarded(r),
                           ![r].beat = Abort(req[r])]
    BY <1>2, <2>1, <2>2 DEF HandlerReturns, ReqRecord
  <2> QED
    BY <2>1, <2>2, <2>3, RequestAdvances
<1>3. ASSUME NEW r \in Requests, DropRequest(r) PROVE LifeInv'
  BY <1>3, RequestAdvances DEF DropRequest
<1>4. CASE UNCHANGED lifeVars
  <2>1. /\ UNCHANGED <<phase, shutdown, cleanup, profiler, meter, tracer>>
        /\ UNCHANGED <<req, activeRequests, completed>>
    BY <1>4 DEF lifeVars
  <2>2. LifeTypeOK' /\ PhaseInv'
    BY <2>1 DEF LifeInv, LifeTypeOK, PhaseInv
  <2>3. Accepting' \/ \A r \in Requests : ~Running(r)
    BY <2>1 DEF LifeInv, Accepting
  <2> QED
    BY <2>1, <2>2, <2>3, MainStep
<1> QED
  BY <1>1, <1>2, <1>3, <1>4, MainSteps, AcceptStep, ReporterSteps DEF LifeNext

\* What the invariant says of the order of shutdown.
LEMMA LifeInvSuffices == LifeInv => LifecycleInOrder
<1> SUFFICES ASSUME LifeInv PROVE LifecycleInOrder
  OBVIOUS
<1>1. RequestsCounted
  BY DEF LifeInv, RequestsCounted, Guarding, ReqInv
<1>2. ShutdownInOrder
  BY DEF LifeInv, PhaseInv, ShutdownInOrder, Accepting
<1>3. FewLateBeats
  BY DEF LifeInv, ReqInv, FewLateBeats
<1> QED
  BY <1>1, <1>2, <1>3 DEF LifeInv, LifecycleInOrder

\* Wherever a signal meets the requests, their reporters, a cleanup and the profiler: the
\* request metrics balance, no reporter sends more than what it was about to send, and the
\* telemetry providers are shut down after all else has ended (main.rs:62-77,
\* app.rs:94-176).
THEOREM LifecycleHolds == LifeSpec => []LifecycleInOrder
<1> QED
  BY LifeInvInit, LifeInvNext, LifeInvSuffices, PTL DEF LifeSpec

\* The same of a server that has ended, and of the servers that start together: the
\* specification of the run.
THEOREM ServerHolds == MCSpec => [](KeyInv /\ LifecycleInOrder)
<1>1. Ended => LifeInv
  <2> SUFFICES ASSUME Ended PROVE LifeInv
    OBVIOUS
  <2>1. LifeTypeOK /\ PhaseInv
    BY DEF Ended, LifeTypeOK, PhaseInv
  <2>2. NoRequest \in ReqRecord /\ req = [r \in Requests |-> NoRequest]
    BY DEF Ended, NoRequest, ReqRecord, Guards, Beats
  <2>3. /\ NoRequest.state = "none" /\ NoRequest.guard = "none" /\ NoRequest.beat = "off"
        /\ NoRequest.late = 0
    BY DEF NoRequest
  <2>4. \A r \in Requests : ReqInv(req[r]) /\ ~Running(r)
    BY <2>2, <2>3 DEF ReqInv, Running, Handling
  <2>5. Guarding("live") = {} /\ Guarding("finished") = {}
    BY <2>2, <2>3 DEF Guarding
  <2> QED
    BY <2>1, <2>2, <2>4, <2>5, FS_EmptySet DEF LifeInv, Ended
<1>2. MCInit => KeyInv /\ LifeInv
  BY <1>1, KeyInvInit, LifeInvInit DEF MCInit
<1>3. [MCNext]_mcVars => [Next]_vars /\ [LifeNext]_lifeVars
  BY DEF MCNext, mcVars
<1> QED
  BY <1>2, <1>3, KeyInvNext, LifeInvNext, LifeInvSuffices, PTL DEF MCSpec
=============================================================================
