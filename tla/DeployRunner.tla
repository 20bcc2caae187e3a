---------------------------- MODULE DeployRunner ----------------------------
(***************************************************************************)
(* The deploy runner (src/integrations/deploys/runner.rs).                 *)
(*                                                                         *)
(* DeployRunner::run_cancelled admits at most one deploy with a one-permit *)
(* semaphore and hands the permit to a spawned worker task.  The worker    *)
(* creates a private run directory, runs ssh-keygen, has OpenBao sign the  *)
(* key, and runs uv in a process group of its own while it polls, in a     *)
(* fixed order, for a cancellation, the deadline, the exit of uv and the   *)
(* end of its two output pipes.  Between the awaits the worker is          *)
(* synchronous, so one action is the code between two awaits.              *)
(*                                                                         *)
(* A call is one MCP request; a call identifies its worker too.            *)
(***************************************************************************)
EXTENDS Naturals

CONSTANTS
  Calls,       \* the deploy.run requests
  DeployIds,   \* the deploy identifiers a request may name
  CatalogIds,  \* those the catalog holds
  McpIds,      \* those of the catalog with mcp_available
  Hosts,       \* ssh_host of a machine
  Pins,        \* host keys; ValidPins of them pass validate_host_pin
  ValidPins,
  NoPin,       \* pinned_host_public_key = None
  None         \* no value yet

ASSUME CatalogAssumption == McpIds \subseteq CatalogIds /\ CatalogIds \subseteq DeployIds
ASSUME PinAssumption == ValidPins \subseteq Pins /\ NoPin \notin Pins
ASSUME NoneAssumption ==
  /\ None \notin DeployIds
  /\ None \notin [host : Hosts, pin : Pins \cup {NoPin}]

VARIABLES
  up,        \* the server process runs
  permits,   \* DeployRunner.permit: permits left
  caller,    \* where the future of run_cancelled is
  answer,    \* what run_cancelled returned
  deploy,    \* the deploy id of the call
  machine,   \* the Machine passed by value to run_cancelled and the worker
  cancel,    \* the oneshot cancel channel, seen from the worker
  stage,     \* where the worker task is
  ret,       \* the result the worker is about to return, or returned
  runDir,    \* the run directory, with the private key, exists
  leader,    \* the child process: ssh-keygen, then uv
  exit,      \* how the child exited
  group,     \* the other processes of uv's process group
  status,    \* run_uv's local `status`
  drain,     \* run_uv's two drain tasks
  expired,   \* the timer of the current child has run out
  launched   \* history: uv was started, and whether a cancellation was
             \* already in the channel at that moment

callerVars == <<caller, answer, deploy, machine>>
childVars  == <<leader, exit, group, status, drain, expired>>
vars == <<up, permits, caller, answer, deploy, machine, cancel, stage, ret, runDir, leader, exit, group, status, drain, expired, launched>>

-----------------------------------------------------------------------------
Machine == [host : Hosts, pin : Pins \cup {NoPin}]
Streams == {"stdout", "stderr"}

\* Errors returned before uv is started: the machine was not touched.
NotExecuted ==
  {"deploy_busy", "deploy_not_found", "deploy_unavailable", "missing_host_pin",
   "cancelled", "credential_unavailable", "credential_invalid", "execution_rejected"}

OutcomeUnknown ==
  {"execution_outcome_unknown", "timeout_outcome_unknown",
   "cancelled_outcome_unknown", "output_too_large_outcome_unknown"}

\* uv ran to its end and its output was parsed, or was not what is expected.
Completed == {"ok", "invalid_output"}

DeployResult == NotExecuted \cup OutcomeUnknown \cup Completed

ASSUME ResultAssumption == None \notin DeployResult

\* The worker task exists and has not released the permit.
WorkerStages == {"start", "keygen", "signing", "uv", "stopping", "returned", "sent"}

\* The call has private key material on disk or a child process.
Engaged(c) == runDir[c] \/ leader[c] = "running"

\* The oneshot result channel holds the worker's result.
ResultSent(c) == stage[c] \in {"sent", "exited"}

\* The worker's receiver resolves: a message is there, or the sender is gone.
CancelVisible(c) == cancel[c] # "open"

Set(f, c, v) == [f EXCEPT ![c] = v]

Init ==
  /\ up = TRUE
  /\ permits = 1
  /\ caller = [c \in Calls |-> "idle"]
  /\ answer = [c \in Calls |-> None]
  /\ deploy = [c \in Calls |-> None]
  /\ machine = [c \in Calls |-> None]
  /\ cancel = [c \in Calls |-> "open"]
  /\ stage = [c \in Calls |-> "none"]
  /\ ret = [c \in Calls |-> None]
  /\ runDir = [c \in Calls |-> FALSE]
  /\ leader = [c \in Calls |-> "none"]
  /\ exit = [c \in Calls |-> "none"]
  /\ group = [c \in Calls |-> "none"]
  /\ status = [c \in Calls |-> "none"]
  /\ drain = [c \in Calls |-> [s \in Streams |-> "none"]]
  /\ expired = [c \in Calls |-> FALSE]
  /\ launched = [c \in Calls |-> "no"]

-----------------------------------------------------------------------------
(* The caller: run_cancelled.                                              *)

Answer(c, r) ==
  /\ caller' = Set(caller, c, "done")
  /\ answer' = Set(answer, c, r)

RejectBusy(c) ==
  /\ up /\ caller[c] = "idle" /\ permits = 0
  /\ Answer(c, "deploy_busy")
  /\ UNCHANGED <<up, permits, deploy, machine, cancel, stage, ret,
                 runDir, childVars, launched>>

AcquireWithoutPermit(c, d, m) ==
  /\ up /\ caller[c] = "idle"
  /\ caller' = Set(caller, c, "admitted")
  /\ permits' = 0
  /\ deploy' = Set(deploy, c, d)
  /\ machine' = Set(machine, c, m)
  /\ UNCHANGED <<up, answer, cancel, stage, ret, runDir, childVars, launched>>

Acquire(c, d, m) ==
  /\ up /\ caller[c] = "idle" /\ permits = 1
  /\ permits' = 0
  /\ caller' = Set(caller, c, "admitted")
  /\ deploy' = Set(deploy, c, d)
  /\ machine' = Set(machine, c, m)
  /\ UNCHANGED <<up, answer, cancel, stage, ret, runDir, childVars, launched>>

\* DeployCatalog::resolve and the pin check of run_cancelled.
ResolveError(d, m) ==
  IF d \notin CatalogIds THEN "deploy_not_found"
  ELSE IF d \notin McpIds THEN "deploy_unavailable"
  ELSE IF m.pin = NoPin THEN "missing_host_pin"
  ELSE None

RejectRequestKeepingPermit(c) ==
  /\ up /\ caller[c] = "admitted"
  /\ ResolveError(deploy[c], machine[c]) # None
  /\ Answer(c, ResolveError(deploy[c], machine[c]))
  /\ UNCHANGED <<up, permits, deploy, machine, cancel, stage, ret, runDir,
                 childVars, launched>>

\* An early return drops the permit.
RejectRequest(c) ==
  /\ up /\ caller[c] = "admitted"
  /\ ResolveError(deploy[c], machine[c]) # None
  /\ Answer(c, ResolveError(deploy[c], machine[c]))
  /\ permits' = 1
  /\ UNCHANGED <<up, deploy, machine, cancel, stage, ret, runDir,
                 childVars, launched>>

\* tokio::spawn moves the permit, the machine and the channels to the worker.
SpawnWorker(c) ==
  /\ up /\ caller[c] = "admitted"
  /\ ResolveError(deploy[c], machine[c]) = None
  /\ caller' = Set(caller, c, "waiting")
  /\ stage' = Set(stage, c, "start")
  /\ UNCHANGED <<up, permits, answer, deploy, machine, cancel, ret,
                 runDir, childVars, launched>>

\* The result branch comes first in the biased select; it drops cancel_tx.
Receive(c) ==
  /\ up /\ caller[c] \in {"waiting", "cancelling"} /\ ResultSent(c)
  /\ Answer(c, ret[c])
  /\ cancel' = IF cancel[c] = "open" THEN Set(cancel, c, "closed") ELSE cancel
  /\ UNCHANGED <<up, permits, deploy, machine, stage, ret, runDir,
                 childVars, launched>>

CancelAnswersAtOnce(c) ==
  /\ up /\ caller[c] = "waiting" /\ ~ResultSent(c)
  /\ Answer(c, "cancelled")
  /\ cancel' = Set(cancel, c, "sent")
  /\ UNCHANGED <<up, permits, deploy, machine, stage, ret,
                 runDir, childVars, launched>>

\* The MCP request is cancelled: tell the worker and keep waiting for it.
CancelRequest(c) ==
  /\ up /\ caller[c] = "waiting" /\ ~ResultSent(c)
  /\ caller' = Set(caller, c, "cancelling")
  /\ cancel' = Set(cancel, c, "sent")
  /\ UNCHANGED <<up, permits, answer, deploy, machine, stage, ret,
                 runDir, childVars, launched>>

DropCallerFreesPermit(c) ==
  /\ up /\ caller[c] \in {"waiting", "cancelling"}
  /\ caller' = Set(caller, c, "gone")
  /\ cancel' = IF cancel[c] = "open" THEN Set(cancel, c, "closed") ELSE cancel
  /\ permits' = 1
  /\ UNCHANGED <<up, answer, deploy, machine, stage, ret,
                 runDir, childVars, launched>>

\* The future of the request is dropped, and cancel_tx with it; the permit
\* stays with the worker.
DropCaller(c) ==
  /\ up /\ caller[c] \in {"waiting", "cancelling"}
  /\ caller' = Set(caller, c, "gone")
  /\ cancel' = IF cancel[c] = "open" THEN Set(cancel, c, "closed") ELSE cancel
  /\ UNCHANGED <<up, permits, answer, deploy, machine, stage, ret,
                 runDir, childVars, launched>>

-----------------------------------------------------------------------------
(* The worker up to the start of uv.                                       *)

ReturnKeepingDirectory(c, r) ==
  /\ stage' = Set(stage, c, "returned")
  /\ ret' = Set(ret, c, r)
  /\ UNCHANGED runDir

\* The worker's locals are dropped when it returns: Cleanup removes the
\* directory before the result is sent.
Return(c, r) ==
  /\ stage' = Set(stage, c, "returned")
  /\ ret' = Set(ret, c, r)
  /\ runDir' = Set(runDir, c, FALSE)

\* cancelled_now, validate_host_pin, create_run_dir and the spawn of
\* ssh-keygen, each of which may end the run.
RejectStart(c) ==
  /\ up /\ stage[c] = "start"
  /\ \/ CancelVisible(c) /\ Return(c, "cancelled")
     \/ /\ ~CancelVisible(c) /\ machine[c].pin \notin ValidPins
        /\ Return(c, "missing_host_pin")
     \/ /\ ~CancelVisible(c) /\ machine[c].pin \in ValidPins
        /\ Return(c, "execution_rejected")
  /\ UNCHANGED <<up, permits, callerVars, cancel, childVars, launched>>

StartKeygenUnchecked(c) ==
  /\ up /\ stage[c] = "start" /\ ~CancelVisible(c)
  /\ stage' = Set(stage, c, "keygen")
  /\ runDir' = Set(runDir, c, TRUE)
  /\ leader' = Set(leader, c, "running")
  /\ UNCHANGED <<up, permits, callerVars, cancel, ret, exit, group,
                 status, drain, expired, launched>>

StartKeygen(c) ==
  /\ up /\ stage[c] = "start" /\ ~CancelVisible(c)
  /\ machine[c].pin \in ValidPins
  /\ stage' = Set(stage, c, "keygen")
  /\ runDir' = Set(runDir, c, TRUE)
  /\ leader' = Set(leader, c, "running")
  /\ UNCHANGED <<up, permits, callerVars, cancel, ret, exit, group,
                 status, drain, expired, launched>>

TerminateWithoutKill(c, r) ==
  /\ stage' = Set(stage, c, "stopping")
  /\ ret' = Set(ret, c, r)
  /\ UNCHANGED <<leader, exit, group>>

\* terminate_group up to its await.  Child::id() is None once wait() has
\* returned the exit status: then no signal is sent.
Terminate(c, r) ==
  /\ stage' = Set(stage, c, "stopping")
  /\ ret' = Set(ret, c, r)
  /\ IF leader[c] = "reaped"
     THEN UNCHANGED <<leader, exit, group>>
     ELSE /\ leader' = Set(leader, c, "exited")
          /\ exit' = IF leader[c] = "running" THEN Set(exit, c, "bad") ELSE exit
          /\ group' = Set(group, c, "none")

\* The rest of terminate_group: child.wait() and the abort of the drains.
Terminated(c) ==
  /\ up /\ stage[c] = "stopping" /\ leader[c] # "running"
  /\ leader' = Set(leader, c, "reaped")
  /\ drain' = Set(drain, c, [s \in Streams |-> "none"])
  /\ Return(c, ret[c])
  /\ UNCHANGED <<up, permits, callerVars, cancel, exit, group, status,
                 expired, launched>>

\* ssh-keygen failed, or its files could not be used.
KeygenFails(c) ==
  /\ up /\ stage[c] = "keygen" /\ leader[c] = "exited"
  /\ leader' = Set(leader, c, "reaped")
  /\ \/ Return(c, "execution_rejected")
     \/ exit[c] = "ok" /\ Return(c, "credential_invalid")
     \/ exit[c] = "ok" /\ CancelVisible(c) /\ Return(c, "cancelled")
  /\ UNCHANGED <<up, permits, callerVars, cancel, exit, group, status,
                 drain, expired, launched>>

KeygenSucceeds(c) ==
  /\ up /\ stage[c] = "keygen" /\ leader[c] = "exited" /\ exit[c] = "ok"
  /\ ~CancelVisible(c)
  /\ stage' = Set(stage, c, "signing")
  /\ leader' = Set(leader, c, "reaped")
  /\ UNCHANGED <<up, permits, callerVars, cancel, ret, runDir, exit,
                 group, status, drain, expired, launched>>

\* The select of run_keygen is not biased: any ready branch may be taken.
KeygenStopped(c) ==
  /\ up /\ stage[c] = "keygen"
  /\ \/ CancelVisible(c) /\ Terminate(c, "cancelled")
     \/ expired[c] /\ Terminate(c, "execution_rejected")
  /\ UNCHANGED <<up, permits, callerVars, cancel, runDir, status,
                 drain, expired, launched>>

\* signer.sign returned an error, or the cancellation was taken instead, or a
\* file could not be written, or uv could not be started.
SignFails(c) ==
  /\ up /\ stage[c] = "signing"
  /\ \/ Return(c, "credential_unavailable")
     \/ Return(c, "credential_invalid")
     \/ Return(c, "execution_rejected")
     \/ CancelVisible(c) /\ Return(c, "cancelled")
  /\ UNCHANGED <<up, permits, callerVars, cancel, childVars, launched>>

\* signer.sign returned a certificate: the files are written and uv started.
\* This select is not biased either, so a cancellation already in the channel
\* does not prevent the start.
StartUv(c) ==
  /\ up /\ stage[c] = "signing"
  /\ stage' = Set(stage, c, "uv")
  /\ leader' = Set(leader, c, "running")
  /\ exit' = Set(exit, c, "none")
  /\ drain' = Set(drain, c, [s \in Streams |-> "open"])
  /\ expired' = Set(expired, c, FALSE)
  /\ launched' = Set(launched, c, IF CancelVisible(c) THEN "late" ELSE "clean")
  /\ UNCHANGED <<up, permits, callerVars, cancel, ret, runDir, group, status>>

-----------------------------------------------------------------------------
(* The loop of run_uv.  Its select is biased: a branch is taken only if no *)
(* earlier one is ready when the worker polls.                             *)

DrainReady(c, s) == drain[c][s] \in {"eof", "over"}
ExitReady(c) == status[c] = "none" /\ leader[c] = "exited"

UvStoppedAsCancelled(c) ==
  /\ up /\ stage[c] = "uv"
  /\ \/ CancelVisible(c) /\ Terminate(c, "cancelled")
     \/ /\ ~CancelVisible(c) /\ expired[c]
        /\ Terminate(c, "timeout_outcome_unknown")
  /\ UNCHANGED <<up, permits, callerVars, cancel, runDir, status,
                 drain, expired, launched>>

UvStopped(c) ==
  /\ up /\ stage[c] = "uv"
  /\ \/ CancelVisible(c) /\ Terminate(c, "cancelled_outcome_unknown")
     \/ /\ ~CancelVisible(c) /\ expired[c]
        /\ Terminate(c, "timeout_outcome_unknown")
  /\ UNCHANGED <<up, permits, callerVars, cancel, runDir, status,
                 drain, expired, launched>>

PolledAnyOrder(c) == up /\ stage[c] = "uv"

\* Neither of the first two branches of the select is ready.
Polled(c) == up /\ stage[c] = "uv" /\ ~CancelVisible(c) /\ ~expired[c]

\* The check at the head of the loop: with the exit status and both outputs
\* in hand the run is over, and normalize::system_info reads the output.
Settle(c, st, dr) ==
  IF st # "none" /\ \A s \in Streams : dr[s] = "taken"
  THEN IF st = "ok" THEN \E r \in Completed : Return(c, r)
                    ELSE Return(c, "execution_outcome_unknown")
  ELSE UNCHANGED <<stage, ret, runDir>>

UvExited(c) ==
  /\ Polled(c) /\ ExitReady(c)
  /\ status' = Set(status, c, exit[c])
  /\ leader' = Set(leader, c, "reaped")
  /\ Settle(c, exit[c], drain[c])
  /\ UNCHANGED <<up, permits, callerVars, cancel, exit, group, drain,
                 expired, launched>>

\* child.wait() returned an error.
UvWaitFails(c) ==
  /\ Polled(c) /\ ExitReady(c)
  /\ Terminate(c, "execution_outcome_unknown")
  /\ UNCHANGED <<up, permits, callerVars, cancel, runDir, status,
                 drain, expired, launched>>

\* A drain task ended and the branches before it are not ready.
DrainPolled(c, s) ==
  /\ Polled(c) /\ ~ExitReady(c)
  /\ DrainReady(c, s)
  /\ s = "stderr" => ~DrainReady(c, "stdout")

UvDrained(c, s) ==
  /\ DrainPolled(c, s) /\ drain[c][s] = "eof"
  /\ drain' = Set(drain, c, Set(drain[c], s, "taken"))
  /\ Settle(c, status[c], drain'[c])
  /\ UNCHANGED <<up, permits, callerVars, cancel, leader, exit, group,
                 status, expired, launched>>

UvOverflow(c, s) ==
  /\ DrainPolled(c, s) /\ drain[c][s] = "over"
  /\ Terminate(c, "output_too_large_outcome_unknown")
  /\ UNCHANGED <<up, permits, callerVars, cancel, runDir, status,
                 drain, expired, launched>>

-----------------------------------------------------------------------------
(* The end of the spawned task: the result is sent, then the permit drops. *)

SendResult(c) ==
  /\ up /\ stage[c] = "returned"
  /\ stage' = Set(stage, c, "sent")
  /\ UNCHANGED <<up, permits, callerVars, cancel, ret, runDir, childVars, launched>>

\* The task is over; what the worker knew of its child goes with it.
DropPermit(c) ==
  /\ up /\ stage[c] = "sent"
  /\ stage' = Set(stage, c, "exited")
  /\ permits' = 1
  /\ exit' = Set(exit, c, "none")
  /\ drain' = Set(drain, c, [s \in Streams |-> "none"])
  /\ expired' = Set(expired, c, FALSE)
  /\ UNCHANGED <<up, callerVars, cancel, ret, runDir, leader, group,
                 status, launched>>

\* main returns and the runtime drops every task at its await: Cleanup removes
\* the run directory and kill_on_drop kills the child, but not its group.
Shutdown ==
  /\ up /\ \A c \in Calls : caller[c] # "admitted"
  /\ up' = FALSE
  /\ caller' = [c \in Calls |-> IF caller[c] \in {"waiting", "cancelling"}
                                THEN "gone" ELSE caller[c]]
  /\ stage' = [c \in Calls |-> IF stage[c] \in WorkerStages
                               THEN "dropped" ELSE stage[c]]
  /\ runDir' = [c \in Calls |-> FALSE]
  /\ leader' = [c \in Calls |-> IF leader[c] = "running" THEN "exited" ELSE leader[c]]
  /\ drain' = [c \in Calls |-> [s \in Streams |-> "none"]]
  /\ UNCHANGED <<permits, answer, deploy, machine, cancel, ret, exit,
                 group, status, expired, launched>>

-----------------------------------------------------------------------------
(* The environment: the timer, the processes and the pipes between them.   *)

TimerExpires(c) ==
  /\ up /\ stage[c] \in {"keygen", "uv"} /\ ~expired[c]
  /\ expired' = Set(expired, c, TRUE)
  /\ UNCHANGED <<up, permits, callerVars, cancel, stage, ret, runDir,
                 leader, exit, group, status, drain, launched>>

ChildExits(c) ==
  /\ leader[c] = "running"
  /\ leader' = Set(leader, c, "exited")
  /\ \E e \in {"ok", "bad"} : exit' = Set(exit, c, e)
  /\ UNCHANGED <<up, permits, callerVars, cancel, stage, ret, runDir,
                 group, status, drain, expired, launched>>

\* uv starts pyinfra and ssh, which inherit its pipes ("holding"), may close
\* them ("detached"), and may outlive it.
GroupChanges(c) ==
  /\ \/ stage[c] = "uv" /\ leader[c] = "running" /\ group[c] = "none"
        /\ group' = Set(group, c, "holding")
     \/ group[c] = "holding" /\ group' = Set(group, c, "detached")
     \/ group[c] # "none" /\ group' = Set(group, c, "none")
  /\ UNCHANGED <<up, permits, callerVars, cancel, stage, ret, runDir,
                 leader, exit, status, drain, expired, launched>>

\* drain reads to the end of the pipe, which comes when every writer is gone,
\* or stops at its limit or at a read error.
DrainEnds(c, s) ==
  /\ drain[c][s] = "open"
  /\ \/ /\ leader[c] # "running" /\ group[c] # "holding"
        /\ drain' = Set(drain, c, Set(drain[c], s, "eof"))
     \/ drain' = Set(drain, c, Set(drain[c], s, "over"))
  /\ UNCHANGED <<up, permits, callerVars, cancel, stage, ret, runDir,
                 leader, exit, group, status, expired, launched>>

-----------------------------------------------------------------------------
\* try_acquire_owned, the first step of run_cancelled.
Enter(c, d, m) == RejectBusy(c) \/ Acquire(c, d, m)

CallerStep(c) ==
  \/ RejectRequest(c) \/ SpawnWorker(c)
  \/ Receive(c) \/ CancelRequest(c) \/ DropCaller(c)

WorkerStep(c) ==
  \/ RejectStart(c) \/ StartKeygen(c)
  \/ KeygenFails(c) \/ KeygenSucceeds(c) \/ KeygenStopped(c)
  \/ SignFails(c) \/ StartUv(c)
  \/ UvStopped(c) \/ UvExited(c) \/ UvWaitFails(c)
  \/ \E s \in Streams : UvDrained(c, s) \/ UvOverflow(c, s)
  \/ Terminated(c) \/ SendResult(c) \/ DropPermit(c)

ProcessStep(c) ==
  \/ TimerExpires(c) \/ ChildExits(c) \/ GroupChanges(c)
  \/ \E s \in Streams : DrainEnds(c, s)

\* Every step but the entry of a call.
Proceed ==
  \/ \E c \in Calls : CallerStep(c) \/ WorkerStep(c) \/ ProcessStep(c)
  \/ Shutdown

Next ==
  \/ \E c \in Calls, d \in DeployIds, m \in Machine : Enter(c, d, m)
  \/ Proceed

\* Tokio polls a woken task (the worker, and a caller whose result is there)
\* and fires a timer; the call to OpenBao ends because its HTTP client has a
\* request timeout.  Nothing is assumed of uv, ssh-keygen or the pipes.
Fairness ==
  \A c \in Calls :
    /\ WF_vars(WorkerStep(c))
    /\ WF_vars(RejectRequest(c) \/ SpawnWorker(c))
    /\ WF_vars(Receive(c))
    /\ WF_vars(TimerExpires(c))

Spec == Init /\ [][Next]_vars
FairSpec == Spec /\ Fairness

-----------------------------------------------------------------------------
(* The runner implements the contract.                                     *)

\* The call holds the permit, before or after it handed it to its worker.
Holds(c) == caller[c] = "admitted" \/ stage[c] \in WorkerStages

Class(r) ==
  IF r \in NotExecuted THEN "not_executed"
  ELSE IF r \in OutcomeUnknown THEN "unknown"
  ELSE IF r \in Completed THEN "completed"
  ELSE "none"

Contract == INSTANCE DeployContract WITH
  open <- up,
  slot <- {c \in Calls : Holds(c)},
  ran <- {c \in Calls : launched[c] # "no"},
  verdict <- [c \in Calls |-> Class(ret[c])],
  told <- [c \in Calls |-> Class(answer[c])]

\* run_cancelled and its worker implement the contract of docs/deploys/spec/
\* deploys.md: one deploy at a time, at most one execution for each call, and
\* an answer that says what happened.
ImplementsContract == Contract!Spec

-----------------------------------------------------------------------------
(* The inductive invariant behind the safety properties.                   *)

\* The permit is taken exactly when one call, and only one, holds it.
PermitInv ==
  /\ \A c, d \in Calls : Holds(c) /\ Holds(d) => c = d
  /\ \A c \in Calls : Holds(c) => permits = 0
  /\ up /\ permits = 0 => \E c \in Calls : Holds(c)

\* Where the caller is against where its worker is.
CallerInv ==
  \A c \in Calls :
    /\ caller[c] \in {"idle", "admitted"} => stage[c] = "none" /\ answer[c] = None
    /\ caller[c] \in {"waiting", "cancelling", "gone"} =>
         stage[c] # "none" /\ answer[c] = None
    /\ caller[c] = "done" /\ stage[c] # "none" =>
         stage[c] \in {"sent", "exited", "dropped"} /\ answer[c] = ret[c] /\ ret[c] # None
    /\ caller[c] = "done" /\ stage[c] = "none" => answer[c] \in NotExecuted
    /\ caller[c] = "admitted" => deploy[c] \in DeployIds /\ machine[c] \in Machine
    /\ stage[c] # "none" => deploy[c] \in McpIds /\ machine[c] \in Machine
    /\ stage[c] \in {"keygen", "signing", "uv"} => machine[c].pin \in ValidPins
    /\ Engaged(c) \/ launched[c] # "no" => machine[c].pin \in ValidPins

\* What the stage of a worker says of its directory, child and result.
StageInv ==
  \A c \in Calls :
    /\ runDir[c] => stage[c] \in {"keygen", "signing", "uv", "stopping"}
    /\ leader[c] = "running" => stage[c] \in {"keygen", "uv"}
    /\ stage[c] \in {"none", "start", "keygen", "signing"} =>
         /\ ret[c] = None /\ launched[c] = "no" /\ status[c] = "none"
         /\ group[c] = "none" /\ \A s \in Streams : drain[c][s] = "none"
    /\ stage[c] = "uv" => ret[c] = None /\ launched[c] # "no"
    /\ stage[c] \in {"stopping", "returned", "sent", "exited"} => ret[c] # None

\* What a result says of the execution.
ResultInv ==
  \A c \in Calls :
    /\ \A s \in Streams : drain[c][s] \in {"eof", "taken"} =>
         leader[c] # "running" /\ group[c] # "holding"
    /\ ret[c] \in NotExecuted => launched[c] = "no"
    /\ ret[c] \in OutcomeUnknown \cup Completed => launched[c] # "no"
    /\ ret[c] \in Completed =>
         status[c] = "ok" /\ leader[c] # "running" /\ group[c] # "holding"
    /\ launched[c] = "late" =>
         CancelVisible(c) /\ ret[c] \in {None, "cancelled_outcome_unknown"}

-----------------------------------------------------------------------------
(* Properties.                                                             *)

WorkerTypes ==
  /\ stage \in [Calls -> WorkerStages \cup {"none", "exited", "dropped"}]
  /\ ret \in [Calls -> DeployResult \cup {None}]
  /\ runDir \in [Calls -> BOOLEAN]

ChildTypes ==
  /\ leader \in [Calls -> {"none", "running", "exited", "reaped"}]
  /\ exit \in [Calls -> {"none", "ok", "bad"}]
  /\ group \in [Calls -> {"none", "holding", "detached"}]

\* Every variable keeps its type.
TypeOK ==
  /\ up \in BOOLEAN /\ permits \in 0..1
  /\ WorkerTypes /\ ChildTypes
  /\ caller \in [Calls -> {"idle", "admitted", "waiting", "cancelling", "done", "gone"}]
  /\ answer \in [Calls -> DeployResult \cup {None}]
  /\ deploy \in [Calls -> DeployIds \cup {None}]
  /\ machine \in [Calls -> Machine \cup {None}]
  /\ cancel \in [Calls -> {"open", "sent", "closed"}]
  /\ status \in [Calls -> {"none", "ok", "bad"}]
  /\ drain \in [Calls -> [Streams -> {"none", "open", "eof", "over", "taken"}]]
  /\ expired \in [Calls -> BOOLEAN]
  /\ launched \in [Calls -> {"no", "clean", "late"}]

\* The inductive invariant: it is preserved by every step and implies the
\* safety properties below.
IInv == TypeOK /\ PermitInv /\ CallerInv /\ StageInv /\ ResultInv

\* "The service MUST allow one active deploy": no two calls have a run
\* directory or a running child at the same time, whatever callers are
\* cancelled or dropped and whenever the permit is handed on.
OneActiveDeploy == \A c, d \in Calls : Engaged(c) /\ Engaged(d) => c = d

\* An answer is final: when run_cancelled has returned, the run directory
\* with the private key is gone and the child is not running.
AnswerAfterCleanup == \A c \in Calls : answer[c] # None => ~Engaged(c)

\* An error that says the deploy was not executed is never returned once uv
\* was started, and a result is only returned for a uv that exited with
\* success and whose output was read to the end.
AnswerTellsExecution ==
  \A c \in Calls :
    /\ answer[c] \in NotExecuted => launched[c] = "no"
    /\ answer[c] \in Completed =>
         launched[c] # "no" /\ status[c] = "ok" /\ group[c] # "holding"

\* A cancellation that was in the channel when uv was started is not lost:
\* the run ends as cancelled with an unknown outcome and in no other way.
LateCancelWins ==
  \A c \in Calls :
    launched[c] = "late" => ret[c] \in {None, "cancelled_outcome_unknown"}

\* Trust comes first: keys are generated, OpenBao is asked and uv is started
\* only for a catalog entry open to MCP and a machine with a valid pin.
TrustBeforeCredentials ==
  \A c \in Calls :
    Engaged(c) \/ launched[c] # "no" =>
      deploy[c] \in McpIds /\ machine[c].pin \in ValidPins

\* A deploy whose timeout, cancellation or overflow was reported has no
\* process of its group left (docs/deploys/ssh-trust-openbao.md).
KillsProcessGroup ==
  \A c \in Calls :
    answer[c] \in {"cancelled_outcome_unknown", "timeout_outcome_unknown",
                   "output_too_large_outcome_unknown"} => group[c] = "none"

\* A caller that waits is answered, or is gone: no stuck uv, signer or pipe
\* keeps it waiting, even after it asked for cancellation.
CallerAnswered ==
  \A c \in Calls :
    caller[c] \in {"waiting", "cancelling"} ~> caller[c] \in {"done", "gone"}

\* The permit always comes back, so one deploy never blocks the next ones.
PermitReturns == (permits = 0) ~> (permits = 1 \/ ~up)

=============================================================================
