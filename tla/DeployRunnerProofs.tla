------------------------ MODULE DeployRunnerProofs -------------------------
(***************************************************************************)
(* Proofs about DeployRunner.  IInv is an inductive invariant: it holds    *)
(* initially (InitInv) and every action preserves it (one lemma for each   *)
(* action, combined by NextInv).  The safety properties follow from it.    *)
(*                                                                         *)
(* DeployRunner implements DeployContract: its initial state maps to the   *)
(* contract's, and every step maps to a step of the contract or to none.   *)
(* Eleven of the actions change nothing the contract speaks of; the others *)
(* are one operation of the contract each.                                 *)
(***************************************************************************)
EXTENDS DeployRunner, TLAPS

-----------------------------------------------------------------------------
(* Lemmas about the operators the actions are built from.                  *)

\* Return(c, r) keeps the types of the worker's variables.
LEMMA ReturnTypes ==
  ASSUME TypeOK, NEW c \in Calls, NEW r \in DeployResult, Return(c, r)
  PROVE  WorkerTypes'
BY DEF TypeOK, WorkerTypes, Return, Set, WorkerStages

\* The first half of terminate_group keeps the types of the worker and of its
\* child, whether the child was reaped before or not.
LEMMA TerminateTypes ==
  ASSUME TypeOK, NEW c \in Calls, NEW r \in DeployResult, Terminate(c, r),
         UNCHANGED runDir
  PROVE  WorkerTypes' /\ ChildTypes'
<1>1. WorkerTypes'
  BY DEF TypeOK, WorkerTypes, Terminate, Set, WorkerStages
<1>2. ChildTypes'
  <2>1. CASE leader[c] = "reaped"
    BY <2>1 DEF TypeOK, ChildTypes, Terminate
  <2>2. CASE leader[c] # "reaped"
    <3>1. leader' = Set(leader, c, "exited") /\ group' = Set(group, c, "none")
      BY <2>2 DEF Terminate
    <3>2. exit' = Set(exit, c, "bad") \/ exit' = exit
      BY <2>2 DEF Terminate
    <3>3. QED BY <3>1, <3>2 DEF TypeOK, ChildTypes, Set
  <2>3. QED BY <2>1, <2>2
<1>3. QED BY <1>1, <1>2

\* A worker that moves between stages keeps the permit.
LEMMA WorkerMoves ==
  ASSUME IInv, NEW c \in Calls, stage[c] \in WorkerStages,
         NEW t \in WorkerStages, stage' = Set(stage, c, t),
         UNCHANGED <<up, permits, caller>>
  PROVE  PermitInv'
BY DEF IInv, TypeOK, WorkerTypes, PermitInv, Holds, Set

\* A step that changes no stage, caller or permit keeps the permit's holder.
LEMMA HoldersKept ==
  ASSUME IInv, UNCHANGED <<up, permits, caller, stage>>
  PROVE  PermitInv'
BY DEF IInv, PermitInv, Holds

-----------------------------------------------------------------------------
(* IInv holds initially and is preserved by every action.                  *)

\* The state that DeployRunner::new leaves satisfies the invariant.
LEMMA InitInv == Init => IInv
<1> SUFFICES ASSUME Init PROVE IInv
  OBVIOUS
<1>1. TypeOK
  BY DEF Init, TypeOK, WorkerTypes, ChildTypes
<1>2. PermitInv
  BY DEF Init, PermitInv, Holds, WorkerStages
<1>3. CallerInv
  BY DEF Init, CallerInv, Engaged
<1>4. StageInv
  BY DEF Init, StageInv
<1>5. ResultInv
  BY ResultAssumption DEF Init, ResultInv, DeployResult, CancelVisible
<1>6. QED BY <1>1, <1>2, <1>3, <1>4, <1>5 DEF IInv

\* RejectBusy: try_acquire_owned fails.
LEMMA RejectBusyInv ==
  ASSUME IInv, NEW c \in Calls, RejectBusy(c)
  PROVE  IInv'
<1>1. TypeOK'
  BY DEF IInv, TypeOK, RejectBusy, Answer, Set, callerVars, childVars,
       WorkerTypes, WorkerStages, ChildTypes, DeployResult, NotExecuted
<1>2. PermitInv'
  BY DEF IInv, PermitInv, RejectBusy, Answer, Set, Holds
<1>3. CallerInv'
  BY DEF IInv, TypeOK, CallerInv, RejectBusy, Answer, Set, childVars,
       Engaged, NotExecuted
<1>4. StageInv'
  BY DEF IInv, StageInv, RejectBusy, childVars
<1>5. ResultInv'
  BY DEF IInv, ResultInv, RejectBusy, childVars, CancelVisible
<1>6. QED BY <1>1, <1>2, <1>3, <1>4, <1>5 DEF IInv

\* Acquire: try_acquire_owned succeeds.
LEMMA AcquireInv ==
  ASSUME IInv, NEW c \in Calls, NEW d \in DeployIds, NEW m \in Machine, Acquire(c, d, m)
  PROVE  IInv'
<1>1. TypeOK'
  BY DEF IInv, TypeOK, Acquire, Set, callerVars, childVars, WorkerTypes,
       WorkerStages, ChildTypes
<1>2. PermitInv'
  BY DEF IInv, TypeOK, PermitInv, Acquire, Set, Holds
<1>3. CallerInv'
  BY DEF IInv, TypeOK, CallerInv, StageInv, Acquire, Set, childVars, Engaged
<1>4. StageInv'
  BY DEF IInv, StageInv, Acquire, childVars
<1>5. ResultInv'
  BY DEF IInv, ResultInv, Acquire, childVars, CancelVisible
<1>6. QED BY <1>1, <1>2, <1>3, <1>4, <1>5 DEF IInv

\* RejectRequest: an early return of run_cancelled.
LEMMA RejectRequestInv ==
  ASSUME IInv, NEW c \in Calls, RejectRequest(c)
  PROVE  IInv'
<1>1. TypeOK'
  BY DEF IInv, TypeOK, RejectRequest, Answer, Set, callerVars, childVars,
       WorkerTypes, WorkerStages, ChildTypes, ResolveError, DeployResult,
       NotExecuted
<1>2. PermitInv'
  BY DEF IInv, TypeOK, PermitInv, CallerInv, RejectRequest, Answer, Set,
       Holds, WorkerStages
<1>3. CallerInv'
  BY DEF IInv, TypeOK, CallerInv, RejectRequest, Answer, ResolveError, Set,
       childVars, Engaged, NotExecuted
<1>4. StageInv'
  BY DEF IInv, StageInv, RejectRequest, childVars
<1>5. ResultInv'
  BY DEF IInv, ResultInv, RejectRequest, childVars, CancelVisible
<1>6. QED BY <1>1, <1>2, <1>3, <1>4, <1>5 DEF IInv

\* SpawnWorker: the permit goes to the worker task.
LEMMA SpawnWorkerInv ==
  ASSUME IInv, NEW c \in Calls, SpawnWorker(c)
  PROVE  IInv'
<1>1. TypeOK'
  BY DEF IInv, TypeOK, SpawnWorker, Set, callerVars, childVars, WorkerTypes,
       WorkerStages, ChildTypes
<1>2. PermitInv'
  BY DEF IInv, TypeOK, PermitInv, WorkerTypes, SpawnWorker, Set, Holds,
       WorkerStages
<1>3. CallerInv'
  BY ResultAssumption DEF IInv, TypeOK, CallerInv, WorkerTypes, SpawnWorker,
       ResolveError, Set, childVars, Engaged, DeployResult, NotExecuted
<1>4. StageInv'
  BY DEF IInv, CallerInv, StageInv, SpawnWorker, Set, childVars
<1>5. ResultInv'
  BY DEF IInv, ResultInv, SpawnWorker, childVars, CancelVisible
<1>6. QED BY <1>1, <1>2, <1>3, <1>4, <1>5 DEF IInv

\* Receive: run_cancelled returns the result.
LEMMA ReceiveInv ==
  ASSUME IInv, NEW c \in Calls, Receive(c)
  PROVE  IInv'
<1>1. TypeOK'
  BY DEF IInv, TypeOK, Receive, Answer, Set, callerVars, childVars,
       WorkerTypes, WorkerStages, ChildTypes
<1>2. PermitInv'
  BY DEF IInv, PermitInv, Receive, Answer, Set, Holds
<1>3. CallerInv'
  BY DEF IInv, TypeOK, CallerInv, StageInv, Receive, Answer, Set, childVars,
       ResultSent, Engaged
<1>4. StageInv'
  BY DEF IInv, StageInv, Receive, childVars
<1>5. ResultInv'
  BY DEF IInv, ResultInv, Receive, Set, childVars, CancelVisible
<1>6. QED BY <1>1, <1>2, <1>3, <1>4, <1>5 DEF IInv

\* CancelRequest: the worker is told of the cancellation.
LEMMA CancelRequestInv ==
  ASSUME IInv, NEW c \in Calls, CancelRequest(c)
  PROVE  IInv'
<1>1. TypeOK'
  BY DEF IInv, TypeOK, CancelRequest, Set, callerVars, childVars,
       WorkerTypes, WorkerStages, ChildTypes
<1>2. PermitInv'
  BY DEF IInv, PermitInv, CancelRequest, Set, Holds
<1>3. CallerInv'
  BY DEF IInv, CallerInv, CancelRequest, Set, childVars, Engaged
<1>4. StageInv'
  BY DEF IInv, StageInv, CancelRequest, childVars
<1>5. ResultInv'
  BY DEF IInv, ResultInv, CancelRequest, Set, childVars, CancelVisible
<1>6. QED BY <1>1, <1>2, <1>3, <1>4, <1>5 DEF IInv

\* DropCaller: the future of run_cancelled is dropped.
LEMMA DropCallerInv ==
  ASSUME IInv, NEW c \in Calls, DropCaller(c)
  PROVE  IInv'
<1>1. TypeOK'
  BY DEF IInv, TypeOK, DropCaller, Set, callerVars, childVars, WorkerTypes,
       WorkerStages, ChildTypes
<1>2. PermitInv'
  BY DEF IInv, PermitInv, DropCaller, Set, Holds
<1>3. CallerInv'
  BY DEF IInv, CallerInv, DropCaller, Set, childVars, Engaged
<1>4. StageInv'
  BY DEF IInv, StageInv, DropCaller, childVars
<1>5. ResultInv'
  BY DEF IInv, ResultInv, DropCaller, Set, childVars, CancelVisible
<1>6. QED BY <1>1, <1>2, <1>3, <1>4, <1>5 DEF IInv

\* RejectStart: the worker ends before it starts ssh-keygen.
LEMMA RejectStartInv ==
  ASSUME IInv, NEW c \in Calls, RejectStart(c)
  PROVE  IInv'
<1>1. PICK r \in NotExecuted : Return(c, r)
  BY DEF RejectStart, NotExecuted
<1>2. TypeOK'
  BY <1>1, ReturnTypes DEF IInv, TypeOK, RejectStart, Set, callerVars,
       childVars, WorkerTypes, ChildTypes, DeployResult
<1>3. PermitInv'
  BY <1>1, WorkerMoves DEF RejectStart, callerVars, WorkerStages, Return
<1>4. CallerInv'
  BY <1>1 DEF IInv, TypeOK, CallerInv, WorkerTypes, RejectStart, Return,
       Set, callerVars, childVars, Engaged
<1>5. StageInv'
  BY <1>1, ResultAssumption DEF IInv, TypeOK, StageInv, WorkerTypes,
       RejectStart, Return, Set, childVars, DeployResult, NotExecuted
<1>6. ResultInv'
  BY DEF IInv, TypeOK, StageInv, ResultInv, WorkerTypes, RejectStart,
       Return, Set, childVars, CancelVisible, NotExecuted, OutcomeUnknown,
       Completed
<1>7. QED BY <1>2, <1>3, <1>4, <1>5, <1>6 DEF IInv

\* StartKeygen: the run directory and ssh-keygen.
LEMMA StartKeygenInv ==
  ASSUME IInv, NEW c \in Calls, StartKeygen(c)
  PROVE  IInv'
<1>1. TypeOK'
  BY DEF IInv, TypeOK, StartKeygen, Set, callerVars, childVars, WorkerTypes,
       WorkerStages, ChildTypes
<1>2. PermitInv'
  BY WorkerMoves DEF StartKeygen, callerVars, WorkerStages
<1>3. CallerInv'
  BY DEF IInv, CallerInv, StartKeygen, Set, callerVars, Engaged
<1>4. StageInv'
  BY DEF IInv, TypeOK, StageInv, WorkerTypes, StartKeygen, Set
<1>5. ResultInv'
  BY DEF IInv, StageInv, ResultInv, StartKeygen, Set, CancelVisible
<1>6. QED BY <1>1, <1>2, <1>3, <1>4, <1>5 DEF IInv

\* KeygenFails: ssh-keygen or its files failed.
LEMMA KeygenFailsInv ==
  ASSUME IInv, NEW c \in Calls, KeygenFails(c)
  PROVE  IInv'
<1>1. PICK r \in NotExecuted : Return(c, r)
  BY DEF KeygenFails, NotExecuted
<1>2. TypeOK'
  BY <1>1, ReturnTypes DEF IInv, TypeOK, KeygenFails, Set, callerVars,
       childVars, WorkerTypes, ChildTypes, DeployResult
<1>3. PermitInv'
  BY <1>1, WorkerMoves DEF KeygenFails, callerVars, WorkerStages, Return
<1>4. CallerInv'
  BY <1>1 DEF IInv, TypeOK, CallerInv, WorkerTypes, KeygenFails, Return,
       Set, callerVars, Engaged
<1>5. StageInv'
  BY <1>1, ResultAssumption DEF IInv, TypeOK, StageInv, WorkerTypes,
       KeygenFails, Return, Set, DeployResult, NotExecuted
<1>6. ResultInv'
  BY DEF IInv, TypeOK, StageInv, ResultInv, WorkerTypes, KeygenFails,
       Return, Set, CancelVisible, OutcomeUnknown, Completed
<1>7. QED BY <1>2, <1>3, <1>4, <1>5, <1>6 DEF IInv

\* KeygenSucceeds: the key is there.
LEMMA KeygenSucceedsInv ==
  ASSUME IInv, NEW c \in Calls, KeygenSucceeds(c)
  PROVE  IInv'
<1>1. TypeOK'
  BY DEF IInv, TypeOK, KeygenSucceeds, Set, callerVars, childVars,
       WorkerTypes, WorkerStages, ChildTypes
<1>2. PermitInv'
  BY WorkerMoves DEF KeygenSucceeds, callerVars, WorkerStages
<1>3. CallerInv'
  BY DEF IInv, CallerInv, KeygenSucceeds, Set, callerVars, Engaged
<1>4. StageInv'
  BY DEF IInv, StageInv, KeygenSucceeds, Set
<1>5. ResultInv'
  BY DEF IInv, ResultInv, KeygenSucceeds, Set, CancelVisible
<1>6. QED BY <1>1, <1>2, <1>3, <1>4, <1>5 DEF IInv

\* KeygenStopped: ssh-keygen is cancelled or times out.
LEMMA KeygenStoppedInv ==
  ASSUME IInv, NEW c \in Calls, KeygenStopped(c)
  PROVE  IInv'
<1>1. PICK r \in NotExecuted : Terminate(c, r)
  BY DEF KeygenStopped, NotExecuted
<1>2. TypeOK'
  BY <1>1, TerminateTypes DEF IInv, TypeOK, KeygenStopped, Set, callerVars,
       childVars, DeployResult
<1>3. PermitInv'
  BY <1>1, WorkerMoves DEF KeygenStopped, callerVars, WorkerStages,
       Terminate
<1>4. CallerInv'
  BY DEF IInv, TypeOK, CallerInv, WorkerTypes, ChildTypes, KeygenStopped,
       Terminate, Set, callerVars, Engaged
<1>5. StageInv'
  BY ResultAssumption DEF IInv, TypeOK, StageInv, WorkerTypes, ChildTypes,
       KeygenStopped, Terminate, Set, DeployResult, NotExecuted
<1>6. ResultInv'
  BY DEF IInv, TypeOK, StageInv, ResultInv, WorkerTypes, ChildTypes,
       KeygenStopped, Terminate, Set, CancelVisible, OutcomeUnknown,
       Completed
<1>7. QED BY <1>2, <1>3, <1>4, <1>5, <1>6 DEF IInv

\* SignFails: no certificate, or uv cannot be started.
LEMMA SignFailsInv ==
  ASSUME IInv, NEW c \in Calls, SignFails(c)
  PROVE  IInv'
<1>1. PICK r \in NotExecuted : Return(c, r)
  BY DEF SignFails, NotExecuted
<1>2. TypeOK'
  BY <1>1, ReturnTypes DEF IInv, TypeOK, SignFails, Set, callerVars,
       childVars, WorkerTypes, ChildTypes, DeployResult
<1>3. PermitInv'
  BY <1>1, WorkerMoves DEF SignFails, callerVars, WorkerStages, Return
<1>4. CallerInv'
  BY <1>1 DEF IInv, TypeOK, CallerInv, WorkerTypes, SignFails, Return, Set,
       callerVars, childVars, Engaged
<1>5. StageInv'
  BY <1>1, ResultAssumption DEF IInv, TypeOK, StageInv, WorkerTypes,
       SignFails, Return, Set, childVars, DeployResult, NotExecuted
<1>6. ResultInv'
  BY DEF IInv, TypeOK, StageInv, ResultInv, WorkerTypes, SignFails, Return,
       Set, childVars, CancelVisible, OutcomeUnknown, Completed
<1>7. QED BY <1>2, <1>3, <1>4, <1>5, <1>6 DEF IInv

\* StartUv: uv is started.
LEMMA StartUvInv ==
  ASSUME IInv, NEW c \in Calls, StartUv(c)
  PROVE  IInv'
<1>1. TypeOK'
  BY DEF IInv, TypeOK, StartUv, Set, callerVars, childVars, WorkerTypes,
       WorkerStages, ChildTypes
<1>2. PermitInv'
  BY WorkerMoves DEF StartUv, callerVars, WorkerStages
<1>3. CallerInv'
  BY DEF IInv, CallerInv, StartUv, Set, callerVars, Engaged
<1>4. StageInv'
  BY DEF IInv, TypeOK, StageInv, WorkerTypes, StartUv, Set
<1>5. ResultInv'
  BY ResultAssumption DEF IInv, StageInv, ResultInv, StartUv, Set,
       CancelVisible, DeployResult
<1>6. QED BY <1>1, <1>2, <1>3, <1>4, <1>5 DEF IInv

\* UvStopped: uv is cancelled or times out.
LEMMA UvStoppedInv ==
  ASSUME IInv, NEW c \in Calls, UvStopped(c)
  PROVE  IInv'
<1>1. PICK r \in OutcomeUnknown : Terminate(c, r)
  BY DEF UvStopped, OutcomeUnknown
<1>2. TypeOK'
  BY <1>1, TerminateTypes DEF IInv, TypeOK, UvStopped, Set, callerVars,
       childVars, DeployResult
<1>3. PermitInv'
  BY <1>1, WorkerMoves DEF UvStopped, callerVars, WorkerStages, Terminate
<1>4. CallerInv'
  BY DEF IInv, TypeOK, CallerInv, WorkerTypes, ChildTypes, UvStopped,
       Terminate, Set, callerVars, Engaged
<1>5. StageInv'
  BY ResultAssumption DEF IInv, TypeOK, StageInv, WorkerTypes, ChildTypes,
       UvStopped, Terminate, Set, WorkerStages, DeployResult, OutcomeUnknown
<1>6. ResultInv'
  BY DEF IInv, TypeOK, StageInv, ResultInv, WorkerTypes, ChildTypes,
       UvStopped, Terminate, Set, CancelVisible, NotExecuted, Completed
<1>7. QED BY <1>2, <1>3, <1>4, <1>5, <1>6 DEF IInv

\* UvExited: the exit status is taken.
LEMMA UvExitedInv ==
  ASSUME IInv, NEW c \in Calls, UvExited(c)
  PROVE  IInv'
<1>1. UNCHANGED <<stage, ret, runDir>> \/ \E r \in DeployResult : Return(c, r)
  BY DEF UvExited, Settle, DeployResult, OutcomeUnknown
<1>2. TypeOK'
  BY <1>1, ReturnTypes DEF IInv, TypeOK, UvExited, Set, callerVars,
       childVars, WorkerTypes, ChildTypes, DeployResult
<1>3. PermitInv'
  BY <1>1, WorkerMoves, HoldersKept DEF UvExited, callerVars, WorkerStages,
       Return, Polled
<1>4. CallerInv'
  BY <1>1 DEF IInv, TypeOK, CallerInv, WorkerTypes, UvExited, Return,
       Polled, Set, callerVars, Engaged
<1>5. StageInv'
  BY <1>1, ResultAssumption DEF IInv, TypeOK, StageInv, WorkerTypes,
       UvExited, Return, Polled, ExitReady, Set
<1>6. ResultInv'
  BY <1>1 DEF IInv, TypeOK, StageInv, ResultInv, WorkerTypes, UvExited,
       Return, Settle, Polled, ExitReady, Set, CancelVisible, NotExecuted,
       Completed, Streams
<1>7. QED BY <1>2, <1>3, <1>4, <1>5, <1>6 DEF IInv

\* UvWaitFails: child.wait() fails.
LEMMA UvWaitFailsInv ==
  ASSUME IInv, NEW c \in Calls, UvWaitFails(c)
  PROVE  IInv'
<1>1. PICK r \in OutcomeUnknown : Terminate(c, r)
  BY DEF UvWaitFails, OutcomeUnknown
<1>2. TypeOK'
  BY <1>1, TerminateTypes DEF IInv, TypeOK, UvWaitFails, Set, callerVars,
       childVars, DeployResult
<1>3. PermitInv'
  BY <1>1, WorkerMoves DEF UvWaitFails, callerVars, WorkerStages, Terminate,
       Polled
<1>4. CallerInv'
  BY DEF IInv, TypeOK, CallerInv, ChildTypes, UvWaitFails, Terminate,
       Polled, Set, callerVars, Engaged
<1>5. StageInv'
  BY ResultAssumption DEF IInv, TypeOK, StageInv, WorkerTypes, ChildTypes,
       UvWaitFails, Terminate, Set, DeployResult, OutcomeUnknown
<1>6. ResultInv'
  BY DEF IInv, TypeOK, StageInv, ResultInv, ChildTypes, UvWaitFails,
       Terminate, Polled, Set, CancelVisible, NotExecuted, Completed
<1>7. QED BY <1>2, <1>3, <1>4, <1>5, <1>6 DEF IInv

\* UvDrained: one of the outputs is taken.
LEMMA UvDrainedInv ==
  ASSUME IInv, NEW c \in Calls, NEW s \in Streams, UvDrained(c, s)
  PROVE  IInv'
<1>1. UNCHANGED <<stage, ret, runDir>> \/ \E r \in DeployResult : Return(c, r)
  BY DEF UvDrained, Settle, DeployResult, OutcomeUnknown
<1>2. TypeOK'
  BY <1>1, ReturnTypes DEF IInv, TypeOK, UvDrained, Set, callerVars,
       childVars, WorkerTypes, ChildTypes, DeployResult
<1>3. PermitInv'
  BY <1>1, WorkerMoves, HoldersKept DEF UvDrained, callerVars, WorkerStages,
       Return, Polled, DrainPolled
<1>4. CallerInv'
  BY <1>1 DEF IInv, TypeOK, CallerInv, WorkerTypes, UvDrained, Return,
       Polled, DrainPolled, Set, callerVars, WorkerStages, Engaged
<1>5. StageInv'
  BY <1>1, ResultAssumption DEF IInv, TypeOK, StageInv, ResultInv,
       WorkerTypes, UvDrained, Return, Set
<1>6. ResultInv'
  BY <1>1 DEF IInv, TypeOK, StageInv, ResultInv, WorkerTypes, UvDrained,
       Return, Settle, Polled, DrainPolled, Set, CancelVisible, NotExecuted,
       Completed
<1>7. QED BY <1>2, <1>3, <1>4, <1>5, <1>6 DEF IInv

\* UvOverflow: one of the outputs is too large.
LEMMA UvOverflowInv ==
  ASSUME IInv, NEW c \in Calls, NEW s \in Streams, UvOverflow(c, s)
  PROVE  IInv'
<1>1. PICK r \in OutcomeUnknown : Terminate(c, r)
  BY DEF UvOverflow, OutcomeUnknown
<1>2. TypeOK'
  BY <1>1, TerminateTypes DEF IInv, TypeOK, UvOverflow, Set, callerVars,
       childVars, DeployResult
<1>3. PermitInv'
  BY <1>1, WorkerMoves DEF UvOverflow, callerVars, WorkerStages, Terminate,
       Polled, DrainPolled
<1>4. CallerInv'
  BY DEF IInv, TypeOK, CallerInv, ChildTypes, UvOverflow, Terminate, Polled,
       DrainPolled, Set, callerVars, Engaged
<1>5. StageInv'
  BY ResultAssumption DEF IInv, TypeOK, StageInv, WorkerTypes, ChildTypes,
       UvOverflow, Terminate, Set, DeployResult, OutcomeUnknown
<1>6. ResultInv'
  BY DEF IInv, TypeOK, StageInv, ResultInv, ChildTypes, UvOverflow,
       Terminate, Polled, DrainPolled, Set, CancelVisible, NotExecuted,
       Completed
<1>7. QED BY <1>2, <1>3, <1>4, <1>5, <1>6 DEF IInv

\* Terminated: the second half of terminate_group.
LEMMA TerminatedInv ==
  ASSUME IInv, NEW c \in Calls, Terminated(c)
  PROVE  IInv'
<1>1. TypeOK'
  BY DEF IInv, TypeOK, Terminated, Set, callerVars, childVars, Return,
       WorkerTypes, WorkerStages, ChildTypes
<1>2. PermitInv'
  BY WorkerMoves DEF Terminated, callerVars, WorkerStages, Return
<1>3. CallerInv'
  BY DEF IInv, CallerInv, Terminated, Return, Set, callerVars, Engaged
<1>4. StageInv'
  BY DEF IInv, TypeOK, StageInv, WorkerTypes, Terminated, Return, Set
<1>5. ResultInv'
  BY DEF IInv, ResultInv, Terminated, Return, Set, CancelVisible
<1>6. QED BY <1>1, <1>2, <1>3, <1>4, <1>5 DEF IInv

\* SendResult: the result is sent.
LEMMA SendResultInv ==
  ASSUME IInv, NEW c \in Calls, SendResult(c)
  PROVE  IInv'
<1>1. TypeOK'
  BY DEF IInv, TypeOK, SendResult, Set, callerVars, childVars, WorkerTypes,
       WorkerStages, ChildTypes
<1>2. PermitInv'
  BY WorkerMoves DEF SendResult, callerVars, WorkerStages
<1>3. CallerInv'
  BY DEF IInv, CallerInv, SendResult, Set, callerVars, childVars, Engaged
<1>4. StageInv'
  BY DEF IInv, StageInv, SendResult, Set, childVars
<1>5. ResultInv'
  BY DEF IInv, ResultInv, SendResult, childVars, CancelVisible
<1>6. QED BY <1>1, <1>2, <1>3, <1>4, <1>5 DEF IInv

\* DropPermit: the worker task ends.
LEMMA DropPermitInv ==
  ASSUME IInv, NEW c \in Calls, DropPermit(c)
  PROVE  IInv'
<1>1. TypeOK'
  BY DEF IInv, TypeOK, DropPermit, Set, callerVars, childVars, WorkerTypes,
       WorkerStages, ChildTypes
<1>2. PermitInv'
  BY DEF IInv, TypeOK, PermitInv, CallerInv, WorkerTypes, DropPermit, Set,
       callerVars, Holds, WorkerStages
<1>3. CallerInv'
  BY DEF IInv, CallerInv, DropPermit, Set, callerVars, Engaged
<1>4. StageInv'
  BY DEF IInv, StageInv, DropPermit, Set
<1>5. ResultInv'
  BY DEF IInv, ResultInv, DropPermit, Set, CancelVisible
<1>6. QED BY <1>1, <1>2, <1>3, <1>4, <1>5 DEF IInv

\* TimerExpires: the timer fires.
LEMMA TimerExpiresInv ==
  ASSUME IInv, NEW c \in Calls, TimerExpires(c)
  PROVE  IInv'
<1>1. TypeOK'
  BY DEF IInv, TypeOK, TimerExpires, Set, callerVars, childVars,
       WorkerTypes, WorkerStages, ChildTypes
<1>2. PermitInv'
  BY DEF IInv, PermitInv, TimerExpires, callerVars, Holds
<1>3. CallerInv'
  BY DEF IInv, CallerInv, TimerExpires, callerVars, Engaged
<1>4. StageInv'
  BY DEF IInv, StageInv, TimerExpires
<1>5. ResultInv'
  BY DEF IInv, ResultInv, TimerExpires, CancelVisible
<1>6. QED BY <1>1, <1>2, <1>3, <1>4, <1>5 DEF IInv

\* ChildExits: the child exits.
LEMMA ChildExitsInv ==
  ASSUME IInv, NEW c \in Calls, ChildExits(c)
  PROVE  IInv'
<1>1. TypeOK'
  BY DEF IInv, TypeOK, ChildExits, Set, callerVars, childVars, WorkerTypes,
       WorkerStages, ChildTypes
<1>2. PermitInv'
  BY DEF IInv, PermitInv, ChildExits, callerVars, Holds
<1>3. CallerInv'
  BY DEF IInv, CallerInv, ChildExits, Set, callerVars, Engaged
<1>4. StageInv'
  BY DEF IInv, StageInv, ChildExits, Set
<1>5. ResultInv'
  BY DEF IInv, ResultInv, ChildExits, Set, CancelVisible
<1>6. QED BY <1>1, <1>2, <1>3, <1>4, <1>5 DEF IInv

\* GroupChanges: the process group of uv changes.
LEMMA GroupChangesInv ==
  ASSUME IInv, NEW c \in Calls, GroupChanges(c)
  PROVE  IInv'
<1>1. group' \in [Calls -> {"none", "holding", "detached"}]
  BY DEF IInv, TypeOK, ChildTypes, GroupChanges, Set
<1>2. TypeOK'
  BY <1>1 DEF IInv, TypeOK, GroupChanges, Set, callerVars, childVars,
       WorkerTypes, WorkerStages, ChildTypes
<1>3. PermitInv'
  BY DEF IInv, PermitInv, GroupChanges, callerVars, Holds
<1>4. CallerInv'
  BY DEF IInv, CallerInv, GroupChanges, callerVars, Engaged
<1>5. StageInv'
  BY DEF IInv, TypeOK, StageInv, ChildTypes, GroupChanges, Set
<1>6. ResultInv'
  BY DEF IInv, TypeOK, ResultInv, ChildTypes, GroupChanges, Set,
       CancelVisible
<1>7. QED BY <1>2, <1>3, <1>4, <1>5, <1>6 DEF IInv

\* DrainEnds: a drain task ends.
LEMMA DrainEndsInv ==
  ASSUME IInv, NEW c \in Calls, NEW s \in Streams, DrainEnds(c, s)
  PROVE  IInv'
<1>1. PICK v \in {"eof", "over"} : drain' = Set(drain, c, Set(drain[c], s, v))
  BY DEF DrainEnds
<1>2. Set(drain[c], s, v) \in [Streams -> {"none", "open", "eof", "over", "taken"}]
  BY DEF IInv, TypeOK, Set
<1>3. TypeOK'
  BY <1>1, <1>2 DEF IInv, TypeOK, WorkerTypes, ChildTypes, DrainEnds, Set,
       callerVars
<1>4. PermitInv'
  BY DEF IInv, PermitInv, DrainEnds, callerVars, Holds
<1>5. CallerInv'
  BY DEF IInv, CallerInv, DrainEnds, callerVars, Engaged
<1>6. StageInv'
  BY <1>1, <1>2 DEF IInv, TypeOK, StageInv, DrainEnds, Set
<1>7. ResultInv'
  <2>1. ASSUME NEW d \in Calls, NEW t \in Streams, drain'[d][t] \in {"eof", "taken"},
               d = c /\ t = s
        PROVE  leader[d] # "running" /\ group[d] # "holding"
    <3>1. drain'[c][s] # "over"
      BY <2>1
    <3>2. QED BY <1>1, <2>1, <3>1 DEF IInv, TypeOK, DrainEnds, Set
  <2>2. ASSUME NEW d \in Calls, NEW t \in Streams, ~(d = c /\ t = s)
        PROVE  drain'[d][t] = drain[d][t]
    BY <1>1, <2>2 DEF IInv, TypeOK, Set
  <2>3. QED BY <2>1, <2>2 DEF IInv, ResultInv, DrainEnds, callerVars, CancelVisible
<1>8. QED BY <1>3, <1>4, <1>5, <1>6, <1>7 DEF IInv

\* Shutdown: the runtime drops every task.
LEMMA ShutdownInv ==
  ASSUME IInv, Shutdown
  PROVE  IInv'
<1>1. TypeOK'
  BY DEF IInv, TypeOK, Shutdown, Set, callerVars, childVars, WorkerTypes,
       WorkerStages, ChildTypes
<1>2. PermitInv'
  BY DEF IInv, PermitInv, Shutdown, Holds
<1>3. CallerInv'
  BY DEF IInv, CallerInv, Shutdown, WorkerStages, Engaged
<1>4. StageInv'
  BY DEF IInv, StageInv, Shutdown
<1>5. ResultInv'
  BY DEF IInv, ResultInv, Shutdown, CancelVisible
<1>6. QED BY <1>1, <1>2, <1>3, <1>4, <1>5 DEF IInv

-----------------------------------------------------------------------------
\* Every step of the runner, and stuttering, preserves the invariant.
LEMMA NextInv == IInv /\ [Next]_vars => IInv'
<1> SUFFICES ASSUME IInv, [Next]_vars PROVE IInv'
  OBVIOUS
<1>1. CASE UNCHANGED vars
  <2>1. TypeOK' /\ PermitInv'
    BY <1>1 DEF vars, IInv, TypeOK, WorkerTypes, ChildTypes, PermitInv, Holds
  <2>2. CallerInv' /\ StageInv' /\ ResultInv'
    BY <1>1 DEF vars, IInv, CallerInv, StageInv, ResultInv, Engaged, CancelVisible
  <2>3. QED BY <2>1, <2>2 DEF IInv
<1>2. ASSUME NEW c \in Calls, NEW d \in DeployIds, NEW m \in Machine, Enter(c, d, m)
      PROVE  IInv'
  BY <1>2, RejectBusyInv, AcquireInv DEF Enter
<1>3. ASSUME NEW c \in Calls, CallerStep(c) PROVE IInv'
  BY <1>3, RejectRequestInv, SpawnWorkerInv, ReceiveInv, CancelRequestInv, DropCallerInv
     DEF CallerStep
<1>4. ASSUME NEW c \in Calls, WorkerStep(c) PROVE IInv'
  BY <1>4, RejectStartInv, StartKeygenInv, KeygenFailsInv, KeygenSucceedsInv,
     KeygenStoppedInv, SignFailsInv, StartUvInv, UvStoppedInv, UvExitedInv,
     UvWaitFailsInv, UvDrainedInv, UvOverflowInv, TerminatedInv, SendResultInv,
     DropPermitInv
     DEF WorkerStep
<1>5. ASSUME NEW c \in Calls, ProcessStep(c) PROVE IInv'
  BY <1>5, TimerExpiresInv, ChildExitsInv, GroupChangesInv, DrainEndsInv DEF ProcessStep
<1>6. QED
  BY <1>1, <1>2, <1>3, <1>4, <1>5, ShutdownInv DEF Next, Proceed

\* IInv holds in every reachable state: the types, who holds the permit, and
\* what the stage of a worker says of its caller, directory, child and result.
THEOREM InvariantHolds == Spec => []IInv
<1>1. Init => IInv
  BY InitInv
<1>2. IInv /\ [Next]_vars => IInv'
  BY NextInv
<1>3. QED BY <1>1, <1>2, PTL DEF Spec

\* At most one call has key material or a running child: whoever has either is
\* in a stage that holds the permit, and the permit has one holder.
THEOREM OneActiveDeployHolds == Spec => []OneActiveDeploy
<1>1. IInv => OneActiveDeploy
  BY DEF IInv, PermitInv, StageInv, OneActiveDeploy, Engaged, Holds, WorkerStages
<1>2. QED BY <1>1, InvariantHolds, PTL

\* run_cancelled returns only after the worker's directory and child are gone.
THEOREM AnswerAfterCleanupHolds == Spec => []AnswerAfterCleanup
<1>1. IInv => AnswerAfterCleanup
  BY DEF IInv, TypeOK, CallerInv, StageInv, AnswerAfterCleanup, Engaged
<1>2. QED BY <1>1, InvariantHolds, PTL

\* What run_cancelled returns is true of the execution of uv.
THEOREM AnswerTellsExecutionHolds == Spec => []AnswerTellsExecution
<1>1. IInv => AnswerTellsExecution
  BY ResultAssumption
     DEF IInv, TypeOK, CallerInv, StageInv, ResultInv, AnswerTellsExecution,
         DeployResult, NotExecuted, Completed
<1>2. QED BY <1>1, InvariantHolds, PTL

\* The biased select of run_uv sees a cancellation that came before uv first.
THEOREM LateCancelWinsHolds == Spec => []LateCancelWins
<1>1. IInv => LateCancelWins
  BY DEF IInv, ResultInv, LateCancelWins
<1>2. QED BY <1>1, InvariantHolds, PTL

\* Keys, certificates and executions are only for approved deploys and pins
\* that the worker validated.
THEOREM TrustBeforeCredentialsHolds == Spec => []TrustBeforeCredentials
<1>1. IInv => TrustBeforeCredentials
  BY DEF IInv, CallerInv, StageInv, TrustBeforeCredentials, Engaged
<1>2. QED BY <1>1, InvariantHolds, PTL

-----------------------------------------------------------------------------
(* What the mapping makes of results and of the permit.                    *)

\* Class puts every result in one class, and None in none.
LEMMA ClassOf ==
  /\ \A r \in NotExecuted : Class(r) = "not_executed"
  /\ \A r \in OutcomeUnknown : Class(r) = "unknown"
  /\ \A r \in Completed : Class(r) = "completed"
  /\ Class(None) = "none"
<1>1. \A r \in NotExecuted : Class(r) = "not_executed"
  BY DEF Class
<1>2. \A r \in OutcomeUnknown : Class(r) = "unknown"
  BY DEF Class, OutcomeUnknown, NotExecuted
<1>3. \A r \in Completed : Class(r) = "completed"
  BY DEF Class, Completed, OutcomeUnknown, NotExecuted
<1>4. Class(None) = "none"
  BY ResultAssumption DEF Class, DeployResult
<1>5. QED BY <1>1, <1>2, <1>3, <1>4

\* A step that keeps the holder of the permit, the started deploys, the
\* results and the answers is no step of the contract.
LEMMA ContractStutters ==
  ASSUME UNCHANGED <<up, answer>>,
         \A c \in Calls : Holds(c)' <=> Holds(c),
         \A c \in Calls : (launched[c] # "no")' <=> launched[c] # "no",
         \A c \in Calls : ret'[c] = ret[c]
  PROVE  UNCHANGED Contract!cvars
<1>1. {c \in Calls : Holds(c)}' = {c \in Calls : Holds(c)}
  OBVIOUS
<1>2. {c \in Calls : launched[c] # "no"}' = {c \in Calls : launched[c] # "no"}
  OBVIOUS
<1>3. [c \in Calls |-> Class(ret[c])]' = [c \in Calls |-> Class(ret[c])]
  BY DEF Class
<1>4. [c \in Calls |-> Class(answer[c])]' = [c \in Calls |-> Class(answer[c])]
  BY DEF Class
<1>5. QED BY <1>1, <1>2, <1>3, <1>4 DEF Contract!cvars

\* When c holds the permit, the slot of the contract is {c}.
LEMMA SlotOfHolder ==
  ASSUME IInv, NEW c \in Calls, Holds(c)
  PROVE  {d \in Calls : Holds(d)} = {c}
BY DEF IInv, PermitInv

\* The worker of c decides on result r and moves to stage t: a Decide step.
LEMMA WorkerDecides ==
  ASSUME IInv, NEW c \in Calls, up, stage[c] \in WorkerStages, ret[c] = None,
         NEW t \in WorkerStages, stage' = Set(stage, c, t),
         NEW r \in DeployResult, ret' = Set(ret, c, r),
         UNCHANGED <<up, caller, answer, launched>>,
         r \in NotExecuted <=> launched[c] = "no"
  PROVE  Contract!Next
<1>1. {d \in Calls : Holds(d)} = {c} /\ {d \in Calls : Holds(d)}' = {c}
  <2>1. {d \in Calls : Holds(d)} = {c}
    BY SlotOfHolder DEF Holds
  <2>2. \A d \in Calls : Holds(d)' <=> Holds(d)
    BY DEF IInv, TypeOK, WorkerTypes, Holds, Set
  <2>3. QED BY <2>1, <2>2
<1>2. answer[c] = None
  BY DEF IInv, TypeOK, CallerInv, WorkerStages
<1>3. Class(r) \in Contract!Verdicts /\ (Class(r) = "not_executed" <=> launched[c] = "no")
  BY ClassOf DEF Contract!Verdicts, DeployResult
<1>4. [d \in Calls |-> Class(ret[d])]' =
      [[d \in Calls |-> Class(ret[d])] EXCEPT ![c] = Class(r)]
  BY DEF IInv, TypeOK, WorkerTypes, Set, Class
<1>5. Contract!Decide(c, Class(r))
  BY <1>1, <1>2, <1>3, <1>4, ClassOf DEF Contract!Decide, Class
<1>6. QED BY <1>3, <1>5 DEF Contract!Next

\* A step of the contract, or none.
ContractStep == [Contract!Next]_(Contract!cvars)

-----------------------------------------------------------------------------
(* The actions that the contract does not see.                             *)

\* The permit moves from the caller to its worker: the call keeps the slot.
LEMMA SpawnWorkerStep == ASSUME IInv, NEW c \in Calls, SpawnWorker(c) PROVE ContractStep
<1>1. \A d \in Calls : Holds(d)' <=> Holds(d)
  BY  DEF IInv, TypeOK, WorkerTypes, SpawnWorker, childVars, Holds,
     WorkerStages, Set
<1>2. UNCHANGED <<up, answer, launched>> /\ \A d \in Calls : ret'[d] = ret[d]
  BY  DEF SpawnWorker, childVars
<1>3. QED BY <1>1, <1>2, ContractStutters DEF ContractStep

\* A cancellation alone decides nothing.
LEMMA CancelRequestStep == ASSUME IInv, NEW c \in Calls, CancelRequest(c) PROVE ContractStep
<1>1. \A d \in Calls : Holds(d)' <=> Holds(d)
  BY  DEF IInv, TypeOK, WorkerTypes, CancelRequest, childVars, Holds,
     WorkerStages, Set
<1>2. UNCHANGED <<up, answer, launched>> /\ \A d \in Calls : ret'[d] = ret[d]
  BY  DEF CancelRequest, childVars
<1>3. QED BY <1>1, <1>2, ContractStutters DEF ContractStep

\* A dropped caller leaves the slot to its worker.
LEMMA DropCallerStep == ASSUME IInv, NEW c \in Calls, DropCaller(c) PROVE ContractStep
<1>1. \A d \in Calls : Holds(d)' <=> Holds(d)
  BY  DEF IInv, TypeOK, WorkerTypes, DropCaller, childVars, Holds,
     WorkerStages, Set
<1>2. UNCHANGED <<up, answer, launched>> /\ \A d \in Calls : ret'[d] = ret[d]
  BY  DEF DropCaller, childVars
<1>3. QED BY <1>1, <1>2, ContractStutters DEF ContractStep

\* Key generation is not yet an execution.
LEMMA StartKeygenStep == ASSUME IInv, NEW c \in Calls, StartKeygen(c) PROVE ContractStep
<1>1. \A d \in Calls : Holds(d)' <=> Holds(d)
  BY  DEF IInv, TypeOK, WorkerTypes, StartKeygen, callerVars, Holds,
     WorkerStages, Set
<1>2. UNCHANGED <<up, answer, launched>> /\ \A d \in Calls : ret'[d] = ret[d]
  BY  DEF StartKeygen, callerVars
<1>3. QED BY <1>1, <1>2, ContractStutters DEF ContractStep

\* Neither is the call to OpenBao.
LEMMA KeygenSucceedsStep == ASSUME IInv, NEW c \in Calls, KeygenSucceeds(c) PROVE ContractStep
<1>1. \A d \in Calls : Holds(d)' <=> Holds(d)
  BY  DEF IInv, TypeOK, WorkerTypes, KeygenSucceeds, callerVars, Holds,
     WorkerStages, Set
<1>2. UNCHANGED <<up, answer, launched>> /\ \A d \in Calls : ret'[d] = ret[d]
  BY  DEF KeygenSucceeds, callerVars
<1>3. QED BY <1>1, <1>2, ContractStutters DEF ContractStep

\* The result was decided when the child was killed.
LEMMA TerminatedStep == ASSUME IInv, NEW c \in Calls, Terminated(c) PROVE ContractStep
<1>1. \A d \in Calls : Holds(d)' <=> Holds(d)
  BY  DEF IInv, TypeOK, WorkerTypes, Terminated, callerVars, Return, Holds,
     WorkerStages, Set
<1>2. UNCHANGED <<up, answer, launched>> /\ \A d \in Calls : ret'[d] = ret[d]
  BY  DEF IInv, TypeOK, WorkerTypes, Set, Terminated, callerVars, Return
<1>3. QED BY <1>1, <1>2, ContractStutters DEF ContractStep

\* The result is on its way; the permit is still taken.
LEMMA SendResultStep == ASSUME IInv, NEW c \in Calls, SendResult(c) PROVE ContractStep
<1>1. \A d \in Calls : Holds(d)' <=> Holds(d)
  BY  DEF IInv, TypeOK, WorkerTypes, SendResult, callerVars, childVars,
     Holds, WorkerStages, Set
<1>2. UNCHANGED <<up, answer, launched>> /\ \A d \in Calls : ret'[d] = ret[d]
  BY  DEF SendResult, callerVars, childVars
<1>3. QED BY <1>1, <1>2, ContractStutters DEF ContractStep

\* A timer that fires decides nothing by itself.
LEMMA TimerExpiresStep == ASSUME IInv, NEW c \in Calls, TimerExpires(c) PROVE ContractStep
<1>1. \A d \in Calls : Holds(d)' <=> Holds(d)
  BY  DEF TimerExpires, callerVars, Holds
<1>2. UNCHANGED <<up, answer, launched>> /\ \A d \in Calls : ret'[d] = ret[d]
  BY  DEF TimerExpires, callerVars
<1>3. QED BY <1>1, <1>2, ContractStutters DEF ContractStep

\* The exit of a child is seen later.
LEMMA ChildExitsStep == ASSUME IInv, NEW c \in Calls, ChildExits(c) PROVE ContractStep
<1>1. \A d \in Calls : Holds(d)' <=> Holds(d)
  BY  DEF ChildExits, callerVars, Holds
<1>2. UNCHANGED <<up, answer, launched>> /\ \A d \in Calls : ret'[d] = ret[d]
  BY  DEF ChildExits, callerVars
<1>3. QED BY <1>1, <1>2, ContractStutters DEF ContractStep

\* The other processes of the group are not part of the contract.
LEMMA GroupChangesStep == ASSUME IInv, NEW c \in Calls, GroupChanges(c) PROVE ContractStep
<1>1. \A d \in Calls : Holds(d)' <=> Holds(d)
  BY  DEF GroupChanges, callerVars, Holds
<1>2. UNCHANGED <<up, answer, launched>> /\ \A d \in Calls : ret'[d] = ret[d]
  BY  DEF GroupChanges, callerVars
<1>3. QED BY <1>1, <1>2, ContractStutters DEF ContractStep

\* The end of a pipe is seen later.
LEMMA DrainEndsStep == ASSUME IInv, NEW c \in Calls, NEW s \in Streams, DrainEnds(c, s) PROVE ContractStep
<1>1. \A d \in Calls : Holds(d)' <=> Holds(d)
  BY  DEF DrainEnds, callerVars, Holds
<1>2. UNCHANGED <<up, answer, launched>> /\ \A d \in Calls : ret'[d] = ret[d]
  BY  DEF DrainEnds, callerVars
<1>3. QED BY <1>1, <1>2, ContractStutters DEF ContractStep

-----------------------------------------------------------------------------
(* The actions that decide on a result.                                    *)

\* The worker ends before ssh-keygen: not executed.
LEMMA RejectStartStep == ASSUME IInv, NEW c \in Calls, RejectStart(c) PROVE ContractStep
<1>1. PICK r \in NotExecuted : Return(c, r)
  BY  DEF RejectStart, NotExecuted
<1>2. /\ stage[c] \in WorkerStages /\ ret[c] = None
      /\ r \in NotExecuted <=> launched[c] = "no"
  BY  DEF IInv, StageInv, RejectStart, WorkerStages, NotExecuted
<1>3. up /\ UNCHANGED <<up, caller, answer, launched>>
  BY  DEF RejectStart, callerVars
<1>4. QED
  BY <1>1, <1>2, <1>3, WorkerDecides DEF Return, WorkerStages, DeployResult,
     ContractStep

\* ssh-keygen failed: not executed.
LEMMA KeygenFailsStep == ASSUME IInv, NEW c \in Calls, KeygenFails(c) PROVE ContractStep
<1>1. PICK r \in NotExecuted : Return(c, r)
  BY  DEF KeygenFails, NotExecuted
<1>2. /\ stage[c] \in WorkerStages /\ ret[c] = None
      /\ r \in NotExecuted <=> launched[c] = "no"
  BY  DEF IInv, StageInv, KeygenFails, WorkerStages, NotExecuted
<1>3. up /\ UNCHANGED <<up, caller, answer, launched>>
  BY  DEF KeygenFails, callerVars
<1>4. QED
  BY <1>1, <1>2, <1>3, WorkerDecides DEF Return, WorkerStages, DeployResult,
     ContractStep

\* No certificate, or uv could not be started: not executed.
LEMMA SignFailsStep == ASSUME IInv, NEW c \in Calls, SignFails(c) PROVE ContractStep
<1>1. PICK r \in NotExecuted : Return(c, r)
  BY  DEF SignFails, NotExecuted
<1>2. /\ stage[c] \in WorkerStages /\ ret[c] = None
      /\ r \in NotExecuted <=> launched[c] = "no"
  BY  DEF IInv, StageInv, SignFails, WorkerStages, NotExecuted
<1>3. up /\ UNCHANGED <<up, caller, answer, launched>>
  BY  DEF SignFails, callerVars
<1>4. QED
  BY <1>1, <1>2, <1>3, WorkerDecides DEF Return, WorkerStages, DeployResult,
     ContractStep

\* ssh-keygen was killed: not executed.
LEMMA KeygenStoppedStep == ASSUME IInv, NEW c \in Calls, KeygenStopped(c) PROVE ContractStep
<1>1. PICK r \in NotExecuted : Terminate(c, r)
  BY  DEF KeygenStopped, NotExecuted
<1>2. /\ stage[c] \in WorkerStages /\ ret[c] = None
      /\ r \in NotExecuted <=> launched[c] = "no"
  BY  DEF IInv, StageInv, KeygenStopped, WorkerStages, NotExecuted
<1>3. up /\ UNCHANGED <<up, caller, answer, launched>>
  BY  DEF KeygenStopped, callerVars
<1>4. QED
  BY <1>1, <1>2, <1>3, WorkerDecides DEF Terminate, WorkerStages,
     DeployResult, ContractStep

\* uv was cancelled or timed out: unknown.
LEMMA UvStoppedStep == ASSUME IInv, NEW c \in Calls, UvStopped(c) PROVE ContractStep
<1>1. PICK r \in OutcomeUnknown : Terminate(c, r)
  BY  DEF UvStopped, OutcomeUnknown
<1>2. /\ stage[c] \in WorkerStages /\ ret[c] = None
      /\ r \in NotExecuted <=> launched[c] = "no"
  BY  DEF IInv, StageInv, UvStopped, WorkerStages, NotExecuted,
     OutcomeUnknown
<1>3. up /\ UNCHANGED <<up, caller, answer, launched>>
  BY  DEF UvStopped, callerVars
<1>4. QED
  BY <1>1, <1>2, <1>3, WorkerDecides DEF Terminate, WorkerStages,
     DeployResult, ContractStep

\* The exit status of uv could not be had: unknown.
LEMMA UvWaitFailsStep == ASSUME IInv, NEW c \in Calls, UvWaitFails(c) PROVE ContractStep
<1>1. PICK r \in OutcomeUnknown : Terminate(c, r)
  BY  DEF UvWaitFails, OutcomeUnknown
<1>2. /\ stage[c] \in WorkerStages /\ ret[c] = None
      /\ r \in NotExecuted <=> launched[c] = "no"
  BY  DEF IInv, StageInv, UvWaitFails, Polled, WorkerStages, NotExecuted,
     OutcomeUnknown
<1>3. up /\ UNCHANGED <<up, caller, answer, launched>>
  BY  DEF UvWaitFails, Polled, callerVars
<1>4. QED
  BY <1>1, <1>2, <1>3, WorkerDecides DEF Terminate, WorkerStages,
     DeployResult, ContractStep

\* An output of uv was too large: unknown.
LEMMA UvOverflowStep == ASSUME IInv, NEW c \in Calls, NEW s \in Streams, UvOverflow(c, s) PROVE ContractStep
<1>1. PICK r \in OutcomeUnknown : Terminate(c, r)
  BY  DEF UvOverflow, OutcomeUnknown
<1>2. /\ stage[c] \in WorkerStages /\ ret[c] = None
      /\ r \in NotExecuted <=> launched[c] = "no"
  BY  DEF IInv, StageInv, UvOverflow, Polled, DrainPolled, WorkerStages,
     NotExecuted, OutcomeUnknown
<1>3. up /\ UNCHANGED <<up, caller, answer, launched>>
  BY  DEF UvOverflow, Polled, DrainPolled, callerVars
<1>4. QED
  BY <1>1, <1>2, <1>3, WorkerDecides DEF Terminate, WorkerStages,
     DeployResult, ContractStep

\* The exit status decides if both outputs are in hand.
LEMMA UvExitedStep == ASSUME IInv, NEW c \in Calls, UvExited(c) PROVE ContractStep
<1>1. /\ stage[c] \in WorkerStages /\ ret[c] = None /\ launched[c] # "no"
      /\ up /\ UNCHANGED <<up, caller, answer, launched>>
  BY  DEF IInv, StageInv, UvExited, Polled, callerVars, WorkerStages
<1>2. CASE UNCHANGED <<stage, ret, runDir>>
  BY <1>1, <1>2, ContractStutters DEF Holds, ContractStep
<1>3. CASE \E r \in OutcomeUnknown \cup Completed : Return(c, r)
  <2>1. PICK r \in OutcomeUnknown \cup Completed : Return(c, r)
    BY <1>3
  <2>2. r \notin NotExecuted
    BY DEF NotExecuted, OutcomeUnknown, Completed
  <2>3. QED
    BY <1>1, <2>1, <2>2, WorkerDecides DEF Return, WorkerStages, DeployResult, ContractStep
<1>4. QED
  BY <1>2, <1>3 DEF UvExited, Settle, OutcomeUnknown

\* The second output decides if the exit status is in hand.
LEMMA UvDrainedStep == ASSUME IInv, NEW c \in Calls, NEW s \in Streams, UvDrained(c, s) PROVE ContractStep
<1>1. /\ stage[c] \in WorkerStages /\ ret[c] = None /\ launched[c] # "no"
      /\ up /\ UNCHANGED <<up, caller, answer, launched>>
  BY  DEF IInv, StageInv, UvDrained, Polled, DrainPolled, callerVars,
     WorkerStages
<1>2. CASE UNCHANGED <<stage, ret, runDir>>
  BY <1>1, <1>2, ContractStutters DEF Holds, ContractStep
<1>3. CASE \E r \in OutcomeUnknown \cup Completed : Return(c, r)
  <2>1. PICK r \in OutcomeUnknown \cup Completed : Return(c, r)
    BY <1>3
  <2>2. r \notin NotExecuted
    BY DEF NotExecuted, OutcomeUnknown, Completed
  <2>3. QED
    BY <1>1, <2>1, <2>2, WorkerDecides DEF Return, WorkerStages, DeployResult, ContractStep
<1>4. QED
  BY <1>2, <1>3 DEF UvDrained, Settle, OutcomeUnknown

-----------------------------------------------------------------------------
(* The other operations of the contract.                                   *)

\* RejectBusy is Refuse: the permit is gone, so some other call has the slot.
LEMMA RejectBusyStep == ASSUME IInv, NEW c \in Calls, RejectBusy(c) PROVE ContractStep
<1>1. /\ {d \in Calls : Holds(d)} # {} /\ ~Holds(c)
      /\ \A d \in Calls : Holds(d)' <=> Holds(d)
  BY DEF IInv, TypeOK, PermitInv, CallerInv, RejectBusy, Answer, Holds, WorkerStages, Set
<1>2. ret[c] = None /\ answer[c] = None /\ launched[c] = "no"
  BY DEF IInv, CallerInv, StageInv, RejectBusy
<1>3. [d \in Calls |-> Class(answer[d])]' =
      [[d \in Calls |-> Class(answer[d])] EXCEPT ![c] = "not_executed"]
  BY ClassOf DEF IInv, TypeOK, RejectBusy, Answer, Set, NotExecuted, Class
<1>4. Contract!Refuse(c)
  BY <1>1, <1>2, <1>3, ClassOf
     DEF RejectBusy, Contract!Refuse, Contract!Fresh, Class
<1>5. QED BY <1>4 DEF Contract!Next, ContractStep

\* Acquire is Admit: the permit was there, so the slot was empty.
LEMMA AcquireStep ==
  ASSUME IInv, NEW c \in Calls, NEW d \in DeployIds, NEW m \in Machine, Acquire(c, d, m)
  PROVE  ContractStep
<1>1. {e \in Calls : Holds(e)} = {} /\ {e \in Calls : Holds(e)}' = {c}
  BY DEF IInv, TypeOK, PermitInv, Acquire, Holds, Set
<1>2. ret[c] = None /\ answer[c] = None /\ launched[c] = "no"
  BY DEF IInv, CallerInv, StageInv, Acquire
<1>3. Contract!Admit(c)
  BY <1>1, <1>2, ClassOf DEF Acquire, Contract!Admit, Contract!Fresh, Class
<1>4. QED BY <1>3 DEF Contract!Next, ContractStep

\* RejectRequest is Reject: the early return drops the permit.
LEMMA RejectRequestStep ==
  ASSUME IInv, NEW c \in Calls, RejectRequest(c) PROVE ContractStep
<1>1. {d \in Calls : Holds(d)} = {c}
  BY SlotOfHolder DEF RejectRequest, Holds
<1>2. {d \in Calls : Holds(d)}' = {}
  BY <1>1 DEF IInv, TypeOK, CallerInv, RejectRequest, Answer, Holds, WorkerStages, Set
<1>3. ret[c] = None /\ answer[c] = None /\ launched[c] = "no"
  BY DEF IInv, CallerInv, StageInv, RejectRequest
<1>4. [d \in Calls |-> Class(answer[d])]' =
      [[d \in Calls |-> Class(answer[d])] EXCEPT ![c] = "not_executed"]
  BY ClassOf
     DEF IInv, TypeOK, RejectRequest, ResolveError, Answer, Set, NotExecuted, Class
<1>5. Contract!Reject(c)
  BY <1>1, <1>2, <1>3, <1>4, ClassOf
     DEF RejectRequest, Contract!Reject, Contract!Fresh, Class
<1>6. QED BY <1>5 DEF Contract!Next, ContractStep

\* StartUv is Start.
LEMMA StartUvStep == ASSUME IInv, NEW c \in Calls, StartUv(c) PROVE ContractStep
<1>1. {d \in Calls : Holds(d)} = {c}
  BY SlotOfHolder DEF StartUv, Holds, WorkerStages
<1>2. \A d \in Calls : Holds(d)' <=> Holds(d)
  BY DEF IInv, TypeOK, WorkerTypes, StartUv, callerVars, Holds, WorkerStages, Set
<1>3. ret[c] = None /\ answer[c] = None /\ launched[c] = "no"
  BY DEF IInv, TypeOK, CallerInv, StageInv, StartUv
<1>4. {d \in Calls : launched[d] # "no"}' = {d \in Calls : launched[d] # "no"} \cup {c}
  BY DEF IInv, TypeOK, StartUv, Set
<1>5. Contract!Start(c)
  BY <1>1, <1>2, <1>3, <1>4, ClassOf
     DEF StartUv, callerVars, Contract!Start, Contract!Fresh, Class
<1>6. QED BY <1>5 DEF Contract!Next, ContractStep

\* Receive is Tell: the caller gets the worker's result.
LEMMA ReceiveStep == ASSUME IInv, NEW c \in Calls, Receive(c) PROVE ContractStep
<1>1. \A d \in Calls : Holds(d)' <=> Holds(d)
  BY DEF IInv, TypeOK, Receive, Answer, Holds, Set
<1>2. ret[c] \in DeployResult /\ answer[c] = None
  BY DEF IInv, TypeOK, WorkerTypes, CallerInv, StageInv, Receive, ResultSent
<1>3. Class(ret[c]) # "none"
  BY <1>2, ClassOf DEF DeployResult
<1>4. [d \in Calls |-> Class(answer[d])]' =
      [[d \in Calls |-> Class(answer[d])] EXCEPT ![c] = Class(ret[c])]
  BY DEF IInv, TypeOK, Receive, Answer, Set, Class
<1>5. Contract!Tell(c)
  BY <1>1, <1>2, <1>3, <1>4, ClassOf DEF Receive, Contract!Tell, Class
<1>6. QED BY <1>5 DEF Contract!Next, ContractStep

\* DropPermit is Leave.
LEMMA DropPermitStep == ASSUME IInv, NEW c \in Calls, DropPermit(c) PROVE ContractStep
<1>1. {d \in Calls : Holds(d)} = {c}
  BY SlotOfHolder DEF DropPermit, Holds, WorkerStages
<1>2. {d \in Calls : Holds(d)}' = {}
  BY <1>1 DEF IInv, TypeOK, WorkerTypes, CallerInv, DropPermit, callerVars, Holds,
              WorkerStages, Set
<1>3. ret[c] \in DeployResult
  BY DEF IInv, TypeOK, WorkerTypes, StageInv, DropPermit
<1>4. Class(ret[c]) # "none"
  BY <1>3, ClassOf DEF DeployResult
<1>5. Contract!Leave(c)
  BY <1>1, <1>2, <1>4 DEF DropPermit, callerVars, Contract!Leave, Class
<1>6. QED BY <1>5 DEF Contract!Next, ContractStep

\* Shutdown is Close.
LEMMA ShutdownStep == ASSUME IInv, Shutdown PROVE ContractStep
<1>1. {d \in Calls : Holds(d)}' = {}
  BY DEF IInv, TypeOK, WorkerTypes, Shutdown, Holds, WorkerStages
<1>2. Contract!Close
  BY <1>1 DEF Shutdown, Contract!Close, Class
<1>3. QED BY <1>2 DEF Contract!Next, ContractStep

-----------------------------------------------------------------------------
\* The initial state of the runner maps to the initial state of the contract.
LEMMA InitStep == Init => Contract!Init
BY ClassOf DEF Init, Contract!Init, Holds, WorkerStages

\* Every step of the runner maps to a step of the contract or to none.
LEMMA NextStep == IInv /\ [Next]_vars => ContractStep
<1> SUFFICES ASSUME IInv, [Next]_vars PROVE ContractStep
  OBVIOUS
<1>1. CASE UNCHANGED vars
  BY <1>1, ContractStutters DEF vars, Holds, ContractStep
<1>2. ASSUME NEW c \in Calls, NEW d \in DeployIds, NEW m \in Machine, Enter(c, d, m)
      PROVE  ContractStep
  BY <1>2, RejectBusyStep, AcquireStep DEF Enter
<1>3. ASSUME NEW c \in Calls, CallerStep(c) PROVE ContractStep
  BY <1>3, RejectRequestStep, SpawnWorkerStep, ReceiveStep, CancelRequestStep,
     DropCallerStep
     DEF CallerStep
<1>4. ASSUME NEW c \in Calls, WorkerStep(c) PROVE ContractStep
  BY <1>4, RejectStartStep, StartKeygenStep, KeygenFailsStep, KeygenSucceedsStep,
     KeygenStoppedStep, SignFailsStep, StartUvStep, UvStoppedStep, UvExitedStep,
     UvWaitFailsStep, UvDrainedStep, UvOverflowStep, TerminatedStep, SendResultStep,
     DropPermitStep
     DEF WorkerStep
<1>5. ASSUME NEW c \in Calls, ProcessStep(c) PROVE ContractStep
  BY <1>5, TimerExpiresStep, ChildExitsStep, GroupChangesStep, DrainEndsStep
     DEF ProcessStep
<1>6. QED
  BY <1>1, <1>2, <1>3, <1>4, <1>5, ShutdownStep DEF Next, Proceed

\* run_cancelled and its worker implement the contract, for any number of
\* calls: one deploy at a time, at most one execution for each call, and an
\* answer that never denies an execution that happened.
THEOREM ImplementsContractHolds == Spec => ImplementsContract
<1>1. Init => Contract!Init
  BY InitStep
<1>2. IInv /\ [Next]_vars => [Contract!Next]_(Contract!cvars)
  BY NextStep DEF ContractStep
<1>3. QED BY <1>1, <1>2, InvariantHolds, PTL DEF Spec, ImplementsContract, Contract!Spec

=============================================================================
