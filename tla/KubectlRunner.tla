---------------------------- MODULE KubectlRunner ----------------------------
(***************************************************************************)
(* The kubectl runner (src/integrations/kubernetes/runner.rs).  A caller   *)
(* takes one of a few permits and hands its arguments to a detached worker *)
(* task; the worker starts kubectl, drains its two streams and waits for   *)
(* it under a deadline.  Caller and worker share two oneshot channels: the *)
(* caller's cancellation and the worker's result.  The worker, not the     *)
(* caller, owns the permit.                                                *)
(*                                                                         *)
(* kubectl and the API server are external: a mutation leaves kubectl on   *)
(* the wire, and the server may apply it after kubectl was killed.         *)
(***************************************************************************)
EXTENDS Integers, FiniteSets

CONSTANTS
  KubectlCalls,
  KubectlPermits,    \* Semaphore::new(2)
  Stderrs,    \* what kubectl may say: sets of the phrases classify_exit looks for
  Nil

ASSUME KubectlPermitsAssumption == KubectlPermits \in Nat \ {0}

\* Exit codes of kubectl, "other" standing for a death by signal as well.
Failures == {"1", "2", "other"}
Phrases == {"forbidden", "no_resource_type", "not_found"}
ASSUME StderrsAssumption == Stderrs \subseteq SUBSET Phrases

VARIABLES
  kubectlPermits,    \* permits left
  call        \* per call: the caller, its worker task and its kubectl

kubectlVars == <<kubectlPermits, call>>

\* A call that has not begun.
KubectlFresh == [op |-> "query", caller |-> "idle", cancel |-> "open", worker |-> "none",
                 kubectl |-> "none", code |-> "none", said |-> {}, out |-> "none", err |-> "none",
                 got |-> {}, timer |-> "off", next |-> Nil, result |-> Nil, answer |-> Nil,
                 wire |-> "none"]

KubectlInit == kubectlPermits = KubectlPermits /\ call = [c \in KubectlCalls |-> KubectlFresh]

-----------------------------------------------------------------------------
KubectlOperationFailure(op, dispatched) ==
  IF op = "query" THEN "upstream_unavailable"
  ELSE IF dispatched THEN "mutation_outcome_unknown" ELSE "mutation_rejected"

StreamFailure(op) ==
  IF op = "mutation" THEN "mutation_outcome_unknown" ELSE "response_too_large"

ClassifyExit(code, said) ==
  IF "forbidden" \in said THEN "unauthorized"
  ELSE IF "no_resource_type" \in said THEN "unsupported_api"
  ELSE IF "not_found" \in said THEN "not_found"
  ELSE CASE code = "1" -> "query_rejected"
         [] code = "2" -> "invalid_arguments"
         [] OTHER      -> "upstream_unavailable"

ExitResultTrustsCode(k) ==
  IF k.code = "success" THEN "ok"
  ELSE IF k.op = "mutation" THEN "mutation_rejected"
  ELSE ClassifyExit(k.code, k.said)

\* What the worker returns once it has the exit status and both streams.
ExitResult(k) ==
  IF k.code = "success" THEN "ok"
  ELSE IF k.op = "mutation" THEN "mutation_outcome_unknown"
  ELSE ClassifyExit(k.code, k.said)

CancelVisible(k) == k.cancel # "open"

\* The worker returns, which ends its local state, and sends its result; the permit
\* is dropped by a later step.
Reply(k, r) ==
  [k EXCEPT !.worker = "sent", !.result = r, !.code = "none", !.said = {}, !.out = "none",
            !.err = "none", !.got = {}, !.timer = "off", !.next = Nil]

SettleOnStatus(k) ==
  IF "status" \in k.got THEN Reply(k, ExitResult(k)) ELSE k

\* The top of the worker's loop: with the status and both streams it returns.
Settle(k) ==
  IF k.got = {"status", "out", "err"} THEN Reply(k, ExitResult(k)) ELSE k

\* terminate: the kill is sent; the worker returns r once kubectl is reaped.
Kill(k, r) == [k EXCEPT !.worker = "kill", !.next = r]

Set(c, k) == call' = [call EXCEPT ![c] = k]
-----------------------------------------------------------------------------
BeginWithoutCheck(c, op) ==
  /\ call[c].caller = "idle"
  /\ Set(c, [call[c] EXCEPT !.op = op, !.caller = "waiting", !.worker = "start"])
  /\ kubectlPermits' = kubectlPermits - 1

\* run_cancelled up to its select.
KubectlBegin(c, op) ==
  /\ call[c].caller = "idle"
  /\ IF kubectlPermits = 0
     THEN /\ Set(c, [call[c] EXCEPT !.op = op, !.caller = "done",
                                    !.answer = "capacity_exhausted"])
          /\ UNCHANGED kubectlPermits
     ELSE /\ Set(c, [call[c] EXCEPT !.op = op, !.caller = "waiting",
                                    !.worker = "start"])
          /\ kubectlPermits' = kubectlPermits - 1

\* The select takes the result first, even when the request is cancelled too.
KubectlReceive(c) ==
  /\ call[c].caller = "waiting" /\ call[c].result # Nil
  /\ Set(c, [call[c] EXCEPT !.caller = "done", !.answer = call[c].result,
                            !.result = Nil, !.cancel = "closed"])
  /\ UNCHANGED kubectlPermits

CancelAnswersAtOnce(c) ==
  /\ call[c].caller = "waiting" /\ call[c].result = Nil
  /\ Set(c, [call[c] EXCEPT !.caller = "done", !.cancel = "sent",
               !.answer = IF call[c].op = "query" THEN "request_cancelled"
                          ELSE "mutation_outcome_unknown"])
  /\ UNCHANGED kubectlPermits

\* The request is cancelled: tell the worker and wait for it.
KubectlCancel(c) ==
  /\ call[c].caller = "waiting" /\ call[c].result = Nil
  /\ Set(c, [call[c] EXCEPT !.caller = "cancelling", !.cancel = "sent"])
  /\ UNCHANGED kubectlPermits

\* The worker is done: whatever it found, a cancelled call says so.
FinishCancel(c) ==
  /\ call[c].caller = "cancelling" /\ call[c].result # Nil
  /\ Set(c, [call[c] EXCEPT !.caller = "done", !.result = Nil,
               !.answer = IF call[c].op = "query" THEN "request_cancelled"
                          ELSE "mutation_outcome_unknown"])
  /\ UNCHANGED kubectlPermits

\* The future of the call is dropped; dropping cancel_tx closes the channel.
DropCaller(c) ==
  /\ call[c].caller \in {"waiting", "cancelling"}
  /\ Set(c, [call[c] EXCEPT !.caller = "dropped",
               !.cancel = IF @ = "open" THEN "closed" ELSE @])
  /\ UNCHANGED kubectlPermits

CallerStep(c) == KubectlReceive(c) \/ FinishCancel(c)
-----------------------------------------------------------------------------
StartIgnoringCancel(c) ==
  /\ call[c].worker = "start"
  /\ Set(c, [call[c] EXCEPT !.worker = "loop", !.kubectl = "running", !.out = "open",
                            !.err = "open", !.timer = "armed"])
  /\ UNCHANGED kubectlPermits

\* worker up to its loop: a call cancelled by now, or whose kubectl cannot be
\* started, was never dispatched.
Start(c) ==
  /\ call[c].worker = "start"
  /\ UNCHANGED kubectlPermits
  /\ \/ Set(c, Reply(call[c], KubectlOperationFailure(call[c].op, FALSE)))
     \/ /\ ~CancelVisible(call[c])
        /\ Set(c, [call[c] EXCEPT !.worker = "loop", !.kubectl = "running", !.out = "open",
                                  !.err = "open", !.timer = "armed"])

\* The first two branches of the biased select.
Preempted(k) == CancelVisible(k) \/ k.timer = "expired"
StatusReady(k) == k.kubectl = "exited" /\ "status" \notin k.got
StreamReady(k, s) == k[s] \in {"eof", "failed"} /\ s \notin k.got

StopOnlyWhenCancelled(c) ==
  /\ call[c].worker = "loop" /\ CancelVisible(call[c])
  /\ Set(c, Kill(call[c], KubectlOperationFailure(call[c].op, TRUE)))
  /\ UNCHANGED kubectlPermits

Stop(c) ==
  LET k == call[c] IN
  /\ k.worker = "loop" /\ Preempted(k)
  /\ Set(c, Kill(k, IF CancelVisible(k) THEN KubectlOperationFailure(k.op, TRUE)
                    ELSE IF k.op = "mutation" THEN "mutation_outcome_unknown"
                    ELSE "timeout"))
  /\ UNCHANGED kubectlPermits

\* child.wait returns the status, or fails.
TakeStatus(c) ==
  LET k == call[c] IN
  /\ k.worker = "loop" /\ ~Preempted(k) /\ "status" \notin k.got
  /\ \/ StatusReady(k) /\ Set(c, Settle([k EXCEPT !.got = @ \cup {"status"}]))
     \/ Set(c, Kill(k, KubectlOperationFailure(k.op, TRUE)))
  /\ UNCHANGED kubectlPermits

\* A drain task ended: its bytes, or the end of the call.
TakeStream(c, s) ==
  LET k == call[c] IN
  /\ k.worker = "loop" /\ ~Preempted(k) /\ ~StatusReady(k) /\ StreamReady(k, s)
  /\ s = "err" => ~StreamReady(k, "out")
  /\ IF k[s] = "eof"
     THEN Set(c, Settle([k EXCEPT !.got = @ \cup {s}]))
     ELSE Set(c, Kill(k, StreamFailure(k.op)))
  /\ UNCHANGED kubectlPermits

\* terminate: kubectl is dead and reaped, the drain tasks are aborted.
Reap(c) ==
  /\ call[c].worker = "kill"
  /\ Set(c, Reply([call[c] EXCEPT !.kubectl = "exited"], call[c].next))
  /\ UNCHANGED kubectlPermits

EndWorkerOfLiveCaller(c) ==
  /\ call[c].worker = "sent"
  /\ Set(c, [call[c] EXCEPT !.worker = "ended"])
  /\ kubectlPermits' = IF call[c].caller = "dropped" THEN kubectlPermits ELSE kubectlPermits + 1

\* The task ends and drops the permit it owns.
EndWorker(c) ==
  /\ call[c].worker = "sent"
  /\ Set(c, [call[c] EXCEPT !.worker = "ended"])
  /\ kubectlPermits' = kubectlPermits + 1

WorkerStep(c) ==
  \/ Start(c) \/ Stop(c) \/ TakeStatus(c) \/ Reap(c) \/ EndWorker(c)
  \/ \E s \in {"out", "err"} : TakeStream(c, s)
-----------------------------------------------------------------------------
\* The deadline, measured from the start of kubectl.
KubectlExpire(c) ==
  /\ call[c].worker = "loop" /\ call[c].timer = "armed"
  /\ Set(c, [call[c] EXCEPT !.timer = "expired"])
  /\ UNCHANGED kubectlPermits

\* External: kubectl sends a mutation, and the API server applies it.
KubectlSends(c) ==
  /\ call[c].kubectl = "running" /\ call[c].op = "mutation" /\ call[c].wire = "none"
  /\ Set(c, [call[c] EXCEPT !.wire = "sent"])
  /\ UNCHANGED kubectlPermits

ServerApplies(c) ==
  /\ call[c].wire = "sent"
  /\ Set(c, [call[c] EXCEPT !.wire = "applied"])
  /\ UNCHANGED kubectlPermits

\* External: kubectl exits, with success only after the server's answer.
KubectlExits(c) ==
  /\ call[c].kubectl = "running" /\ call[c].worker = "loop"
  /\ UNCHANGED kubectlPermits
  /\ \/ /\ call[c].op = "mutation" => call[c].wire = "applied"
        /\ Set(c, [call[c] EXCEPT !.kubectl = "exited", !.code = "success"])
     \/ \E code \in Failures, said \in Stderrs :
          Set(c, [call[c] EXCEPT !.kubectl = "exited", !.code = code, !.said = said])

\* drain reaches the end of the stream, or its limit, or a read error.  A process
\* kubectl started may keep a stream open after kubectl has exited.
DrainEnds(c) ==
  /\ call[c].worker = "loop"
  /\ \E s \in {"out", "err"}, v \in {"eof", "failed"} :
       call[c][s] = "open" /\ Set(c, [call[c] EXCEPT ![s] = v])
  /\ UNCHANGED kubectlPermits

KubectlNext ==
  \E c \in KubectlCalls :
    \/ \E op \in {"query", "mutation"} : KubectlBegin(c, op)
    \/ KubectlCancel(c) \/ DropCaller(c) \/ CallerStep(c) \/ WorkerStep(c)
    \/ KubectlExpire(c) \/ KubectlSends(c) \/ ServerApplies(c) \/ KubectlExits(c) \/ DrainEnds(c)

\* Tasks are scheduled, and the deadline fires.  Nothing is assumed of kubectl,
\* of its streams or of the server.
KubectlFairness ==
  \A c \in KubectlCalls :
    /\ WF_kubectlVars(CallerStep(c)) /\ WF_kubectlVars(WorkerStep(c))
    /\ WF_kubectlVars(KubectlExpire(c))

KubectlSpec == KubectlInit /\ [][KubectlNext]_kubectlVars /\ KubectlFairness
-----------------------------------------------------------------------------
\* Answers that say the mutation did not happen.
KubectlDefinite == {"mutation_rejected", "capacity_exhausted"}
Answers == KubectlDefinite \cup
  {"ok", "mutation_outcome_unknown", "request_cancelled", "upstream_unavailable",
   "response_too_large", "timeout", "unauthorized", "unsupported_api", "not_found",
   "query_rejected", "invalid_arguments"}

ASSUME KubectlAbsenceAssumption == Nil \notin Answers

KubectlTypeOK ==
  /\ kubectlPermits \in 0..KubectlPermits
  /\ call \in [KubectlCalls ->
       [op : {"query", "mutation"},
        caller : {"idle", "waiting", "cancelling", "done", "dropped"},
        cancel : {"open", "sent", "closed"},
        worker : {"none", "start", "loop", "kill", "sent", "ended"},
        kubectl : {"none", "running", "exited"}, code : Failures \cup {"success", "none"},
        said : SUBSET Phrases, out : {"none", "open", "eof", "failed"},
        err : {"none", "open", "eof", "failed"}, got : SUBSET {"status", "out", "err"},
        timer : {"off", "armed", "expired"}, next : Answers \cup {Nil},
        result : Answers \cup {Nil}, answer : Answers \cup {Nil},
        wire : {"none", "sent", "applied"}]]

\* A permit is held exactly while a worker task runs, whatever became of its
\* caller (runner.rs:100-112): capacity_exhausted is never the lasting result of
\* dropped or cancelled calls.
KubectlPermitsAccounted ==
  LET working == {c \in KubectlCalls : call[c].worker \notin {"none", "ended"}}
  IN  kubectlPermits + Cardinality(working) = KubectlPermits

\* A caller that is told anything is told it after its kubectl was reaped
\* (runner.rs:122-123, "Do not report cancellation until the worker has killed
\* and reaped the child").
AnswerAfterReap ==
  \A c \in KubectlCalls : call[c].caller = "done" => call[c].kubectl # "running"

\* A mutation answered with mutation_rejected or capacity_exhausted never left
\* the program, so it cannot be applied later either; one answered "ok" was
\* applied (runner.rs operation_failure and the loop's return).
MutationAnswerTrue ==
  \A c \in KubectlCalls : call[c].op = "mutation" =>
    /\ call[c].answer \in KubectlDefinite => call[c].wire = "none"
    /\ call[c].answer = "ok" => call[c].wire = "applied"

\* A successful answer carries the whole of both streams: a process that exits
\* with success before its output is drained is not answered early.
OutputComplete ==
  [][\A c \in KubectlCalls : call[c].result = Nil /\ call[c]'.result = "ok"
        => call[c].out = "eof" /\ call[c].err = "eof"]_kubectlVars

\* A call that was cancelled before its worker began never starts kubectl
\* (runner.rs:139-142).
NoStartAfterCancel ==
  [][\A c \in KubectlCalls : call[c].kubectl = "none" /\ call[c]'.kubectl = "running"
        => call[c].cancel = "open"]_kubectlVars

\* Every call is answered or was dropped, and every worker ends, though kubectl
\* hangs for ever: the deadline and the kill see to it.
CallsEnd ==
  \A c \in KubectlCalls :
    /\ (call[c].caller \in {"waiting", "cancelling"}) ~> (call[c].caller \in {"done", "dropped"})
    /\ (call[c].worker = "start") ~> (call[c].worker = "ended")

\* The order of cancellation, kubectl's exit, its output and the answer (runner.rs:113-243):
\* no answer before the reap, no success before the output, no start after a cancellation.
KubectlInOrder == []AnswerAfterReap /\ OutputComplete /\ NoStartAfterCancel
=============================================================================
