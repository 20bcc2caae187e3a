----------------------------- MODULE TektonClient -----------------------------
(***************************************************************************)
(* Calls of the Tekton tools that follow one PipelineRun or change         *)
(* something (src/integrations/tekton/client.rs, mcp.rs): run.get,         *)
(* run.wait, workflow.dispatch, run.rerun and run.cancel.  Each is a       *)
(* sequence of HTTP requests; a request needs a permit, a wait also one of *)
(* the waiter slots.  The listing tools are in TektonReads.                *)
(*                                                                         *)
(* The Kubernetes API server, Forgejo and the Pipelines-as-Code controller *)
(* are external: they answer a read from the state of that moment, and a   *)
(* mutation that was sent may be carried out after its caller has left.    *)
(***************************************************************************)
EXTENDS Integers, FiniteSets

CONSTANTS
  TektonCalls,
  Ops,           \* operations the calls may ask for
  TektonPermits, \* 4
  Waiters,       \* 4
  Repositories,  \* canonical names, the id of a Repository
  MaxVersion     \* bound on the changes the controller makes to the run

ASSUME SlotsAssumption == TektonPermits \in Nat \ {0} /\ Waiters \in Nat \ {0}
ASSUME OpsAssumption == Ops \subseteq {"get", "wait", "dispatch", "rerun", "cancel"}

VARIABLES
  tektonPermits,    \* free permits
  waiters,    \* free waiter slots
  tcall,      \* per call: its operation and how far it is
  inflight,   \* calls whose mutation was sent and not yet handled
  tektonApplied,    \* external: calls whose mutation was carried out
  run,        \* external: the PipelineRun of that name
  catalog,    \* external: repository of the custom resource the run is labelled with
  offered     \* external: is the workflow on the default branch, with event "incoming"?

tektonVars == <<tektonPermits, waiters, tcall, inflight, tektonApplied, run, catalog, offered>>

Mutations == {"dispatch", "rerun", "cancel"}
Terminal == {"succeeded", "failed", "cancelled"}
TektonStatuses == Terminal \cup {"running"}
NoRun == [status |-> "absent", version |-> 0]

TektonFresh == [op |-> "none", step |-> "idle", phase |-> "ready", waiter |-> FALSE,
                seen |-> NoRun, repository |-> "none", final |-> FALSE,
                response |-> "none", answer |-> "none", timed_out |-> FALSE]

TektonInit ==
  /\ tektonPermits = TektonPermits /\ waiters = Waiters
  /\ tcall = [c \in TektonCalls |-> TektonFresh]
  /\ inflight = {} /\ tektonApplied = {}
  /\ run \in {NoRun, [status |-> "running", version |-> 1]}
  /\ catalog \in Repositories /\ offered = TRUE

External == <<tektonApplied, run, catalog, offered>>
-----------------------------------------------------------------------------
\* A call's permit and slot are dropped with the future that owns them.
Held(c) == IF tcall[c].phase = "sent" THEN 1 ELSE 0
Slot(c) == IF tcall[c].waiter THEN 1 ELSE 0

\* What is left of a call is its answer, and the precondition of a patch it sent.
Over(k) == [TektonFresh EXCEPT !.op = k.op, !.step = "done", !.answer = k.answer,
                    !.timed_out = k.timed_out,
                    !.seen = [status |-> IF k.answer = "run" THEN k.seen.status ELSE "absent",
                              version |-> IF k.step = "patch" /\ k.phase = "sent"
                                          THEN k.seen.version ELSE 0]]

FinishWithPermit(c, changed) ==
  /\ tcall' = [tcall EXCEPT ![c] = Over(changed)]
  /\ tektonPermits' = IF changed.answer = "timeout" THEN tektonPermits ELSE tektonPermits + Held(c)
  /\ waiters' = waiters + Slot(c)

TektonFinish(c, changed) ==
  /\ tcall' = [tcall EXCEPT ![c] = Over(changed)]
  /\ tektonPermits' = tektonPermits + Held(c)
  /\ waiters' = waiters + Slot(c)

Fail(c, error) == TektonFinish(c, [tcall[c] EXCEPT !.answer = error])

\* The request has ended and the call goes on with `changed`.
TektonProceed(c, changed) ==
  /\ tcall' = [tcall EXCEPT ![c] = [changed EXCEPT !.phase = "ready"]]
  /\ tektonPermits' = tektonPermits + Held(c)
  /\ UNCHANGED waiters

\* A tool is called with valid arguments; dispatch looks its repository up first,
\* the others their run.  A wait takes its slot before anything else.
TektonBegin(c) ==
  /\ tcall[c].step = "idle"
  /\ \E op \in Ops :
       IF op = "wait" /\ waiters = 0
       THEN TektonFinish(c, [tcall[c] EXCEPT !.op = op, !.answer = "capacity_exhausted"])
       ELSE /\ tcall' = [tcall EXCEPT ![c].op = op, ![c].waiter = op = "wait",
                            ![c].step = IF op = "dispatch" THEN "catalog" ELSE "run"]
            /\ waiters' = IF op = "wait" THEN waiters - 1 ELSE waiters
            /\ UNCHANGED tektonPermits
  /\ UNCHANGED <<inflight, External>>

\* Arguments that do not pass validation, or name another namespace.
RefuseInput(c) ==
  /\ tcall[c].step = "idle"
  /\ \E op \in Ops : TektonFinish(c, [tcall[c] EXCEPT !.op = op, !.answer = "invalid_arguments"])
  /\ UNCHANGED <<inflight, External>>
-----------------------------------------------------------------------------
ReadSteps == {"run", "catalog", "workflows"}
MutationSteps == {"post", "patch"}

\* The service token is read anew for each Kubernetes request.
TokenUnreadable(c) ==
  /\ tcall[c].step \in {"run", "catalog", "patch"} /\ tcall[c].phase = "ready"
  /\ Fail(c, "upstream_unavailable")
  /\ UNCHANGED <<inflight, External>>

\* http_bytes: no permit, no request.
TektonSend(c) ==
  /\ tcall[c].step \in ReadSteps \cup MutationSteps /\ tcall[c].phase = "ready"
  /\ IF tektonPermits = 0
     THEN Fail(c, "capacity_exhausted") /\ UNCHANGED inflight
     ELSE /\ tektonPermits' = tektonPermits - 1
          /\ tcall' = [tcall EXCEPT ![c].phase = "sent"]
          /\ inflight' = IF tcall[c].step \in MutationSteps THEN inflight \cup {c} ELSE inflight
          /\ UNCHANGED waiters
  /\ UNCHANGED External

ReadErrors == {"timeout", "unauthorized", "not_found", "query_rejected",
               "upstream_unavailable", "invalid_response"}

\* A read fails, and with it the call.
ReadFails(c) ==
  /\ tcall[c].step \in ReadSteps /\ tcall[c].phase = "sent"
  /\ \E e \in ReadErrors : Fail(c, e)
  /\ UNCHANGED <<inflight, External>>

\* owned_run, first half: the run by its name.
ReadRun(c) ==
  /\ tcall[c].step = "run" /\ tcall[c].phase = "sent"
  /\ IF run.status = "absent" THEN Fail(c, "not_found")
     ELSE TektonProceed(c, [tcall[c] EXCEPT !.step = "catalog", !.seen = run])
  /\ UNCHANGED <<inflight, External>>

ContinueUnflagged(c, r) ==
  LET k == [tcall[c] EXCEPT !.repository = r] IN
  IF k.op = "wait" /\ k.final THEN TektonFinish(c, [k EXCEPT !.answer = "run"])
  ELSE IF k.op = "cancel" THEN TektonProceed(c, [k EXCEPT !.step = "patch"])
  ELSE TektonProceed(c, [k EXCEPT !.step = IF k.op = "wait" THEN "sleep" ELSE "workflows"])

\* What a tool does once it owns the run it saw, in repository `r`.
Continue(c, r) ==
  LET k == [tcall[c] EXCEPT !.repository = r] IN
  CASE k.op = "get" -> TektonFinish(c, [k EXCEPT !.answer = "run"])
    [] k.op = "rerun" \/ k.op = "dispatch" -> TektonProceed(c, [k EXCEPT !.step = "workflows"])
    [] k.op = "cancel" ->
         IF k.seen.status # "running" THEN Fail(c, "mutation_rejected")
         ELSE TektonProceed(c, [k EXCEPT !.step = "patch"])
    [] k.op = "wait" ->
         IF k.final \/ k.seen.status \in Terminal
         THEN TektonFinish(c, [k EXCEPT !.answer = "run", !.timed_out = k.final])
         ELSE TektonProceed(c, [k EXCEPT !.step = "sleep"])

ContinueAnyRepository(c, r) ==
  IF tcall[c].repository \in {"none", r} THEN Continue(c, r)
  ELSE TektonFinish(c, [tcall[c] EXCEPT !.answer = "run", !.timed_out = tcall[c].final])

ReadCatalogOnce(c) ==
  /\ tcall[c].step = "catalog" /\ tcall[c].phase = "sent"
  /\ IF catalog = "none" THEN Fail(c, "not_found") ELSE ContinueAnyRepository(c, catalog)
  /\ UNCHANGED <<inflight, External>>

\* owned_run, second half: the catalog must know the run's repository; a wait that
\* has seen one before insists on that one (owned_run_matching).  A dispatch looks
\* for the repository it was asked for, whose custom resource's name is no substitute.
ReadCatalog(c) ==
  /\ tcall[c].step = "catalog" /\ tcall[c].phase = "sent"
  /\ IF catalog = "none" \/ tcall[c].repository \notin {"none", catalog}
     THEN \/ Fail(c, "not_found")
          \/ tcall[c].op = "dispatch" /\ Fail(c, "invalid_arguments")
     ELSE Continue(c, catalog)
  /\ UNCHANGED <<inflight, External>>

\* The definitions are read from Forgejo: the workflow must still be there and accept
\* "incoming"; a rerun also needs the run's workflow name and branch.
ReadWorkflows(c) ==
  /\ tcall[c].step = "workflows" /\ tcall[c].phase = "sent"
  /\ \/ offered /\ TektonProceed(c, [tcall[c] EXCEPT !.step = "post"])
     \/ ~offered /\ Fail(c, "mutation_rejected")
     \/ tcall[c].op = "rerun" /\ Fail(c, "mutation_rejected")
  /\ UNCHANGED <<inflight, External>>
-----------------------------------------------------------------------------
CancelPreconditionDropped(c) == run.status # "absent"

\* cancel_patch: the precondition is the version that was read.
CancelPrecondition(c) == run.status # "absent" /\ run.version = tcall[c].seen.version

\* External: a mutation is carried out, whether anyone still waits for it or not.
Carry(c) ==
  /\ c \in inflight /\ inflight' = inflight \ {c}
  /\ IF tcall[c].op = "cancel"
     THEN /\ CancelPrecondition(c)
          /\ run' = [run EXCEPT !.version = @ + 1]
     ELSE UNCHANGED run
  /\ tektonApplied' = tektonApplied \cup {c}
  /\ \E r \in {"2xx", "5xx"} :
       tcall' = IF tcall[c].phase = "sent" THEN [tcall EXCEPT ![c].response = r] ELSE tcall
  /\ UNCHANGED <<tektonPermits, waiters, catalog, offered>>

\* External: it is not, for a conflict, a refusal, a fault or because it got lost.
Decline(c) ==
  /\ c \in inflight /\ inflight' = inflight \ {c}
  /\ \E r \in {"4xx", "5xx"} :
       tcall' = IF tcall[c].phase = "sent" THEN [tcall EXCEPT ![c].response = r] ELSE tcall
  /\ UNCHANGED <<tektonPermits, waiters, External>>

Refusals == {"mutation_rejected", "unauthorized", "not_found"}

ErrorOfTrustingStatus(response) ==
  IF response = "2xx" THEN {"accepted", "mutation_outcome_unknown"}
  ELSE {"mutation_rejected"}

\* The status of a response decides; a body that cannot be read leaves it open.
ErrorOf(response) ==
  CASE response = "2xx" -> {"accepted", "mutation_outcome_unknown"}
    [] response = "4xx" -> Refusals
    [] response = "5xx" -> {"mutation_outcome_unknown"}

MutationAnswered(c) ==
  /\ tcall[c].step \in MutationSteps /\ tcall[c].response # "none"
  /\ \E e \in ErrorOf(tcall[c].response) : Fail(c, e)
  /\ UNCHANGED <<inflight, External>>

\* A mutation's request fails or times out; it may still be carried out.
MutationFails(c) ==
  /\ tcall[c].step \in MutationSteps /\ tcall[c].phase = "sent"
  /\ Fail(c, "mutation_outcome_unknown")
  /\ UNCHANGED <<inflight, External>>
-----------------------------------------------------------------------------
\* wait: two seconds pass, and the run is read again.
Poll(c) ==
  /\ tcall[c].step = "sleep"
  /\ TektonProceed(c, [tcall[c] EXCEPT !.step = "run", !.seen = NoRun])
  /\ UNCHANGED <<inflight, External>>

DeadlineOfFirstRead(c) ==
  /\ tcall[c].op = "wait" /\ tcall[c].repository = "none"
  /\ tcall[c].step \in {"run", "catalog"}
  /\ Fail(c, "timeout")
  /\ UNCHANGED <<inflight, External>>

\* wait: the deadline passes.  The first read fails with it; later, one last read is
\* made under the timeout of a request.
TektonDeadline(c) ==
  /\ tcall[c].op = "wait" /\ ~tcall[c].final
  /\ tcall[c].step \in {"run", "catalog", "sleep"}
  /\ IF tcall[c].repository = "none" THEN Fail(c, "timeout")
     ELSE TektonProceed(c, [tcall[c] EXCEPT !.step = "run", !.final = TRUE, !.seen = NoRun])
  /\ UNCHANGED <<inflight, External>>

\* The last read as a whole has that timeout, not only its requests.
FinalReadTimesOut(c) ==
  /\ tcall[c].final /\ tcall[c].step \in {"run", "catalog"}
  /\ Fail(c, "timeout")
  /\ UNCHANGED <<inflight, External>>

\* The MCP request is cancelled: the future is dropped wherever it is.
TektonCancelled(c) ==
  /\ tcall[c].step \notin {"idle", "done"}
  /\ Fail(c, IF tcall[c].op \in Mutations THEN "mutation_outcome_unknown" ELSE "request_cancelled")
  /\ UNCHANGED <<inflight, External>>
-----------------------------------------------------------------------------
\* External: the controller updates, finishes, deletes or replaces the run.  Versions
\* are never used twice.
RunChanges ==
  /\ run.version < MaxVersion
  /\ \/ /\ run.status \in {"running", "absent"}
        /\ \E s \in TektonStatuses : run' = [status |-> s, version |-> run.version + 1]
     \/ /\ run.status # "absent"
        /\ \E s \in {"running", "absent"} : run' = [status |-> s, version |-> run.version + 1]
  /\ UNCHANGED <<tektonPermits, waiters, tcall, inflight, tektonApplied, catalog, offered>>

\* External: the custom resource is removed or points to another repository.
CatalogChanges ==
  /\ catalog' \in (Repositories \cup {"none"}) \ {catalog}
  /\ \E c \in TektonCalls : tcall[c].step \notin {"idle", "done"}
  /\ UNCHANGED <<tektonPermits, waiters, tcall, inflight, tektonApplied, run, offered>>

WorkflowChanges ==
  /\ offered /\ offered' = FALSE
  /\ UNCHANGED <<tektonPermits, waiters, tcall, inflight, tektonApplied, run, catalog>>

Ends(c) ==
  \/ TokenUnreadable(c) \/ TektonSend(c) \/ ReadFails(c) \/ ReadRun(c) \/ ReadCatalog(c)
  \/ ReadWorkflows(c) \/ MutationAnswered(c) \/ MutationFails(c) \/ Poll(c)
  \/ FinalReadTimesOut(c)

TektonNext ==
  \/ \E c \in TektonCalls :
       \/ TektonBegin(c) \/ RefuseInput(c) \/ Ends(c) \/ TektonDeadline(c) \/ TektonCancelled(c)
       \/ Carry(c) \/ Decline(c)
  \/ RunChanges \/ CatalogChanges \/ WorkflowChanges

\* The executor polls every call, requests have a timeout, and time passes.
TektonFairness == \A c \in TektonCalls : WF_tektonVars(Ends(c)) /\ WF_tektonVars(TektonDeadline(c))

TektonSpec == TektonInit /\ [][TektonNext]_tektonVars /\ TektonFairness
-----------------------------------------------------------------------------
\* Permits and slots are where they should be after any mix of answers, timeouts,
\* deadlines and cancellations: one permit per request on its way, one slot per
\* wait, and none with a call that sleeps or is over (client.rs:340-384, 946-1008).
TektonResourcesAccounted ==
  /\ tektonPermits + Cardinality({c \in TektonCalls : tcall[c].phase = "sent"}) = TektonPermits
  /\ waiters + Cardinality({c \in TektonCalls : tcall[c].waiter}) = Waiters
  /\ \A c \in TektonCalls :
       /\ tcall[c].step \in {"sleep", "done"} => tcall[c].phase = "ready"
       /\ tcall[c].waiter = (tcall[c].op = "wait" /\ tcall[c].step # "done")

\* An error other than mutation_outcome_unknown means that the mutation was not, and
\* will not be, carried out, though its request may outlive the call
\* (client.rs:946-1008, mcp.rs:780-823).
TektonDefiniteErrorNotApplied ==
  \A c \in TektonCalls :
    tcall[c].step = "done" /\ tcall[c].answer \notin {"accepted", "mutation_outcome_unknown"}
       => c \notin tektonApplied \cup inflight

\* A cancellation reaches only the run that was read, in the very version that was
\* found running: never one that has finished or was replaced (client.rs:538-560).
CancelHitsTheRunSeen ==
  [][\A c \in TektonCalls : c \in tektonApplied' \ tektonApplied /\ tcall[c].op = "cancel" =>
       /\ run.status = "running"
       /\ run.version = tcall[c].seen.version]_tektonVars

\* A wait that does not say it timed out answers with a finished run, though its
\* deadline may pass in the middle of a poll (client.rs:340-384).
WaitAnswers ==
  \A c \in TektonCalls : tcall[c].op = "wait" /\ tcall[c].answer = "run" =>
    tcall[c].timed_out \/ tcall[c].seen.status \in Terminal

\* A wait never moves to another repository: once its first read has found one, it
\* answers for it or not at all (owned_run_matching).
WaitKeepsRepository ==
  [][\A c \in TektonCalls :
       tcall[c].op = "wait" /\ tcall[c].repository # "none" /\ tcall'[c].answer = "run"
          /\ tcall[c].step # "done"
       => catalog = tcall[c].repository]_tektonVars

\* Every call ends, a wait by its deadline however often it is polled.
TektonCallEnds == \A c \in TektonCalls : tcall[c].step # "idle" ~> tcall[c].step = "done"

\* What a call does, it does with what it read: a cancellation with the version, a wait with
\* the repository (client.rs:340-384, 538-560).
ActsOnWhatWasRead == CancelHitsTheRunSeen /\ WaitKeepsRepository
=============================================================================
