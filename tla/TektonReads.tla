----------------------------- MODULE TektonReads -----------------------------
(***************************************************************************)
(* The listing and reading tools of the Tekton client                      *)
(* (src/integrations/tekton/client.rs): repositories, workflows, the runs  *)
(* of a repository, the tasks and the status of a run, the logs of a task. *)
(* Each is a sequence of requests between which the cluster changes; how a *)
(* request gets its permit and how it fails is TektonClient.               *)
(*                                                                         *)
(* The Kubernetes API server is external.  It serves a list from the       *)
(* snapshot of its first page, no page above the limit it was given, and   *)
(* may repeat a continuation token.                                        *)
(***************************************************************************)
EXTENDS Integers, Sequences, SequencesExt, FiniteSets, FiniteSetsExt

CONSTANTS
  Items,            \* PipelineRuns, TaskRuns and Repositories that may exist
  Queries,          \* filters a caller of run.list may give
  Files,            \* workflow files a repository may hold
  Budgets,          \* values a caller may give for max_bytes
  TektonMaxUid,     \* bound on the incarnations of the run, the task and the pod
  TektonMaxLimit,   \* 100, the largest limit of a list
  TektonPageSize,   \* 100
  TektonMaxPages,   \* MAX_KUBE_LIST_PAGES = 10
  MaxItems,         \* MAX_KUBE_LIST_ITEMS = 500
  MaxFailedTasks,   \* MAX_FAILED_TASKS = 20
  MaxRepositories,  \* MAX_WORKFLOW_REPOSITORIES = 50
  MaxFiles,         \* MAX_WORKFLOW_FILES = 32
  MaxFileBytes,     \* MAX_WORKFLOW_FILE_BYTES
  MaxTotalBytes,    \* MAX_WORKFLOW_TOTAL_BYTES
  MaxDocuments,     \* MAX_WORKFLOW_DOCUMENTS = 32
  MaxSteps,         \* MAX_LOG_STEPS = 8
  TailLines,        \* the caller's tail_lines
  MaxLog            \* bound on the steps of a task and on the lines of each

ASSUME LimitsAssumption ==
  /\ TektonPageSize \in Nat \ {0} /\ TektonMaxPages \in Nat \ {0} /\ MaxItems \in Nat \ {0}
  /\ TailLines \in Nat \ {0} /\ Budgets \subseteq Nat \ {0}
  /\ MaxFailedTasks \in Nat /\ MaxRepositories \in Nat /\ MaxSteps \in Nat

\* A name in a namespace belongs to one object of its kind.
ASSUME ItemsAssumption ==
  /\ IsFiniteSet(Items)
  /\ \A i \in Items : i.at \in Nat /\ i.id \in Nat /\ i.repository \in Nat
  /\ \A i, j \in Items : i.kind = j.kind /\ i.id = j.id => i = j

ASSUME FilesAssumption == \A f \in Files : f.bytes \in Nat /\ f.documents \in Nat

VARIABLES
  run,      \* external: uid of the PipelineRun of that name, 0 when there is none
  task,     \* external: the TaskRun of that name: its uid and its owner's
  tpod,     \* external: the pod of that name: its owner's uid
  call      \* the call in progress

tektonVars == <<run, task, tpod, call>>

NoCall == [op |-> "none", step |-> "idle", answer |-> "none", limit |-> 0, query |-> << >>,
           uid |-> 0, task |-> 0, snapshot |-> {}, items |-> {}, pages |-> 0, token |-> 0,
           seen |-> {}, source_truncated |-> FALSE, result_truncated |-> FALSE,
           returned |-> {}, repositories |-> {}, read |-> {}, failures |-> {},
           workflows |-> {}, documents |-> 0,
           budget |-> 0, remaining |-> 0, logs |-> << >>, texts |-> << >>, owners |-> {},
           steps_omitted |-> FALSE]

TektonInit ==
  /\ run = 1 /\ task = [uid |-> 1, owner |-> 1] /\ tpod = [owner |-> 1]
  /\ call = NoCall

Set(changed) == call' = changed /\ UNCHANGED <<run, task, tpod>>
Ended(a) == [call EXCEPT !.step = "done", !.answer = a]

ReadErrors == {"capacity_exhausted", "timeout", "unauthorized", "not_found",
               "query_rejected", "upstream_unavailable", "invalid_response",
               "request_cancelled"}

\* Any request fails, or the call is cancelled; workflow.list also has a timeout of
\* its own.
TektonRequestFails ==
  /\ call.step \notin {"idle", "done", "repository"}
  /\ \E e \in ReadErrors : Set(Ended(e))

WorkflowsTimeOut == call.step = "repository" /\ Set(Ended("timeout"))
-----------------------------------------------------------------------------
\* The arguments: a limit and an identifier, cut at its slashes.
Ops == {"repositories", "workflows", "runs", "tasks", "status", "logs"}
TektonInputs == [op : Ops, limit : 0..(TektonMaxLimit + 1),
                 id : UNION {[1..n -> {"ns", "Name", ""}] : n \in 1..3}]

TektonBoundedLimit(n) == n > 0 /\ n <= TektonMaxLimit
ValidRepositoryKey(id) == Len(id) = 2 /\ id[1] # "" /\ id[2] # ""
ValidDns(part) == part = "ns"
\* Also namespaced_id, which insists on the namespace of the configuration.
ValidNamespacedId(id) == Len(id) = 2 /\ ValidDns(id[1]) /\ ValidDns(id[2])

TektonValid(i) ==
  /\ TektonBoundedLimit(i.limit)
  /\ i.op \in {"tasks", "status", "logs"} => ValidNamespacedId(i.id)
  /\ i.op \in {"runs", "workflows"} => ValidRepositoryKey(i.id)

TektonRefuseInput ==
  /\ call.step = "idle"
  /\ \E i \in TektonInputs : ~TektonValid(i)
  /\ Set(Ended("invalid_arguments"))

\* The filter of run.list, or the repository workflow.list is asked for, if any.
Filters(op) ==
  CASE op = "runs" -> Queries
    [] op = "workflows" -> {<< >>} \cup {<<i.repository>> : i \in Items}
    [] OTHER -> {<< >>}

Begin ==
  /\ call.step = "idle"
  /\ \E i \in TektonInputs : \E q \in Filters(i.op) :
       /\ TektonValid(i)
       /\ Set([call EXCEPT !.op = i.op, !.query = q,
                 !.limit = IF i.op = "status" THEN MaxFailedTasks ELSE i.limit,
                 !.step = IF i.op \in {"tasks", "status", "logs"} THEN "run" ELSE "list"])

\* owned_run: the run by its name, then the catalog that must know its repository.
ReadRun ==
  /\ call.step = "run"
  /\ \/ Set(Ended("not_found"))
     \/ /\ run # 0
        /\ Set([call EXCEPT !.uid = run, !.step = IF call.op = "logs" THEN "task" ELSE "list"])
-----------------------------------------------------------------------------
\* parse_repository: only repositories of the configured origin count.
ParseRepository(items) == {r \in items : r.origin = "ours"}

NeverAmbiguous(rs) == FALSE

\* The canonical id of the repositories must be unique.
Ambiguous(rs) == \E r, s \in rs : r # s /\ r.repository = s.repository

\* The condition "Succeeded" of a run or task, with a reason that names a cancellation
\* or another; without one it is running.
RunStatus(item) ==
  CASE item.condition = "True" -> "succeeded"
    [] item.condition = "False, cancelled" -> "cancelled"
    [] item.condition = "False" -> "failed"
    [] OTHER -> "running"

\* normalize_run: a run without the repository's label is left out.
NormalizeRun(items) == {i \in items : i.origin = "ours"}

BranchMatches(actual, expected) ==
  actual = expected \/ {actual, expected} = {"main", "refs/heads/main"}

Passes(item, q) ==
  /\ q.workflow \in {"any", item.workflow}
  /\ q.branch = "any" \/ BranchMatches(item.branch, q.branch)
  /\ q.revision \in {"any", item.revision}
  /\ q.status \in {"any", RunStatus(item)}

OwnedByName(item) == item.owner # 0

\* owned_by compares the uid of the owner; the selector knows only its name.
OwnedBy(item) == item.owner = call.uid

Matching(items) ==
  CASE call.op = "runs" -> {i \in NormalizeRun(items) : Passes(i, call.query)}
    [] call.op = "tasks" -> {i \in items : OwnedBy(i) /\ i.origin = "ours"}
    [] call.op = "status" ->
         {i \in items : OwnedBy(i) /\ i.origin = "ours" /\ RunStatus(i) = "failed"}

\* sort_newest: by creation time, then by id.
Newer(a, b) == a.at > b.at \/ (a.at = b.at /\ a.id < b.id)

FirstUnsorted(items, n) ==
  {i \in items : Cardinality({j \in items : j.id < i.id}) < n}

First(items, n) == {i \in items : Cardinality({j \in items : Newer(j, i)}) < n}

FirstById(items, n) ==
  {i \in items : Cardinality({j \in items : j.repository < i.repository}) < n}

\* What a tool makes of a list.
TektonListed(k) ==
  IF k.op \in {"repositories", "workflows"}
  THEN LET rs == ParseRepository(k.items) IN
       IF k.source_truncated \/ Ambiguous(rs)
       THEN [k EXCEPT !.step = "done", !.answer = "invalid_response"]
       ELSE IF k.op = "workflows"
       THEN LET asked == {r \in rs : k.query \in {<< >>, <<r.repository>>}} IN
            [k EXCEPT !.step = IF k.query # << >> /\ asked = {} THEN "done" ELSE "repository",
                      !.answer = IF k.query # << >> /\ asked = {} THEN "not_found" ELSE @,
                      !.repositories = FirstById(asked, MaxRepositories),
                      !.source_truncated = Cardinality(asked) > MaxRepositories]
       ELSE [k EXCEPT !.step = "done", !.answer = "list", !.returned = FirstById(rs, k.limit),
                      !.result_truncated = Cardinality(rs) > k.limit]
  ELSE LET m == Matching(k.items) IN
       [k EXCEPT !.step = "done", !.answer = "list", !.returned = First(m, k.limit),
                 !.result_truncated = Cardinality(m) > k.limit]

TektonApplyPageTrustingServer(k, items, token) ==
  LET read == [k EXCEPT !.pages = @ + 1, !.items = @ \cup items, !.token = token,
                        !.seen = @ \cup {token}]
  IN IF token = 0 THEN TektonListed(read)
     ELSE IF read.pages >= TektonMaxPages THEN TektonListed([read EXCEPT !.source_truncated = TRUE])
     ELSE read

\* kube_list, the rest of the loop's body with a page and a token, 0 for none.
TektonApplyPage(k, items, token) ==
  LET read == [k EXCEPT !.pages = @ + 1, !.items = @ \cup items, !.token = token,
                        !.seen = @ \cup {token}]
  IN IF token = 0 THEN TektonListed(read)
     ELSE IF token \in k.seen THEN [read EXCEPT !.step = "done", !.answer = "invalid_response"]
     ELSE IF read.pages >= TektonMaxPages THEN TektonListed([read EXCEPT !.source_truncated = TRUE])
     ELSE read

\* The label selector reaches the runs of a repository, or the tasks of a run's name.
Selected(snapshot) ==
  CASE call.op = "runs" -> {i \in snapshot : i.kind = "run"}
    [] call.op \in {"tasks", "status"} -> {i \in snapshot : i.kind = "task"}
    [] OTHER -> {i \in snapshot : i.kind = "repository"}

TektonReadPage ==
  /\ call.step = "list"
  /\ \E snapshot \in IF call.pages = 0 THEN SUBSET Selected(Items) ELSE {call.snapshot} :
     LET rest == snapshot \ call.items
         remaining == MaxItems - Cardinality(call.items)
     IN IF remaining = 0
        THEN Set(TektonListed([call EXCEPT !.source_truncated = call.token # 0]))
        ELSE \E items \in SUBSET rest, token \in 0..(call.pages + 1) :
               /\ Cardinality(items) <= Min({remaining, TektonPageSize})
               /\ token = 0 => items = rest
               /\ Set(TektonApplyPage([call EXCEPT !.snapshot = snapshot], items, token))
-----------------------------------------------------------------------------
\* repository_workflows: a repository with too much in it is a failure as a whole.
FilesAccepted(files) ==
  /\ Len(files) <= MaxFiles
  /\ \A i \in 1..Len(files) : files[i].bytes <= MaxFileBytes /\ files[i].documents <= MaxDocuments
  /\ SumFunction([i \in 1..Len(files) |-> files[i].bytes]) <= MaxTotalBytes

WorkflowIdByPath(repository, path, index) == <<repository, path>>

\* parse_workflows: the digest that names a workflow covers all that tells two apart.
WorkflowId(repository, path, index) == <<repository, path, index>>

ParseWorkflows(repository, files) ==
  UNION {{WorkflowId(repository, i, d) : d \in 1..files[i].documents} : i \in 1..Len(files)}

NextRepository(rs) == CHOOSE r \in rs : \A s \in rs : r.repository <= s.repository

\* One repository of workflow.list is read; its failure is recorded, not returned.
ReadRepository ==
  /\ call.step = "repository" /\ call.repositories # {}
  /\ LET r == NextRepository(call.repositories)
         rest == [call EXCEPT !.repositories = @ \ {r}]
     IN \/ \E n \in 0..(MaxFiles + 1) : \E files \in [1..n -> Files] :
             /\ FilesAccepted(files)
             /\ Set([rest EXCEPT !.read = @ \cup {r},
                      !.workflows = @ \cup ParseWorkflows(r.repository, files),
                      !.documents = @ + SumFunction([i \in 1..n |-> files[i].documents])])
        \/ Set([rest EXCEPT !.failures = @ \cup {r}])

AnswerWorkflows ==
  /\ call.step = "repository" /\ call.repositories = {}
  /\ Set([Ended("workflows") EXCEPT !.result_truncated = Cardinality(call.workflows) > call.limit])
-----------------------------------------------------------------------------
\* task.logs: the task by its name, which must belong to the run that was read.
ReadTask ==
  /\ call.step = "task"
  /\ Set(IF task.uid = 0 \/ task.owner # call.uid THEN Ended("not_found")
         ELSE [call EXCEPT !.task = task.uid, !.step = "pod"])

\* verify_task_pod, then the steps are chosen: at most MaxSteps of them.
TektonReadPod ==
  /\ call.step = "pod"
  /\ IF tpod.owner # call.task THEN Set(Ended("not_found"))
     ELSE \/ Set(Ended("not_found"))
          \/ \E n \in 1..MaxLog : \E logs \in [1..n -> 0..MaxLog], b \in Budgets :
               Set([call EXCEPT !.step = "log", !.logs = SubSeq(logs, 1, Min({n, MaxSteps})),
                      !.steps_omitted = n > MaxSteps, !.budget = b, !.remaining = b])

\* The log of one step, lines of a byte each: the kubelet takes the tail and then
\* the bytes asked for; redaction makes the text longer or shorter; what is longer
\* than asked for is cut.  A full tail or a full budget counts as truncated.
StepTextUncut(requested, lines, growth) ==
  LET raw == Min({lines, TailLines, requested})
  IN [size |-> raw + growth, lines |-> raw,
      truncated |-> raw >= TailLines \/ raw >= requested]

StepText(requested, lines, growth) ==
  LET raw == Min({lines, TailLines, requested})
      size == raw + growth
  IN [size |-> Min({size, requested}), lines |-> raw - (IF size > requested THEN 1 ELSE 0),
      truncated |-> raw >= TailLines \/ raw >= requested \/ size > requested]

\* The log is read by the pod's name.
TektonReadLog ==
  /\ call.step = "log" /\ Len(call.texts) < Len(call.logs) /\ call.remaining > 0
  /\ \E growth \in {-1, 0, 1} :
       LET lines == call.logs[Len(call.texts) + 1]
           text == StepText(call.remaining, lines, growth)
       IN /\ growth # 0 => Min({lines, TailLines}) > 0
          /\ Set([call EXCEPT !.texts = Append(@, text), !.remaining = @ - text.size,
                              !.owners = @ \cup {tpod.owner}])

AnswerLogs ==
  /\ call.step = "log" /\ (Len(call.texts) = Len(call.logs) \/ call.remaining = 0)
  /\ Set([Ended("logs") EXCEPT
           !.result_truncated = \/ call.steps_omitted \/ call.remaining = 0
                                \/ \E i \in 1..Len(call.texts) : call.texts[i].truncated])
-----------------------------------------------------------------------------
\* External: the run, the task or the pod is deleted, or replaced under its name.
Replace ==
  /\ call.op \in {"tasks", "status", "logs"} /\ call.step # "done"
  /\ \/ run < TektonMaxUid /\ run' = run + 1 /\ UNCHANGED <<task, tpod>>
     \/ /\ task.uid < TektonMaxUid
        /\ \E o \in {0, run} : task' = [uid |-> task.uid + 1, owner |-> o]
        /\ UNCHANGED <<run, tpod>>
     \/ tpod' \in {[owner |-> u] : u \in {0, task.uid}} /\ UNCHANGED <<run, task>>
  /\ UNCHANGED call

TektonClientStep ==
  \/ TektonRefuseInput \/ Begin \/ TektonRequestFails \/ WorkflowsTimeOut \/ ReadRun
  \/ TektonReadPage
  \/ ReadRepository \/ AnswerWorkflows \/ ReadTask \/ TektonReadPod \/ TektonReadLog \/ AnswerLogs

TektonNext == TektonClientStep \/ Replace

TektonSpec == TektonInit /\ [][TektonNext]_tektonVars
-----------------------------------------------------------------------------
\* The newest objects win: what a list leaves out is older than all it returns, or the
\* list says that it did not see everything; and it says so whenever it leaves out
\* anything that was asked for (client.rs:245-289, 386-407, 826-868).
NewestAreListed ==
  call.answer = "list" /\ call.op \in {"runs", "tasks", "status"} =>
    LET wanted == Matching(call.snapshot) IN
    /\ call.returned \subseteq wanted
    /\ ~call.source_truncated => call.items = call.snapshot
    /\ \A o \in wanted \ call.returned :
         /\ call.source_truncated \/ call.result_truncated
         /\ o \in call.items => \A r \in call.returned : Newer(r, o)

\* Tasks are those of the run that was read, not of another one of the same name,
\* which is all the list's selector can tell (client.rs:323-324, 395-396).
TasksOfTheRunRead ==
  call.answer = "list" /\ call.op \in {"tasks", "status"} =>
    \A t \in call.returned : t.owner = call.uid

\* Whatever the server hands out, a list ends after MaxPages pages and holds at most
\* MaxItems objects; a repeated token is an error (client.rs:826-868).
TektonListBounded ==
  /\ call.pages <= TektonMaxPages /\ Cardinality(call.items) <= MaxItems
  /\ call.answer = "list" => call.pages = Cardinality(call.seen)

\* A repository that is listed stands for one custom resource: an incomplete or
\* ambiguous catalog is an error for everyone (client.rs:562-584).
CatalogIsWhole ==
  call.op \in {"repositories", "workflows"} /\ call.answer \in {"list", "workflows"} =>
    /\ call.items = call.snapshot
    /\ \A r, s \in ParseRepository(call.snapshot) : r.repository = s.repository => r = s

\* workflow.list accounts for every repository asked for: read, reported as failed,
\* or cut with the truncation flag; and every definition found has an identity of its
\* own (client.rs:211-243, 600-677, 1077-1145).
WorkflowsAccounted ==
  call.answer = "workflows" =>
    /\ \/ call.source_truncated
       \/ call.read \cup call.failures
            = {r \in ParseRepository(call.snapshot) : call.query \in {<< >>, <<r.repository>>}}
    /\ Cardinality(call.workflows) = call.documents

\* The texts of task.logs stay within max_bytes, though redaction can make them
\* longer, and a line that is missing is admitted (client.rs:444-487).
LogsBounded ==
  call.answer = "logs" =>
    /\ SumFunction([i \in 1..Len(call.texts) |-> call.texts[i].size]) <= call.budget
    /\ ~call.result_truncated =>
         /\ Len(call.texts) = Len(call.logs)
         /\ \A i \in 1..Len(call.logs) : call.texts[i].lines = call.logs[i]

\* What docs/tekton/spec/runs-tasks-logs.md says of task.logs: it returns only what
\* belongs to the task that was asked for.
LogsOfTheTask == call.answer = "logs" => call.owners \subseteq {call.task}
=============================================================================
