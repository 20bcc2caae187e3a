# A TLA+ verification of homelab-mcp

homelab-mcp is an MCP server in Rust that gives an agent bounded access to a
homelab: deploys over SSH, a machine inventory in PostgreSQL, Ceph Dashboards,
Kubernetes, Tekton and Grafana. This directory models the parts of it that keep
state across awaits, tasks, requests and processes, and the loops that decide
what of an answer is kept. TLC checks the models on small instances. TLAPS
proves for every instance each safety property the runs check: of what runs
concurrently (the deploy runner, its contract and the deploy tool above it, the
machine inventory, the token cache, the four clients, the signing keys, the
server's lifecycle), of what sequence of requests a call makes, and of what is
kept of an answer. Liveness is checked by TLC alone.

Paths below are relative to the root of the repository. In `PROJECT.json` they
have the prefix `src/`.

## Inventory of the system

| Part | State it keeps | Operations | What is hard |
| --- | --- | --- | --- |
| Deploy runner (`src/integrations/deploys`) | one-permit semaphore, a detached worker task, two oneshot channels, a run directory with a private key, a child process group, two drain tasks | `run_cancelled` | the caller may be cancelled or dropped at any await, the worker goes on; unbiased and biased selects; timeouts against exits; processes that outlive their parent |
| Machine inventory (`src/inventory.rs`, the machine tools of `src/mcp.rs`) | the table `homelab.machines` | create, update, delete, host-key.clear, host-key.replace, list, get | a cancelled request does not recall its SQL statement; a broken connection hides whether a statement ran |
| Deploy tool (`deploy_run` in `src/mcp.rs`) | a copy of one row | reads the machine, calls the runner | the copy is stale as soon as it is read |
| Ceph client (`src/integrations/ceph`) | cached token behind a mutex held across a login, four permits, a progress flag for each mutation | queries, mark, reweight, scrub, destroy, purge | reauthentication of several calls at once, deadlines that drop a request the Dashboard may still apply |
| Kubernetes client (`src/integrations/kubernetes`) | two permits, detached kubectl workers, a job-name sequence | list, get, capabilities, logs, scale, restart, trigger, ... | as the deploy runner, with paging and identity checks between requests, job names that must not collide, limits in bytes |
| Tekton client (`src/integrations/tekton`) | four permits, four waiter slots | list, wait, logs, dispatch, rerun, cancel | long waits, a run that changes between read and patch, uncertain dispatches |
| Grafana client (`src/integrations/grafana`) | query and render permits, metrics and span guards | queries, renders, create silence | permits across awaits, guards that settle on every path, one mutation with an uncertain outcome, limits and overflow in what is asked and answered |
| OAuth state (`src/oauth.rs`) | signing keys and OAuth rows in PostgreSQL | initialize, readiness, cleanup | several replicas initialize at once; an advisory lock on a pooled connection |
| Lifecycle (`src/main.rs`, `src/app.rs`, `src/services.rs`) | cleanup task, request metrics | start, serve, shut down | shutdown against the cleanup loop and requests under way |
| MCP interface (`src/mcp.rs`, `src/mcp/`) | progress heartbeats | argument and result translation | heartbeat against the end of a request |
| Operator helpers (`deploys/helpers`, `deploys/lib`) | a token cache file | login, lookup, revoke, sign | two helpers share the file without a lock |
| Configuration, observability, `infra/` | none that the service's behaviour depends on | | |

The tools call the components; the deploy tool calls the inventory and then the
runner; every component is called by requests that run concurrently and that
the client may cancel at any time. `PROJECT.json` lists the hazards of each
part with the line at which they bite.

## Modules

| Module | Models |
| --- | --- |
| `DeployRunner` | `DeployRunner::run_cancelled`, its worker task and the processes it starts |
| `DeployContract` | the abstract promise of the runner (`docs/deploys/spec/deploys.md`) |
| `DeployRunnerProofs` | the inductive invariant of `DeployRunner`, its safety properties, and that it implements `DeployContract` |
| `MachineInventory` | `MachineRepository` and the mutating machine tools |
| `HostKeys` | the inventory's check of a host key and the runner's, byte by byte |
| `DeployService` | `deploy_run`: the runner and the inventory side by side |
| `DeployServiceProofs` | that the two checks of a host key agree, what `deploy_run` hands to the runner, and that the runner in it is the runner |
| `CephClient` | tokens, permits, deadlines and cancellation of Ceph calls |
| `CephOperations` | one call of a Ceph tool: arguments, cluster, the requests it is made of |
| `CephResults` | what the Ceph normalisers keep, refuse and mark as truncated |
| `KubectlRunner` | the kubectl runner: permits, detached workers, streams, deadline |
| `KubernetesKinds` | the resource kinds and where they are served |
| `KubernetesReads` | get, list, capabilities and pod logs as sequences of requests |
| `KubernetesExec` | validation, arguments and job names of the mutating tools |
| `KubernetesResults` | event messages, container statuses, pod metrics |
| `TektonClient` | run.get, run.wait, dispatch, rerun, cancel over permits and waiter slots |
| `TektonReads` | the listing and reading Tekton tools over paged, changing lists |
| `GrafanaClient` | permits, timeouts, outcome, metrics and spans of Grafana calls |
| `GrafanaResults`, `GrafanaDashboard`, `GrafanaInputs` | what is kept of an answer, the flattening of panels, ranges and steps |
| `SigningKeys` | servers that start together and agree on a signing key |
| `ServiceLifecycle` | startup, cleanup loop, request guards, progress reporter, shutdown |
| `ServerProofs` | the invariants of `SigningKeys` and `ServiceLifecycle` |
| `TokenCache` | overlapping runs of the operator's SSH helper on one token file |
| `StoresProofs` | the invariants of `MachineInventory` and `TokenCache` |
| `ClientsProofs` | the invariants of the four clients, and `MCClients`, their composition |
| `RequestsProofs` | the invariants of `CephOperations`, `KubernetesReads`, `TektonReads`, and `MCRequests`, their composition |
| `ValuesProofs` | the invariants of `KubernetesExec`, `GrafanaInputs`, the `...Results` modules and `GrafanaDashboard`, and `MCValues`, their composition |
| `Ascending` | the elements of a finite set of numbers in their order (`InOrder`), with which the lists are filtered |
| `DataLemmas` | induction over numbers and finite sets; sums; `InOrder` |
| `MC...` | instances for TLC: `MCDeployRunner`, `MCDeployService`, `MCStores`, `MCClients`, `MCLive`, `MCRequests`, `MCValues`, `MCServer` |

The clients of one integration are split by question: how calls compete and end
(`CephClient`, `KubectlRunner`, `TektonClient`, `GrafanaClient`), what sequence
of requests an operation is and what changes between them (`CephOperations`,
`KubernetesReads`, `TektonReads`), and what is made of one answer (the
`...Results` modules). A module of the second kind takes from the first only
the errors with which a request may fail.

Components that share no state are checked together where the question is the
same. Such an MC module extends several component modules and has a variable
`part`: a behaviour is one of the component `part` names, while the variables of
the others keep an initial value. The reachable states are those of the
components side by side, not their product, and each property speaks of its own
component as it would alone. Names that two modules of a group would share carry
the component's name (`CephInit`, `TektonNext`, `kubectlVars`).

### DeployRunner

One action is the code between two awaits. A call is one request; it names its
worker too. `permits` is the semaphore; `caller`, `answer` follow the future of
`run_cancelled`; `stage`, `ret` the worker; `cancel` the oneshot cancel channel
as the worker sees it ("open", "sent", or "closed" because the sender was
dropped); `runDir` the run directory; `leader`, `exit` the current child
(ssh-keygen, then uv) from the kernel's side; `status` what `run_uv` knows of
it; `group` the rest of uv's process group, with or without the pipes; `drain`
the two drain tasks; `expired` the timer. `launched` is a history variable.

The actions follow the source from top to bottom: `RejectBusy`, `Acquire`,
`RejectRequest`, `SpawnWorker`, `Receive`, `CancelRequest` and `DropCaller` for
`run_cancelled` (`DropCaller` is the future dropped by its owner);
`RejectStart`, `StartKeygen`, `KeygenFails`, `KeygenSucceeds`, `KeygenStopped`,
`SignFails`, `StartUv` for `worker` and `run_keygen`; `UvStopped`, `UvExited`,
`UvWaitFails`, `UvDrained`, `UvOverflow` for the loop of `run_uv`; `Terminated`
for the second half of `terminate_group`; `SendResult` and `DropPermit` for the
end of the task; `Shutdown` for the drop of the runtime. The select of `run_uv`
is biased, and `Polled`, `ExitReady`, `DrainPolled` encode its order; the
selects of `run_keygen` and around `sign` are not, and there any ready branch
may be taken. `ChildExits` and `GroupChanges` are external.

Abstracted: diagnostics, file contents, the text of the output (a successful uv
leads to "ok" or "invalid_output"), which of several local failures led to
`execution_rejected`. Not modelled: a panic of the worker task, and a SIGKILL
of the server.

### MachineInventory and DeployService

A mutation is one SQL statement. `Submit` validates and sends it, `Execute` is
PostgreSQL, `Reply` brings the result back. `Cancel` and `DatabaseFails` end
the request and leave the statement behind as an "orphan" that `Execute` may
still run, or that is `Lost`. Rows keep name, host and pin; port and user are
constants of the schema. `MachineInventory` and `DeployRunner` each have a set
of the hosts and keys that pass their own check.

A key is checked twice, by separate code: `validate_host_public_key` before it
is stored, which reads two length-prefixed strings one after the other, and
`validate_host_pin` before a deploy writes it to `known_hosts`, which compares
bytes at fixed places. `HostKeys` has both as they are, over a text as
`split(' ')` makes it: its fields, what each of them is (the algorithm, base64
of which bytes, empty, other) and its length. That a text's fields put together
have that length is left out; the two checks use it alike.

`DeployService` instantiates the runner and the inventory over the same hosts
and pins. `Text` says which text a pin is; the inventory gets the pins whose
text passes the first check (`StorablePins`), the runner those that pass the
second (`AcceptedPins`). `Request`, `Lookup`, `LookupEnds` and `Dispatch` are `deploy_run`;
`RunnerStep` and `InventoryStep` interleave the components. `seen` is a history
variable: the host and pin pairs the machine had while the request was open.
The table starts with any rows earlier operations can have left.

### CephClient

A call has a kind and a current request, its `leg`. `StartLogin` takes a permit
under the mutex (`lock`); `CephSend` takes a permit, sets the progress flag and
puts the request on the `wire`; `Unauthorized` and `Invalidate` are the
reauthentication of a query, `CheckSafe` the safe-to-destroy answer of a
removal, `Complete` and `SendFails` the other ends of a request. `CephDeadline`
and `CephCancel` drop the future at one of its awaits. The Dashboard (`Handle`,
`CephRefuse`, `CephExpire`) is external: it may apply a request long after the
client gave up; a 4xx answer means it did nothing, a 5xx answer may mean either.
A query stands for one request of a tool; `osd.get` makes several in a row.

`CephOperations` follows one call: `BeginQuery` and `BeginExec` are the
handlers with their validation and confirmation, `Read`, the pages of `osd.get`
and the mutation are the requests, and `OpChange` lets other clients add and
remove OSDs between them. A field of the detail or of the inventory's entry
that is malformed or too long ends the call as a page does that is none
(`BadPage`). `OpRequestFails` may fail any request with any error of
`CephClient`, which is more than each request can really meet. `OsdFound` says
that an OSD that exists throughout is found, if what the Dashboard says of it is
well formed; it excludes removals of other OSDs, because one can move the target to a page that was already read.
`CephResults` builds a response up entry by entry and normalises it.

### KubectlRunner, KubernetesReads, KubernetesExec, KubernetesResults

In `KubectlRunner` a call is a record: its caller, its worker and its kubectl.
The loop of `worker` is a biased select; `Preempted`, `StatusReady` and
`StreamReady` encode its order, `Stop` kills and reaps. The API server may
apply a mutation after kubectl was killed. In `KubernetesReads` each request
sees the cluster of its moment; the pod (`ReplacePod`, `DeletePod`), objects and APIs
that come and go, and a server that breaks the paging protocol are external.
`KubernetesExec` keeps names as sequences of character classes, because cutting
and trimming them is what the properties are about; the clock stays within one
period of the modulus, and a restart resets the sequence.
`KubernetesResults` measures messages in bytes of characters of one or two
bytes, so that a limit can fall inside one.

### TektonClient and TektonReads

A call is a sequence of requests. Each takes a permit, may fail or never be
answered, and gives the permit back; a wait also holds a slot and sleeps
between polls. `TektonDeadline` drops the future, `TektonCancelled` the request. The run, its
repository and its workflow change between requests. A patch carries the
resource version that was read. `TektonReads` assumes that the API server
serves no page above the limit it was given and continues a list from a
snapshot.

### GrafanaClient and its results

The metrics guard and the span guard live in the call; every end of it (answer,
error, timeout, drop) settles both. `GrafanaResults` reads the entries of a
list one by one, in the order of selecting, limiting and validating each list
has; `GrafanaDashboard` makes the recursion of `flatten_panels` a stack;
`GrafanaInputs` reads a duration part by part in words of `MaxWord`.

### SigningKeys

A start is `Prepare`, `BeginTransaction`, `Lock`, `Inspect`, `Generate`,
`Activate`, `Validate`, `Commit`. The transaction holds one connection of the
pool and the advisory lock; the other steps need a `Spare` connection and
commit on their own. `Crash` ends a process at any step and releases its lock,
not its keys. `AcquireTimesOut` ends a start that waits for a connection.

### ServiceLifecycle

`phase` is where `main` is. Requests carry a metrics guard and, for a call with
a progress token, a reporter that goes on until it is aborted. The guard
completes with the head of the response: `Respond` either finds the handler done
or leaves it to stream the body until `HandlerReturns`. `CleanupStops`
is the shutdown branch of both selects of `cleanup_loop`. The profiler's thread
may finish before or after `main` gives up on it.

### TokenCache

A run of `ssh_homelab` is a sequence of steps on the file (`Load`, `Purge`,
`Clear`, `WriteTemporary`, `Replace`) and of requests to OpenBao (`Lookup`,
`Revoke`, `Login`, `LookupNew`, `RevokeNew`, `Sign`). `load` reads through one
descriptor and is one step; so is `clear`, whose check and removal act as one
at the moment of either. Tokens expire and lose their contract at any time.
The helper takes a failed lookup for a rejection when stderr has certain words,
so `Lookups` allows "rejected" of any token, the live ones included. A login
that times out, or whose output is too long or no token, may have issued a token
the run never reads (`login_failed`). `warned`, `purged`, `refused` (tokens of
the cache whose lookup was taken for a rejection), `displaced` and `overlapped`
are history variables.

## Runs

| Run | Instance | Result |
| --- | --- | --- |
| `deploy_runner` | two calls, one deploy of each kind, a valid and an invalid pin; 762,132 states | safety, `IInv`, refinement of `DeployContract` hold |
| `deploy_service` | one deploy, one mutation, one machine, two hosts; six texts of a key: two good ones, one with a byte too many, one with a byte too few, one of another algorithm, one with a comment; 1,161,488 states | holds |
| `stores` | inventory: three requests, two UUIDs, two names, valid and invalid hosts and pins; helper: three runs, two of which may overlap, two tokens, two servers; 1,483,485 states | holds |
| `clients` | two calls of each client; one permit (Ceph, kubectl, Tekton), one waiter slot, two permits and one render permit (Grafana), two logins, two repositories, two changes of the run; 1,335,940 states | holds |
| `calls_live` | one deploy, two Ceph calls, one kubectl call, one Tekton call, two Grafana calls over one permit; 106,313 states | every caller is answered, every call and worker ends, permits come back |
| `requests` | Ceph: every tool, six ids, pages of two, two pages, two changes; Kubernetes: five objects, pages of two, a pod of three incarnations; Tekton: pages of two, two incarnations; 1,197,895 states | holds |
| `values` | job names of up to five characters, moduli of two, one restart; words of four bits, steps of two parts; lists of up to four entries around limits of one to three; three events of up to three characters; five panels in every nesting; 1,438,399 states | holds |
| `server` | three servers, pools of one and two, two starts each; or two requests, three notifications, a signal at any point; 258,257 states | `KeyInv` holds, so at most one key is active; the server winds down in order; starts end, a signal ends the process, a reporter ends with its call |
| `deploy_group_kill` | one call | `KillsProcessGroup` is violated |
| `deploy_after_clear` | as `deploy_service` | `ClearBlocksDeploy` is violated |
| `ceph_query_retry` | one call, two logins | `NoAutomaticRetry` is violated |
| `tekton_logs_replaced` | as `requests` | `LogsOfTheTask` is violated |

Bounds. The permit of the runner is one, so two calls show every conflict over
it: a call that holds it, and one that is refused or takes over. Liveness of
one call does not depend on another, because nothing of a call waits for
another call: a second one is refused at once. Three inventory requests allow a
create, a mutation of the new row and a third that overlaps either. Two Ceph
calls and two tokens are the least for one call to lose its token while the
other obtains the next one; one permit lets them exhaust the pool; `MaxLogins`
bounds the tokens issued, and is one in `calls_live`, where what matters is a
call that waits for the mutex another holds. The same argument gives the bounds
of the other clients: as many permits as let one call be refused while another
runs. A Grafana render takes permits of two kinds: in `clients` the render
permit runs out first, in `calls_live` the other one. What kubectl says on
stderr when it fails is one set of phrases in `clients` and nothing in
`calls_live`, since it decides the class of an error and not when a call ends.
Limits are shrunk so that the inputs reach one below, at and one above each of
them: pages, lists, panels, parts of a duration, bytes of a message, the modulus
of a job name. Three servers let one hold the lock, one wait and one crash. Of
three helper runs two overlap and the third begins when they are over
(`LastIsAlone`): it finds what they left behind. Symmetry permutes calls,
requests, tokens or servers of tokens, and only in runs without liveness.

Each run checks a few properties, most of them conjunctions of named parts that
have a comment of their own:

| Property | Parts |
| --- | --- |
| `StoresWellFormed` | `TypeOK` (inventory), `StoredRowsValid`, `CacheTypeOK` |
| `CachedTokensGood` | `CachedWasValidated`, `TokenStaysHome` |
| `TokensAccounted` | `NoTokenLostSilently`, `OnlyOverlapDisplaces`, `IndeterminateKeepsCache`, `TemporariesRemoved` |
| `PermitsAccounted` | `CephTypeOK`, `CephResourcesAccounted`, `KubectlTypeOK`, `KubectlPermitsAccounted`, `TektonResourcesAccounted`, `GrafanaPermitsAccounted` |
| `DefiniteErrorNotApplied` | the property of that name of Ceph, Tekton and Grafana, `MutationAnswerTrue`, `RetryIsSafe` |
| `CephMutationsSafe` | `AppliedAtMostOnce`, `RemovalOnlyIfSafe` |
| `KubectlInOrder` | `AnswerAfterReap`, `OutputComplete`, `NoStartAfterCancel` |
| `ActsOnWhatWasRead` | `CancelHitsTheRunSeen`, `WaitKeepsRepository` |
| `TelemetryAccounted` | `MetricsAccounted`, `SpanTellsTheEnd` |
| `EveryCallEnds` | `CallerAnswered` of the runner, `CephCallEnds`, `CallsEnd`, `TektonCallEnds`, `GrafanaCallEnds` |
| `OnlyWhatWasAsked` | `LogsOfTheAskedPod`, `GetIsExact`, `JudgedOnOneDocument`, `OsdIsTheOneAsked`, `TasksOfTheRunRead` |
| `PagesAccounted` | `TypeOK` (Ceph operations), `OsdFound`, `ListTellsWhatIsMissing`, `KubeListBounded`, `TektonListBounded`, `NewestAreListed` |
| `CatalogAccounted` | `CatalogIsWhole`, `WorkflowsAccounted`, `LogsBounded` |
| `ConfirmedAndAccepted` | `SentAsConfirmed`, `AcceptedTaskIsOurs` |
| `JobNamesSound` | `JobNamesDistinct`, `JobNameValid`, `TriggerAnswerNamesJob` |
| `QueriesBounded` | `PointsBounded`, `SpanBounded` |
| `CephListsExact` | `TruncatedIsTheTruth`, `ReturnedWereChecked`, `FlagsRefusedWhole` |
| `KubernetesCutsExact` | `TypeOK`, `MessagesBounded`, `TruncationExplicit`, `NoNeedlessCut`, `PodListsAccounted`, `MetricsBelongTogether` |
| `GrafanaListsExact` | `FirstWantedReturned`, `MalformedSpoils`, `UrlsLeftOut`, `LinesBounded` |
| `InventoryExact` | `PanelsInOrder`, `LimitsExact` |
| `KeyInv` | `TypeOK`, `OneActiveKey`, `LockCoversWork` and what makes them inductive; `ReadyHasKey` and `OneConnectionNeverReady` follow |
| `LifecycleInOrder` | `LifeTypeOK`, `RequestsCounted`, `ShutdownInOrder`, `FewLateBeats` |
| `ServerEnds` | `SignalEndsProcess`, `ReporterEnds` |

Deadlock is not checked: a service whose finite supply of requests is used up
has nothing left to do, and a server that was shut down stops.

Fairness. `Fairness` of the runner assumes that tokio polls a woken task, so a
worker that can step does, a caller takes a result that is there, and a timer
fires; the HTTP client's request timeout ends the call to OpenBao, which makes
the signing step a step of the worker. Nothing is assumed of ssh-keygen, of uv
or of what holds its pipes. `CephFairness` assumes that the deadline's timer
fires and that code between two awaits runs; nothing is assumed of the Dashboard
or of the order in which the mutex is granted. `KubectlFairness`,
`TektonFairness` and `GrafanaFairness` are alike: steps of the client and its
timers are fair, kubectl, Tekton's API, Forgejo and Grafana are not.
In `SigningKeys` a start goes on because
PostgreSQL answers or the acquire times out, and a crashed holder's lock is
released with its connection. `LifeFairness` takes a request to end, which
`calls_live` shows of each client's calls; a cleanup and the profiler's thread
are not assumed to.

Mutants. A definition such as `DropCallerFreesPermit` or `InvalidateAny`, which
no specification uses, is a variant of the definition after it with a plausible
bug. `PROJECT.json` names one for every property of every passing run, and for
every part of those above; put in place of the original, it makes TLC find the
property violated.

### What the violations show

- `KillsProcessGroup`: once `run_uv` took uv's exit status, `Child::id()` is
  `None` and `terminate_group` sends no signal. A process that kept a pipe open
  then survives the timeout that is reported.
- `ClearBlocksDeploy`: a `host-key.clear` answered between the read of the
  machine and the start of uv does not stop the deploy.
- `NoAutomaticRetry`: a query refused with 401 or 403 is sent again after a new
  login.
- `LogsOfTheTask`: the owner of a task's pod is checked once; a pod replaced
  after that has its log returned as the task's. `KubernetesReads` shows that
  the second check of the Kubernetes client excludes this.

Three results hold and are still worth knowing. `OneConnectionNeverReady`: a
configured pool of one connection, which `config.rs` accepts, never serves,
because the start holds that connection while it asks for another.
`NoTokenLostSilently` has to except `displaced`: of two overlapping runs of the
SSH helper one may remove the valid token the other has just saved, without a
warning; `OnlyOverlapDisplaces` shows that nothing else does. And it has to
except `refused`: a live token that may no longer look itself up, because its
policies changed, is cleared from the cache with neither a revocation nor a
warning (`ssh_homelab.py:118-132`, `345-347`). `docs/deploys/deploy-workflow.md:61`
says that the helper clears the "unusable" cache; what it goes by does not show
that the token is of no use to anyone. The property says that these two, another
origin and a run that dies or cannot finish its login or its save are all the
ways in which a live token is lost without a warning.

## Proofs

`DeployRunnerProofs` proves `Spec => []IInv` and from it the five safety
properties of `deploy_runner`, for any sets of calls, deploys, hosts and pins.
The assumptions are those of `DeployRunner`: the catalog is a subset of the
deploy ids and its MCP entries a subset of it, valid pins are pins, and the
values `NoPin` and `None` differ from everything they stand in for. TLC
evaluates them in `deploy_runner`.

`OneActiveDeploy` is not inductive by itself: nothing in it says that a call
with a run directory or a child still has the permit, or that the permit has
one holder. `IInv` adds

- `PermitInv`: at most one call holds the permit (as an admitted caller or as a
  worker stage), a holder means `permits = 0`, and while the server is up
  `permits = 0` means a holder;
- `CallerInv`: which worker stages go with which caller states, that an answer
  is the worker's result, and that a worker has an approved deploy and a
  checked pin;
- `StageInv`: in which stages there can be a directory, a child, a drain and a
  result;
- `ResultInv`: what a result says of the execution, and that uv started after a
  cancellation can only end as cancelled.

Each action has a lemma with one step for each part of `IInv`; `NextInv`
combines them. The safety properties follow from `IInv` without induction.

It also proves `Spec => ImplementsContract`. The refinement mapping takes the
slot of the contract to the calls that hold the permit, the started deploys to
those with `launched`, and results and answers to their class (not executed,
unknown, completed). `IInv` is needed at every operation that the contract
guards: a busy answer is a `Refuse` because a missing permit has a holder, a
result is a `Decide` because the worker that returns it holds the permit and
has decided nothing before, and the class of the result agrees with the start
of uv. Eleven actions are steps the contract does not see, and `UvExited` and
`UvDrained` are such steps unless they complete the run.

`DeployServiceProofs` proves first, of any text, that the inventory's check of a
host key passes exactly the keys the runner's passes (`ValidatorsAgree`). Both
are shown to say the same of each byte (`KeyBytes`): the inventory's, because the
length of the first string, which has to be the algorithm's 11 bytes, puts the
second at the 16th byte, and a big-endian length below 256 has three zeros before it
(`SmallLength`); the runner's, because its two slices and the length of 51 are
those bytes. The equivalence is more than a deploy needs: it also shows that no
key is kept from the table that a deploy would take.

With it the module proves `KnownHostsWasARow`, `WorkerAcceptsStoredPin` and that the deploy tool's behaviours are behaviours of the runner (`R!Spec`, which
states no fairness), for any sets of calls, machines and mutations. A valid
key travels from a statement to a row, from a row to the handler's copy and
from the copy to the worker, and each stretch has its invariant: `TableInv`
(stored keys and the keys of statements that have not run are valid), `ReadInv`
(the copy a call holds is a host and pin the machine had while the call was
open), `RunInv` (the runner works on that copy). It restates what it needs of
the table, because the provers cannot use a theorem about a module that is
instantiated under a name, only its definitions.

`StoresProofs`, of the inventory: `InventoryInv` gives `DefiniteReply`,
`StoredRowsValid` and `OnlyHostKeyActionsChangeTrust`. A definite answer is
true of a statement only if the request it belongs to has not been answered
before, so `RequestInv` says for each state of a request what its statement and
its answer can be; `UuidInv` says that the row a create is about to write
belongs to nobody else.

Of the token cache: `CacheInv` gives `CachedTokensGood`, `TokensAccounted`,
`OneLogin` and `StoresWellFormed`, for any number of runs, tokens and servers.
No part of it is inductive alone. `NoTokenLostSilently` is about all tokens,
and a step of one run can only keep it if it is known what the others hold:
`PathInv` says what a run has and has done at each of its steps, `HomeInv`
whose server its token is from, `KeptInv` that a run that did not obtain its
token itself can drop it without losing it, `FileInv` that the file holds a
validated token of its server, `TokensInv` where every live token is, and
`AloneInv` that a run nobody overlaps with finds its own token in the file. That
a lookup may be refused for a live token makes `refused` one of the places
`KeptInv` and `TokensInv` know of.

`ClientsProofs`, of Ceph: `CephInv` gives the resources, `CephMutationsSafe`,
`CephDefiniteErrorNotApplied` and `OnlyRefusedTokenDropped`. When the deadline
drops a mutation the answer depends on a progress flag alone, while the truth
depends on the request on the wire; `CephProgressInv` ties one to the other,
`CephApproachInv` says that a mutation is sent once, and `CephCountInv` counts
the permits by the calls that are at a request.

Of kubectl: `KubectlInv` gives `KubectlTypeOK`, `KubectlPermitsAccounted`,
`MutationAnswerTrue` and `KubectlInOrder`. `ProcessInv` follows the child from
its start to its reaping under a worker that outlives its caller; `ResultInv`
says which results the worker may return of what was collected and sent by
then; the permits are counted by the workers, not by the callers.

Of Tekton: `TektonInv` gives the resources, `TektonDefiniteErrorNotApplied`,
`WaitAnswers` and `ActsOnWhatWasRead`. What a call knows of the run is the
run's state at the version it read, or an older one; that versions only grow is
what makes a patch that is accepted hit the run that was seen.

Of Grafana: `GrafanaInv` gives `GrafanaPermitsAccounted`,
`TelemetryAccounted`, `GrafanaDefiniteErrorNotApplied` and `RetryIsSafe`, for
any number of calls and of both kinds of permits. `SpanInv` and `GuardInv` say
how the step, span, guard and answer of a call go together, `SilenceInv` what
responses a silence that was created can still get. Gauge, counters and permits
are sizes of sets of calls; a step of one call changes each size by what that
call contributes (`SetSteps`, `SizeStep`), which leaves one comparison for each
way in which a call ends. `ClientsAlone` shows that a behaviour of `MCClients`
is one of each client, so `PermitsAccounted` and `DefiniteErrorNotApplied` hold
of the four together.

`ServerProofs` proves `Spec => []KeyInv` and from it `TypeOK`, `OneActiveKey`,
`ReadyHasKey`, `LockCoversWork` and `OneConnectionNeverReady`, for any set of
servers, pool sizes from 1 up and any number of starts. `OneActiveKey` is not
inductive: a server that is about to activate a key must know that none is
active although it read that some steps ago, outside its transaction. `KeyInv`
therefore says that in `generate` and `activate` there is no active key, which
`LockCoversWork` (these steps belong to the holder of the lock) keeps true
against every other server; that a server beyond `validate` has seen a key; and
that a pool of one gets no further than `inspect`.

Its second invariant, `LifeInv`, gives `LifecycleInOrder` for any set of
requests: `PhaseInv` says what is over and what has not begun in each phase of
`main`, `ReqInv` what a request's guard and reporter may still do before the head
of its response, while the body streams and after its handler, and the metrics count the requests whose guard is in each state.

`RequestsProofs` proves the four properties of `requests`, for any pages,
limits, ids, objects, items, incarnations of pods and number of changes.

- `OpInv` (Ceph). `OsdFound` is about an OSD and a list that changes while it is
  read, and no earlier page says that the OSD was not on it. `OsdAhead` does:
  while the target is reachable it ranks at or beyond the first position of the
  page that is read next, because additions and removals that keep it reachable
  never move it to the front of that page. `OpWay` says which arguments, details and
  mutations go with each step of the call.
- `KubeInv` (Kubernetes). `KubeWay` follows the step of a call. `KubePods` says
  that uids only grow, so the log that was read is that of the pod asked for or
  of a later one, and the second check excludes the later one. `KubePages` says
  that every page left a token of its own and none has ended the list so far,
  which makes the pages as many as the tokens seen and ends a list whose tokens
  come round. `KubeDocs` bounds the documents of `capabilities`.
- `TektonInv`. `TektonPages` says the same of a list of Tekton. `TektonCatalog`
  says that each repository asked for is still to be read, was read, or was
  reported as failed, unless the list was cut, and that there are as many
  workflows as documents, so that no two of them share an identity.
  `TektonLogs` says that the sizes of the texts and what remains make up the
  budget, and that a text that is not marked as cut has all its lines.

`ValuesProofs` proves the seven properties of `values`, for lists, texts and
responses of every length. Each loop has an invariant that says what it has
made of what it has read so far.

- `ExecInv`: `ExecStamps` says that a name issued in this second has a sequence
  number of this burst, which the next one is not yet one of; `ExecJobs` that no
  two calls have the same job, and that the cluster has the job of a call that
  was applied exactly when it was no dry run. It also gives `OnlyRealRunsChange`.
- `InputInv`: the total is what the parts that were read mean, as long as
  the query is pending, and a query is only accepted for what `Accepted` says.
  Points and spans follow from facts of division.
- `CephInv`: nothing is kept while the response is built; the normaliser is one
  step, and what it keeps is compared with the response through `InOrder`.
- `KubeInv`: `EventsInv` follows the budget through the second pass over the
  events: what is left and the bytes kept before `pos` make up the budget, a
  message before `pos` is cut for what was spent by then, and those from `pos`
  on are as the first pass left them.
  `StatusesInv`, `ConditionsInv` and `ContainersInv` are for the other loops.
- `GrafanaInv`: `ListRead` says that what was selected are the first entries
  asked for and that nothing malformed went by, `StreamsRead` that the lines
  taken come before all lines that were not, and that lines are left out only
  when the limit is used up.
- `DashboardInv`: the walk through a dashboard is a path. `OnPath` says that
  each open list holds, in order, panels of one panel of the path that were not
  emitted, and that every panel whose parent was emitted is emitted or on such
  a list; `Emission` says what the output has: nothing twice, each panel after
  its row, and all of a panel before the next one beside it. The depth of the
  stack is the number of a panel's ancestors, which makes the depth limit
  exact; a panel that is missing makes the output shorter than the dashboard,
  which makes the limit on panels exact.

These proofs need induction over data. The library's induction theorems take
an operator and cannot be used with the installed provers, so `DataLemmas`
derives from the well-foundedness of `<` on the naturals that a set of them has
a least element, and from that `NatSetInduction` and `FiniteSetInduction`, which
take a set. On them rest sums (`SumFunction` of the community modules: adding
an element, agreement, sign), `InOrder` (type, order, place of each element)
and the recursive function `Ancestor`. Where the code filters or sorts a list by
what its entries are, the models therefore write it with `InOrder` over the set of the indices that
pass, and where it adds up with `SumFunction`; `SelectSeq`, `SortSeq` and folds
over sequences are operators the provers cannot unfold.

Assumptions. Pools, page sizes and limits of lists are positive numbers (of
Grafana's permits, any number); other bounds are numbers. A value that stands
for absence (`None`, `Nil`, `Nothing`, `NoPin`) is none of the values it stands
in for; the code has `Option` there. `Reads`, `Renders` and `Silence` are
different actions, `Ops` are operations of the Tekton tools, `Kinds` are kinds
of `KubernetesKinds`, `Stderrs` are sets of the phrases the code looks for. The
objects of the cluster and the items of Tekton are finite sets. The clock of
`KubernetesExec` stays within one period of its modulus, which is 31 years, and
a random suffix is shorter than a label; units of a duration are listed from
short to long, and the longest range of a language is a multiple of its tick.
`MaxInspected` is a page size times a number of pages. The text of a pin is a
`KeyText`. TLC evaluates each
assumption in the runs. No set of calls, servers, tokens or requests need be
finite: the sets that are counted grow by one call at a time.

Only model-checked: liveness under fairness (`EveryCallEnds`, `PermitReturns`,
`StartEnds`, `ServerEnds`), because it needs `ENABLED` of the fair actions,
which tlapm 1.4.5 does not expand; and that the code does the four things the
runs that end in a violation show.

## Not modelled

- `src/config.rs`: environment variables are read and validated once; no state.
- The OAuth and OIDC protocol, sessions, consent: the external `mcp` library.
  Principal mapping and the consent page in `src/oauth.rs` are stateless.
- Tool schemas, descriptions, the skill catalogue, the texts of results and
  errors (`src/mcp.rs`, `src/mcp/`, `src/tool_error.rs`).
- Single fields that are copied from an answer or left out (`resource` in the
  Kubernetes `normalize.rs`, the records of the other normalisers), checks of a
  text alone (length, alphabet), the parsing of URLs, labels and YAML.
- The format and filters of log events (`src/observability.rs`).
- The bootstrap helper and the pyinfra deploys (`deploys/`): sequences of
  commands on a remote host. `infra/`: declarations other systems evaluate.
- A crash of the server in the middle of a deploy (`runner.rs:545`): a SIGKILL
  leaves a run directory with a private key, in a memory-backed volume that goes
  with the pod; the model of the runner ends at shutdown and has no restart.
- Two behaviours the documentation allows and no property forbids: the runner
  sends its result before it drops the permit (`runner.rs:266`), so a client that
  starts the next deploy at once may be told `deploy_busy`; and a Ceph mutation
  that gets 401 leaves the refused token in the cache (`ceph/client.rs:447`)
  until a query clears it. The models have both behaviours.

What a next step would add: a composition of `KubernetesReads` with
`KubectlRunner`; the deploy catalog's confinement of paths; a proof of the
leads-to properties once `ENABLED` can be expanded.
