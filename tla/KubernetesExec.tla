---------------------------- MODULE KubernetesExec ----------------------------
(***************************************************************************)
(* The mutating tools of the Kubernetes client: validation                 *)
(* (src/integrations/kubernetes/actions.rs), the kubectl arguments and the *)
(* names of triggered jobs (client.rs), the answer (mcp.rs).  How kubectl  *)
(* runs is KubectlRunner; here a dispatched command is applied or not, and *)
(* answered or not.                                                        *)
(*                                                                         *)
(* A name is a sequence of characters: "a" stands for any lower-case       *)
(* letter or digit, "-" and "." for themselves, "A" for any other.         *)
(***************************************************************************)
EXTENDS Integers, Sequences, FiniteSets, FiniteSetsExt

CONSTANTS
  Calls,
  Names,           \* names a caller may give
  Namespaces,      \* namespaces a caller may give
  Replicas,        \* replica counts a caller may give
  ExecClusters,    \* names of configured clusters
  MaxReplicas,     \* 1,000
  LabelMax,        \* 63, the longest DNS label and the longest job name
  CronMax,         \* 52, the longest name of a cron job
  SuffixLen,       \* 22, the length of "-manual-sssssssss-nnnn"
  TimeMod,         \* 1,000,000,000
  SequenceMod,     \* 10,000
  MaxClock         \* bound on the clock, in seconds

ASSUME LengthsAssumption ==
  /\ LabelMax \in Nat /\ CronMax \in Nat /\ SuffixLen \in Nat
  /\ SuffixLen < LabelMax /\ CronMax <= LabelMax
ASSUME NamesAssumption == Names \subseteq Seq({"a", "-", ".", "A"})
\* The clock stays within one period: names recur after 31 years.
ASSUME ClockAssumption ==
  MaxClock \in Nat /\ TimeMod \in Nat /\ MaxClock < TimeMod /\ SequenceMod \in Nat \ {0}

VARIABLES
  clock,      \* SystemTime, in seconds
  sequence,   \* TRIGGER_SEQUENCE
  burst,      \* triggers since the clock last moved
  triggers,   \* triggers so far
  exec,       \* per call: its input and how far it is
  changed,    \* external: the field of a workload, cron job or pod that changed last
  jobs,       \* external: names of the jobs that were created
  issued      \* job names handed to kubectl, dry runs included

execVars == <<clock, sequence, burst, triggers, exec, changed, jobs, issued>>

Actions == {"workload_restart", "workload_scale", "cronjob_suspend", "cronjob_trigger",
            "pod_delete"}
ExecRequests ==
  {i \in [action : Actions, cluster : {"known", "unknown", "-bad"}, namespace : Namespaces,
          name : Names, replicas : Replicas \cup {0}, dry_run : {"absent", "no", "yes"}] :
     i.action # "workload_scale" => i.replicas = 0}

NoCommand == [action |-> "none", name |-> << >>, replicas |-> 0, dry_run |-> FALSE]
NoJob == [prefix |-> << >>, stamp |-> << >>]
Fresh == [step |-> "idle", command |-> NoCommand, job |-> NoJob, answer |-> "none"]

ExecInit ==
  /\ clock = 0 /\ sequence = 0 /\ burst = 0 /\ triggers = 0
  /\ exec = [c \in Calls |-> Fresh]
  /\ changed = "none"
  /\ jobs = {} /\ issued = {}
-----------------------------------------------------------------------------
Alphanumeric == {"a"}

ValidDnsLabel(s) ==
  /\ Len(s) \in 1..LabelMax
  /\ \A i \in 1..Len(s) : s[i] \in Alphanumeric \cup {"-"}
  /\ s[1] \in Alphanumeric /\ s[Len(s)] \in Alphanumeric

\* Every part between two dots, or a dot and an end, is a label.
ValidDnsSubdomain(s) ==
  LET cut == {0, Len(s) + 1} \cup {i \in 1..Len(s) : s[i] = "."}
  IN \A i, j \in cut :
       i < j /\ (\A k \in cut : ~(i < k /\ k < j)) => ValidDnsLabel(SubSeq(s, i + 1, j - 1))

ValidNamespace(s) == ValidDnsLabel(s)
ValidObjectName(s) == ValidDnsSubdomain(s)
ValidCronjobName(s) == Len(s) <= CronMax /\ ValidObjectName(s)
ValidCatalogName(cluster) == cluster # "-bad"

IsCronjob(action) == action \in {"cronjob_suspend", "cronjob_trigger"}

\* ExecInput::validate, and ExecCommand::is_valid once more in the client.
ExecValid(i) ==
  /\ ValidCatalogName(i.cluster)
  /\ ValidNamespace(i.namespace) /\ ValidObjectName(i.name)
  /\ IsCronjob(i.action) => ValidCronjobName(i.name)
  /\ i.action = "workload_scale" => i.replicas <= MaxReplicas

\* The command of a valid input; dry_run is false unless it is given.
Command(i) == [action |-> i.action, name |-> i.name, replicas |-> i.replicas,
               dry_run |-> i.dry_run = "yes"]

\* The name cut to what the suffix leaves, without the separators it would end in.
TrimEnd(s) ==
  SubSeq(s, 1, Max({0} \cup {i \in 1..Len(s) : s[i] \notin {"-", "."}}))

JobNameUntrimmed(name, stamp) ==
  [prefix |-> SubSeq(name, 1, Min({Len(name), LabelMax - SuffixLen})), stamp |-> stamp]

JobName(name, stamp) ==
  [prefix |-> TrimEnd(SubSeq(name, 1, Min({Len(name), LabelMax - SuffixLen}))),
   stamp |-> stamp]

StampWithoutSequence == <<clock % TimeMod, 0>>

Stamp == <<clock % TimeMod, sequence % SequenceMod>>

ChangeByRollout(i) ==
  [verb |-> IF i.action = "workload_restart" THEN "rollout" ELSE "patch",
   field |-> IF i.action = "cronjob_trigger" THEN "jobs" ELSE "restarts"]

\* mutation_arguments: what kubectl is told to change.  A dry run of a restart is a
\* patch, since a rollout has none; both set the same annotation.
ExecChange(i) ==
  CASE i.action = "workload_restart" -> [verb |-> IF i.dry_run THEN "patch" ELSE "rollout",
                                         field |-> "restarts"]
    [] i.action = "workload_scale"   -> [verb |-> "scale", field |-> "replicas"]
    [] i.action = "cronjob_suspend"  -> [verb |-> "patch", field |-> "suspended"]
    [] i.action = "cronjob_trigger"  -> [verb |-> "create", field |-> "jobs"]
    [] i.action = "pod_delete"       -> [verb |-> "delete", field |-> "pod"]

\* base_mutation adds --dry-run=server; "rollout" never gets it.
ServerSideDryRun(i) == i.dry_run /\ ExecChange(i).verb # "rollout"
-----------------------------------------------------------------------------
ExecFinish(c, a) ==
  exec' = [exec EXCEPT ![c] = [Fresh EXCEPT !.step = "done", !.answer = a, !.job = exec[c].job]]

\* The tool is called: invalid arguments and unknown clusters end here.
Refuse(c) ==
  /\ exec[c].step = "idle"
  /\ \E i \in ExecRequests :
       /\ ~ExecValid(i) \/ i.cluster \notin ExecClusters
       /\ ExecFinish(c, IF ExecValid(i) THEN "mutation_rejected" ELSE "invalid_arguments")
  /\ UNCHANGED <<clock, sequence, burst, triggers, changed, jobs, issued>>

\* The arguments are made, before the runner is asked for a permit: a trigger that
\* is then refused has used up its number.
Prepare(c) ==
  /\ exec[c].step = "idle"
  /\ \E i \in ExecRequests :
       /\ ExecValid(i) /\ i.cluster \in ExecClusters
       /\ IF i.action = "cronjob_trigger"
          THEN /\ burst < SequenceMod
               /\ sequence' = sequence + 1 /\ burst' = burst + 1 /\ triggers' = triggers + 1
               /\ exec' = [exec EXCEPT ![c].step = "run", ![c].command = Command(i),
                             ![c].job = JobName(i.name, Stamp)]
               /\ issued' = issued \cup {JobName(i.name, Stamp)}
          ELSE /\ exec' = [exec EXCEPT ![c].step = "run", ![c].command = Command(i)]
               /\ UNCHANGED <<sequence, burst, triggers, issued>>
  /\ UNCHANGED <<clock, changed, jobs>>

\* External: the API server carries the command out, unless it is a dry run.  It
\* refuses a job whose name is taken.
Apply(c) ==
  LET i == exec[c].command IN
  /\ exec[c].step = "run"
  /\ exec' = [exec EXCEPT ![c].step = "applied"]
  /\ IF ServerSideDryRun(i) THEN UNCHANGED <<changed, jobs>>
     ELSE /\ jobs' = IF ExecChange(i).field = "jobs" THEN jobs \cup {exec[c].job} ELSE jobs
          /\ changed' = IF ExecChange(i).field = "jobs" THEN changed ELSE ExecChange(i).field
  /\ UNCHANGED <<clock, sequence, burst, triggers, issued>>

ReplyIgnoringExit(c) ==
  /\ exec[c].step \in {"run", "applied"}
  /\ ExecFinish(c, IF exec[c].command.dry_run THEN "validated" ELSE "accepted")
  /\ UNCHANGED <<clock, sequence, burst, triggers, changed, jobs, issued>>

\* The runner's answer (see KubectlRunner), as execute_cancelled and the tool give it.
Reply(c) ==
  /\ \/ /\ exec[c].step = "applied"
        /\ ExecFinish(c, IF exec[c].command.dry_run THEN "validated" ELSE "accepted")
     \/ exec[c].step \in {"run", "applied"} /\ ExecFinish(c, "mutation_outcome_unknown")
     \/ exec[c].step = "run" /\ \E e \in {"mutation_rejected", "capacity_exhausted"} : ExecFinish(c, e)
  /\ UNCHANGED <<clock, sequence, burst, triggers, changed, jobs, issued>>

Again(c) ==
  /\ exec[c].step = "done"
  /\ exec' = [exec EXCEPT ![c] = Fresh]
  /\ UNCHANGED <<clock, sequence, burst, triggers, changed, jobs, issued>>

ClockTicks ==
  /\ clock < MaxClock
  /\ clock' = clock + 1 /\ burst' = 0
  /\ UNCHANGED <<sequence, triggers, exec, changed, jobs, issued>>

\* The server restarts, which takes a second at least; TRIGGER_SEQUENCE starts over.
Restart ==
  /\ clock < MaxClock
  /\ clock' = clock + 1 /\ burst' = 0 /\ sequence' = 0
  /\ exec' = [c \in Calls |-> Fresh]
  /\ UNCHANGED <<triggers, changed, jobs, issued>>

ExecNext ==
  \/ \E c \in Calls : Refuse(c) \/ Prepare(c) \/ Apply(c) \/ Reply(c) \/ Again(c)
  \/ ClockTicks \/ Restart

ExecSpec == ExecInit /\ [][ExecNext]_execVars
-----------------------------------------------------------------------------
\* Every trigger asks for a job of its own: no two, before or after a restart, get
\* the same name, whatever their cron jobs are called (client.rs:641-650).
JobNamesDistinct == Cardinality(issued) = triggers

\* A triggered job's name is one Kubernetes accepts: no longer than a label with its
\* suffix whole, and the cut never ends in a separator or in nothing.
JobNameValid ==
  \A p \in issued :
    Len(p.prefix) + SuffixLen <= LabelMax /\ ValidDnsSubdomain(p.prefix)

\* A command that was refused, or is only validated, leaves the cluster alone: what
\* the server carries out is the change of a running command that is no dry run.
OnlyRealRunsChange ==
  [][changed' # changed \/ jobs' # jobs =>
       \E c \in Calls : exec[c].step = "run" /\ ~exec[c].command.dry_run]_execVars

\* The name a trigger is answered with is the name of a job that was created, and a
\* trigger that was only validated, or refused, created none under its name.
TriggerAnswerNamesJob ==
  \A c \in Calls : exec[c].job # NoJob =>
    /\ exec[c].answer = "accepted" => exec[c].job \in jobs
    /\ exec[c].answer \in {"validated", "mutation_rejected", "capacity_exhausted"}
         => exec[c].job \notin jobs

\* A trigger creates a job of its own under a name Kubernetes takes and the caller is told.
JobNamesSound == JobNamesDistinct /\ JobNameValid /\ TriggerAnswerNamesJob
=============================================================================
