----------------------------- MODULE MCRequests -----------------------------
(* Single calls as sequences of requests, while what they read changes.  The   *)
(* integrations share no state, so a behaviour is a call of one of them.       *)
(* Ceph: up to six OSDs on pages of two, of which two pages are read.          *)
(* Kubernetes: five objects in pages of two, two pages.                        *)
(* Tekton: four runs, four tasks of two runs of the same name and five         *)
(* repositories, two of them ambiguous.                                        *)
EXTENDS CephOperations, KubernetesReads, TektonReads

VARIABLE part
mcVars == <<part, opVars, kubeVars, tektonVars>>

Run(i, at, b, s) ==
  [kind |-> "run", id |-> i, at |-> at, origin |-> "ours", owner |-> 0, repository |-> 0,
   workflow |-> IF i = 1 THEN "build" ELSE "test", branch |-> b,
   revision |-> IF i = 2 THEN "x" ELSE "y", condition |-> s]
Task(i, at, o, u, s) ==
  [kind |-> "task", id |-> i, at |-> at, origin |-> o, owner |-> u, repository |-> 0,
   workflow |-> "build", branch |-> "main", revision |-> "x", condition |-> s]
Repo(i, o, r) ==
  [kind |-> "repository", id |-> i, at |-> 0, origin |-> o, owner |-> 0, repository |-> r,
   workflow |-> "build", branch |-> "main", revision |-> "x", condition |-> "none"]

SomeItems ==
  {Run(1, 1, "main", "False"), Run(2, 2, "refs/heads/main", "False, cancelled"), Run(3, 2, "dev", "False"),
   Run(4, 3, "main", "True"),
   Task(1, 1, "ours", 1, "False"), Task(2, 2, "ours", 1, "False"), Task(3, 3, "ours", 2, "False"),
   Task(4, 3, "other", 1, "Unknown"),
   Repo(1, "ours", 1), Repo(2, "ours", 2), Repo(3, "ours", 2), Repo(4, "other", 1),
   Repo(5, "ours", 3)}

AnyRun == [workflow |-> "any", branch |-> "any", revision |-> "any", status |-> "any"]
SomeQueries ==
  {AnyRun, [AnyRun EXCEPT !.branch = "main"], [AnyRun EXCEPT !.status = "failed"],
   [AnyRun EXCEPT !.workflow = "test", !.revision = "y"]}

SomeFiles == {[bytes |-> b, documents |-> d] : b \in 1..3, d \in 0..3}

MCInit ==
  /\ part \in {"ceph", "kubernetes", "tekton"}
  /\ OpInit /\ KubeInit /\ TektonInit
  /\ part # "ceph" => osds = Ids

MCNext ==
  /\ UNCHANGED part
  /\ \/ part = "ceph" /\ OpNext /\ UNCHANGED <<kubeVars, tektonVars>>
     \/ part = "kubernetes" /\ KubeNext /\ UNCHANGED <<opVars, tektonVars>>
     \/ part = "tekton" /\ TektonNext /\ UNCHANGED <<opVars, kubeVars>>

MCSpec == MCInit /\ [][MCNext]_mcVars

\* An answer is about what was asked for, though each of the requests behind it sees a
\* cluster of its own moment: the pod, resource, OSD and run of that identity, and kinds
\* judged on one document.
OnlyWhatWasAsked ==
  /\ LogsOfTheAskedPod /\ GetIsExact /\ JudgedOnOneDocument
  /\ OsdIsTheOneAsked /\ TasksOfTheRunRead

\* A read of pages holds what it should and tells what it leaves out, whatever the server
\* hands out and whatever is added meanwhile; it stays within its limits.
PagesAccounted ==
  /\ TypeOK /\ OsdFound
  /\ ListTellsWhatIsMissing /\ KubeListBounded
  /\ TektonListBounded /\ NewestAreListed

\* Repositories, their workflows and logs of several steps are read one after the other:
\* every one is returned, or reported as failed or as cut.
CatalogAccounted == CatalogIsWhole /\ WorkflowsAccounted /\ LogsBounded

\* A Ceph mutation is what its caller confirmed, and is reported only as what was accepted.
ConfirmedAndAccepted == SentAsConfirmed /\ AcceptedTaskIsOurs
=============================================================================
