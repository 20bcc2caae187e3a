------------------------------- MODULE MCLive -------------------------------
(* Calls that must end: a call of one of the four clients, as in MCClients, or *)
(* one deploy, whatever uv, the signer, the pipes and its caller do.           *)
EXTENDS MCClients

CONSTANTS Calls, DeployIds, CatalogIds, McpIds, Hosts, Pins, ValidPins, NoPin

VARIABLES
  up, permits, caller, answer, deploy, machine, cancel, stage, ret, runDir,
  leader, exit, group, status, drain, expired, launched

R == INSTANCE DeployRunner

deployVars == <<up, permits, caller, answer, deploy, machine, cancel, stage, ret,
                runDir, leader, exit, group, status, drain, expired, launched>>

\* While a deploy runs the clients rest, and while a client works there is none.
LiveInit ==
  /\ R!Init
  /\ \/ MCInit
     \/ /\ part = "deploy"
        /\ CephInit /\ KubectlInit /\ TektonInit /\ GrafanaInit
        /\ run = NoRun /\ catalog = "o/a"

LiveNext ==
  \/ MCNext /\ UNCHANGED deployVars
  \/ part = "deploy" /\ R!Next /\ UNCHANGED mcVars

LiveSpec ==
  /\ LiveInit /\ [][LiveNext]_<<mcVars, deployVars>>
  /\ CephFairness /\ KubectlFairness /\ TektonFairness /\ GrafanaFairness
  /\ R!Fairness

\* Every call ends: a deploy that was handed to a worker answers its caller, even one that
\* asked for cancellation, or the caller or the server is gone; and a call of a client ends
\* by its timeout or deadline.  No stuck uv, kubectl, signer, pipe or server keeps it.
EveryCallEnds ==
  R!CallerAnswered /\ CephCallEnds /\ CallsEnd /\ TektonCallEnds /\ GrafanaCallEnds

\* The one deploy permit always comes back, so one deploy never blocks the next
\* ones: deploy_busy is a transient answer.
PermitReturns == R!PermitReturns
=============================================================================
