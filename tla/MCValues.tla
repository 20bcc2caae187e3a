------------------------------ MODULE MCValues ------------------------------
(* What is made of the values of one call: the arguments of Kubernetes and     *)
(* Grafana calls, and the answers of all integrations.  The parts share no     *)
(* state, so a behaviour is one of a single part while the others rest.        *)
(* Limits are small, and the values lie on both sides of every one: names that *)
(* end in, or are cut at, a separator; durations that overflow a word; ticks   *)
(* finer than the units in which ranges are sent; messages of up to three      *)
(* characters of one or two bytes.                                             *)
EXTENDS KubernetesExec, GrafanaInputs, CephResults, KubernetesResults, GrafanaResults,
        GrafanaDashboard

VARIABLE part
mcVars == <<part, execVars, inputVars, cephVars, kubeVars, grafanaVars, dashboardVars>>

SomeNames == {<<"a">>, <<"a", "a", ".", "a">>, <<"a", "-">>, <<"a", "a", "a", "a", "a">>}
SomeNamespaces == {<<"a">>, <<"a", ".", "a">>}

MCUnits == <<"ms", "s", "m", "h">>
MCUnitTicks == [ms |-> 1, s |-> 2, m |-> 4, h |-> 12]
MCTick == [logql |-> 1, promql |-> 1, traceql |-> 4, profiles |-> 2, render |-> 2]
MCMaxRange == [logql |-> 8, promql |-> 8, traceql |-> 8, profiles |-> 4, render |-> 8]

MCLabelMaps == {{"plain"}, {"plain", "url"}, {"plain", "url", "more"}, {"missing"}}

\* An initial state of every part that does not take part.
Resting ==
  /\ part # "input" => inputTool = "logql" /\ given = {} /\ start = 0 /\ end = 0
  /\ part # "ceph" => cephTool = "status" /\ cephLimit = 1
  /\ part # "kubernetes" => loop = "events"
  /\ part # "grafana" => tool = "traces" /\ limit = 1
  /\ part # "dashboard" => count = 0 /\ variables = 1

MCInit ==
  /\ part \in {"exec", "input", "ceph", "kubernetes", "grafana", "dashboard"}
  /\ Resting
  /\ ExecInit /\ InputInit /\ CephInit /\ KubeInit /\ GrafanaInit /\ DashboardInit

Others(p) ==
  /\ UNCHANGED part
  /\ p # "exec" => UNCHANGED execVars
  /\ p # "input" => UNCHANGED inputVars
  /\ p # "ceph" => UNCHANGED cephVars
  /\ p # "kubernetes" => UNCHANGED kubeVars
  /\ p # "grafana" => UNCHANGED grafanaVars
  /\ p # "dashboard" => UNCHANGED dashboardVars

MCNext ==
  \/ part = "exec" /\ ExecNext /\ Others("exec")
  \/ part = "input" /\ InputNext /\ Others("input")
  \/ part = "ceph" /\ CephNext /\ Others("ceph")
  \/ part = "kubernetes" /\ KubeNext /\ Others("kubernetes")
  \/ part = "grafana" /\ GrafanaNext /\ Others("grafana")
  \/ part = "dashboard" /\ DashboardNext /\ Others("dashboard")

MCSpec == MCInit /\ [][MCNext]_mcVars
=============================================================================
