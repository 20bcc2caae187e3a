----------------------------- MODULE MCClients -----------------------------
(* The four clients, as calls compete for their permits and end.  They share   *)
(* no state, so a behaviour is one of a single client while the others rest.   *)
(* Two calls each, and fewer permits or slots than calls; for Grafana fewer    *)
(* render permits in one instance and fewer permits in the other; for Ceph two *)
(* logins, so that a refused token can be replaced while another call uses it. *)
EXTENDS CephClient, KubectlRunner, TektonClient, GrafanaClient, TLC

VARIABLE part
mcVars == <<part, cephVars, kubectlVars, tektonVars, grafanaVars>>

Verbose == {{"forbidden", "not_found"}}
Silent == {{}}

Symmetry == Permutations(CephCalls)

MCInit ==
  /\ part \in {"ceph", "kubectl", "tekton", "grafana"}
  /\ CephInit /\ KubectlInit /\ TektonInit /\ GrafanaInit
  /\ part # "tekton" => run = NoRun /\ catalog = "o/a"

MCNext ==
  /\ UNCHANGED part
  /\ \/ part = "ceph" /\ CephNext /\ UNCHANGED <<kubectlVars, tektonVars, grafanaVars>>
     \/ part = "kubectl" /\ KubectlNext /\ UNCHANGED <<cephVars, tektonVars, grafanaVars>>
     \/ part = "tekton" /\ TektonNext /\ UNCHANGED <<cephVars, kubectlVars, grafanaVars>>
     \/ part = "grafana" /\ GrafanaNext /\ UNCHANGED <<cephVars, kubectlVars, tektonVars>>

MCSpec ==
  /\ MCInit /\ [][MCNext]_mcVars
  /\ CephFairness /\ KubectlFairness /\ TektonFairness /\ GrafanaFairness

\* Whatever mix of answers, timeouts, deadlines and cancellations there was, every permit,
\* slot and mutex is where the calls under way say.
PermitsAccounted ==
  /\ CephTypeOK /\ CephResourcesAccounted
  /\ KubectlTypeOK /\ KubectlPermitsAccounted
  /\ TektonResourcesAccounted
  /\ GrafanaPermitsAccounted

\* An error that claims that nothing happened is true of every mutation, and stays true of
\* requests that outlive their calls: silences, runs, OSDs and objects.
DefiniteErrorNotApplied ==
  /\ CephDefiniteErrorNotApplied
  /\ MutationAnswerTrue
  /\ TektonDefiniteErrorNotApplied
  /\ GrafanaDefiniteErrorNotApplied /\ RetryIsSafe
=============================================================================
