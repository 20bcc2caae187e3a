--------------------------- MODULE DeployService ----------------------------
(***************************************************************************)
(* The deploy tool of src/mcp.rs: deploy_run reads the machine from the    *)
(* inventory, then hands that copy to the runner.  The runner and the      *)
(* inventory run at the same time; nothing ties the copy to the table      *)
(* after it was read.                                                      *)
(***************************************************************************)
EXTENDS FiniteSets, HostKeys

CONSTANTS
  Calls, DeployIds, CatalogIds, McpIds, Hosts, NoPin, None,
  Ids, Names, ValidHosts, Requests,
  Pins,     \* host keys
  Text      \* the text of each

ASSUME TextAssumption == Text \in [Pins -> KeyText]

VARIABLES
  up, permits, caller, answer, deploy, machine, cancel, stage, ret, runDir,
  leader, exit, group, status, drain, expired, launched,
  rows, used, op, state, effect, reply,
  phase,    \* where deploy_run is
  want,     \* its arguments
  snap,     \* the Machine it read
  seen      \* history: the (host, pin) pairs the machine had since the request

\* The inventory stores a key that passes its own check, the runner takes one that passes
\* its own.
StorablePins == {p \in Pins : ValidHostPublicKey(Text[p])}
AcceptedPins == {p \in Pins : ValidHostPin(Text[p])}

R == INSTANCE DeployRunner WITH ValidPins <- AcceptedPins
I == INSTANCE MachineInventory WITH ValidPins <- StorablePins

ASSUME AbsenceAssumption == None \notin R!DeployResult \cup [deploy : DeployIds, id : Ids]

runnerVars == <<up, permits, caller, answer, deploy, machine, cancel, stage, ret,
                runDir, leader, exit, group, status, drain, expired, launched>>
inventoryVars == <<rows, used, op, state, effect, reply>>
handlerVars == <<phase, want, snap, seen>>
vars == <<runnerVars, inventoryVars, handlerVars>>

\* The part of a row that a deploy uses.
Target(row) == [host |-> row.host, pin |-> row.pin]
TargetOf(table, i) == IF table[i] = None THEN {} ELSE {Target(table[i])}

\* The table survives restarts of the server: it holds any rows that earlier
\* operations can have left.
Init ==
  /\ R!Init
  /\ rows \in [Ids -> I!Row \cup {None}]
  /\ \A i \in Ids : rows[i] # None =>
       rows[i].host \in ValidHosts /\ rows[i].pin \in StorablePins \cup {NoPin}
  /\ \A i, j \in Ids : rows[i] # None /\ rows[j] # None /\ rows[i].name = rows[j].name
                       => i = j
  /\ used = {i \in Ids : rows[i] # None}
  /\ op = [r \in Requests |-> None]
  /\ state = [r \in Requests |-> "idle"]
  /\ effect = [r \in Requests |-> "none"]
  /\ reply = [r \in Requests |-> "none"]
  /\ phase = [c \in Calls |-> "idle"]
  /\ want = [c \in Calls |-> None]
  /\ snap = [c \in Calls |-> None]
  /\ seen = [c \in Calls |-> {}]

-----------------------------------------------------------------------------
Request(c, d, i) ==
  /\ up /\ phase[c] = "idle"
  /\ phase' = [phase EXCEPT ![c] = "lookup"]
  /\ want' = [want EXCEPT ![c] = [deploy |-> d, id |-> i]]
  /\ seen' = [seen EXCEPT ![c] = TargetOf(rows, i)]
  /\ UNCHANGED <<runnerVars, inventoryVars, snap>>

LookupKeepsOldPin(c) ==
  /\ up /\ phase[c] = "lookup"
  /\ rows[want[c].id] # None
  /\ phase' = [phase EXCEPT ![c] = "ready"]
  /\ \E p \in StorablePins :
       snap' = [snap EXCEPT ![c] = [Target(rows[want[c].id]) EXCEPT !.pin = p]]
  /\ UNCHANGED <<runnerVars, inventoryVars, want, seen>>

\* inventory.get returned the machine: one SELECT, one consistent row.
Lookup(c) ==
  /\ up /\ phase[c] = "lookup"
  /\ rows[want[c].id] # None
  /\ phase' = [phase EXCEPT ![c] = "ready"]
  /\ snap' = [snap EXCEPT ![c] = Target(rows[want[c].id])]
  /\ UNCHANGED <<runnerVars, inventoryVars, want, seen>>

\* No such machine, no database, or the request was cancelled meanwhile.
LookupEnds(c) ==
  /\ up /\ phase[c] = "lookup"
  /\ \/ /\ rows[want[c].id] = None
        /\ phase' = [phase EXCEPT ![c] = "machine_not_found"]
     \/ phase' = [phase EXCEPT ![c] = "inventory_unavailable"]
     \/ phase' = [phase EXCEPT ![c] = "cancelled"]
  /\ UNCHANGED <<runnerVars, inventoryVars, want, snap, seen>>

\* dispatch_deploy_run calls run_cancelled with the copy.
Dispatch(c) ==
  /\ phase[c] = "ready"
  /\ R!Enter(c, want[c].deploy, snap[c])
  /\ phase' = [phase EXCEPT ![c] = "dispatched"]
  /\ UNCHANGED <<inventoryVars, want, snap, seen>>

RunnerStep == R!Proceed /\ UNCHANGED <<inventoryVars, handlerVars>>

InventoryStep ==
  /\ I!Next
  /\ seen' = [c \in Calls |-> IF want[c] = None THEN seen[c]
                              ELSE seen[c] \cup TargetOf(rows', want[c].id)]
  /\ UNCHANGED <<runnerVars, phase, want, snap>>

Next ==
  \/ \E c \in Calls :
       \/ \E d \in DeployIds, i \in Ids : Request(c, d, i)
       \/ Lookup(c) \/ LookupEnds(c) \/ Dispatch(c)
  \/ RunnerStep
  \/ InventoryStep

Spec == Init /\ [][Next]_vars

-----------------------------------------------------------------------------
(* Properties.                                                             *)

\* The known_hosts entry a deploy trusts pairs the host and the key of one row
\* the named machine really had while the request was open: updates, key
\* replacements and deletions that overlap the deploy never mix two rows.
KnownHostsWasARow ==
  \A c \in Calls :
    R!Engaged(c) \/ launched[c] # "no" => machine[c] \in seen[c]

\* The inventory only stores keys the runner accepts, although they read a key's text in
\* different ways (inventory.rs:330-360, runner.rs:622-642), so a deploy that passed the check
\* of run_cancelled is never turned down for its pin by the worker.
WorkerAcceptsStoredPin ==
  \A c \in Calls : stage[c] # "none" => ret[c] # "missing_host_pin"

\* "A cleared pin blocks deploy execution before key generation, OpenBao
\* access, or SSH execution" (docs/deploys/machine-inventory.md): uv is not
\* started for a machine whose host-key.clear was answered with success
\* before and that has no pin since.
Cleared(i) ==
  /\ rows[i] # None /\ rows[i].pin = NoPin
  /\ \E r \in Requests : reply[r] = "ok" /\ op[r].kind = "clear" /\ op[r].id = i

ClearBlocksDeploy ==
  [][\A c \in Calls : launched[c] = "no" /\ launched'[c] # "no" =>
       ~Cleared(want[c].id)]_vars

=============================================================================
