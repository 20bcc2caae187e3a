-------------------------- MODULE MachineInventory --------------------------
(***************************************************************************)
(* The machine inventory (src/inventory.rs) behind the machine tools of    *)
(* src/mcp.rs.  A mutation is one SQL statement, sent to                   *)
(* PostgreSQL and awaited in a select with the cancellation of the MCP     *)
(* request.  Dropping the future of a statement that was sent does not     *)
(* recall it: the server may still execute it, later than statements of    *)
(* requests that came after it.                                            *)
(***************************************************************************)
EXTENDS Naturals, FiniteSets

CONSTANTS
  Ids,            \* machine UUIDs
  Names,          \* display names (UNIQUE in the table)
  Hosts,          \* ssh hosts; ValidHosts pass validate_machine_fields
  ValidHosts,
  Pins,           \* host keys; ValidPins pass validate_host_public_key
  ValidPins,
  NoPin,
  Requests,       \* MCP mutation requests
  None

VARIABLES
  rows,     \* homelab.machines
  used,     \* UUIDs ever generated by Uuid::new_v4
  op,       \* the operation of a request
  state,    \* where the request is
  effect,   \* what the statement did: none, ok, or the error it raised
  reply     \* the tool's answer

invVars == <<rows, used, op, state, effect, reply>>

Row == [name : Names, host : Hosts, pin : Pins \cup {NoPin}]

Op ==
  [kind : {"create"}, id : Ids, name : Names, host : Hosts, pin : Pins \cup {NoPin}]
  \cup [kind : {"update"}, id : Ids, name : Names, host : Hosts]
  \cup [kind : {"replace"}, id : Ids, pin : Pins]
  \cup [kind : {"clear", "delete"}, id : Ids]

ASSUME AbsenceAssumption == None \notin Row /\ None \notin Op

Init ==
  /\ rows \in [Ids -> {None}]
  /\ used = {}
  /\ op = [r \in Requests |-> None]
  /\ state = [r \in Requests |-> "idle"]
  /\ effect = [r \in Requests |-> "none"]
  /\ reply = [r \in Requests |-> "none"]

-----------------------------------------------------------------------------
AcceptsAnything(o) == TRUE

\* validate_machine_fields, the check of create and update, and
\* validate_host_public_key, the check of create and replace_host_key.
Validates(o) ==
  /\ o.kind \in {"create", "update"} => o.host \in ValidHosts
  /\ o.kind = "create" => o.pin \in ValidPins \cup {NoPin}
  /\ o.kind = "replace" => o.pin \in ValidPins

\* The handler validates and hands the statement to the pool.  create draws a
\* fresh UUID.
Submit(r, o) ==
  /\ state[r] = "idle"
  /\ o.kind = "create" => o.id \notin used
  /\ used' = IF o.kind = "create" THEN used \cup {o.id} ELSE used
  /\ op' = [op EXCEPT ![r] = o]
  /\ IF Validates(o)
     THEN state' = [state EXCEPT ![r] = "sent"] /\ UNCHANGED reply
     ELSE /\ state' = [state EXCEPT ![r] = "answered"]
          /\ reply' = [reply EXCEPT ![r] = "invalid_arguments"]
  /\ UNCHANGED <<rows, effect>>

\* The UNIQUE constraint on display_name.
NameTaken(o) == \E i \in Ids \ {o.id} : rows[i] # None /\ rows[i].name = o.name

\* What the statement of operation o finds: SQLSTATE 23505, no row, or success.
Verdict(o) ==
  CASE o.kind # "create" /\ rows[o.id] = None -> "machine_not_found"
    [] o.kind = "create" /\ NameTaken(o) -> "machine_conflict"
    [] o.kind = "update" /\ rows[o.id] # None /\ NameTaken(o) -> "machine_conflict"
    [] OTHER -> "ok"

UpdateResetsPin(o) ==
  CASE o.kind \in {"create", "update"} -> [name |-> o.name, host |-> o.host, pin |-> NoPin]
    [] o.kind = "replace" -> [rows[o.id] EXCEPT !.pin = o.pin]
    [] o.kind = "clear" -> [rows[o.id] EXCEPT !.pin = NoPin]
    [] o.kind = "delete" -> None

DeleteBlanksRow(o) ==
  CASE o.kind = "create" -> [name |-> o.name, host |-> o.host, pin |-> o.pin]
    [] o.kind = "update" -> [rows[o.id] EXCEPT !.name = o.name, !.host = o.host]
    [] o.kind = "replace" -> [rows[o.id] EXCEPT !.pin = o.pin]
    [] o.kind = "clear" -> [rows[o.id] EXCEPT !.pin = NoPin]
    [] o.kind = "delete" -> [rows[o.id] EXCEPT !.name = None]

\* The row of o.id after a successful statement.
NewRow(o) ==
  CASE o.kind = "create" -> [name |-> o.name, host |-> o.host, pin |-> o.pin]
    [] o.kind = "update" -> [rows[o.id] EXCEPT !.name = o.name, !.host = o.host]
    [] o.kind = "replace" -> [rows[o.id] EXCEPT !.pin = o.pin]
    [] o.kind = "clear" -> [rows[o.id] EXCEPT !.pin = NoPin]
    [] o.kind = "delete" -> None

\* PostgreSQL executes the statement, for a request that waits or that was
\* cancelled meanwhile.
Execute(r) ==
  /\ state[r] \in {"sent", "orphan"}
  /\ effect' = [effect EXCEPT ![r] = Verdict(op[r])]
  /\ rows' = IF Verdict(op[r]) = "ok" THEN [rows EXCEPT ![op[r].id] = NewRow(op[r])]
                                      ELSE rows
  /\ state' = [state EXCEPT ![r] = IF state[r] = "sent" THEN "executed" ELSE "answered"]
  /\ UNCHANGED <<used, op, reply>>

ReplyOk(r) ==
  /\ state[r] \in {"sent", "executed"}
  /\ state' = [state EXCEPT ![r] = "answered"]
  /\ reply' = [reply EXCEPT ![r] = "ok"]
  /\ UNCHANGED <<rows, used, op, effect>>

\* The handler gets the statement's result.
Reply(r) ==
  /\ state[r] = "executed"
  /\ state' = [state EXCEPT ![r] = "answered"]
  /\ reply' = [reply EXCEPT ![r] = effect[r]]
  /\ UNCHANGED <<rows, used, op, effect>>

\* No connection from the pool, or it broke before or after the statement ran:
\* map_database_error makes every such error RepositoryError::Database.
DatabaseFails(r) ==
  /\ state[r] \in {"sent", "executed"}
  /\ state' = [state EXCEPT ![r] = IF state[r] = "sent" THEN "orphan" ELSE "answered"]
  /\ reply' = [reply EXCEPT ![r] = "inventory_unavailable"]
  /\ UNCHANGED <<rows, used, op, effect>>

\* context.cancelled() wins the select: the future of the statement is dropped.
Cancel(r) ==
  /\ state[r] \in {"sent", "executed"}
  /\ state' = [state EXCEPT ![r] = IF state[r] = "sent" THEN "orphan" ELSE "answered"]
  /\ reply' = [reply EXCEPT ![r] = "mutation_outcome_unknown"]
  /\ UNCHANGED <<rows, used, op, effect>>

\* A dropped statement that never reached PostgreSQL.
Lost(r) ==
  /\ state[r] = "orphan"
  /\ state' = [state EXCEPT ![r] = "answered"]
  /\ UNCHANGED <<rows, used, op, effect, reply>>

Next ==
  \E r \in Requests :
    \/ \E o \in Op : Submit(r, o)
    \/ Execute(r) \/ Reply(r) \/ DatabaseFails(r) \/ Cancel(r) \/ Lost(r)

Spec == Init /\ [][Next]_invVars

-----------------------------------------------------------------------------
(* Properties.                                                             *)

Replies == {"ok", "invalid_arguments", "machine_not_found", "machine_conflict",
            "inventory_unavailable", "mutation_outcome_unknown"}

\* Every variable keeps its type.
TypeOK ==
  /\ rows \in [Ids -> Row \cup {None}]
  /\ used \in SUBSET Ids
  /\ op \in [Requests -> Op \cup {None}]
  /\ state \in [Requests -> {"idle", "sent", "executed", "orphan", "answered"}]
  /\ effect \in [Requests -> {"none", "ok", "machine_not_found", "machine_conflict"}]
  /\ reply \in [Requests -> Replies \cup {"none"}]

\* A definite answer is the truth about the table, whatever the other requests
\* did meanwhile: success means the statement took effect, and an error other
\* than the two uncertain ones means it did not and never will.
DefiniteReply ==
  \A r \in Requests :
    /\ reply[r] = "ok" => effect[r] = "ok"
    /\ reply[r] \in {"invalid_arguments", "machine_not_found", "machine_conflict"} =>
         effect[r] # "ok" /\ state[r] = "answered"

\* Every stored host and host key passed its validation, through any sequence
\* of operations, cancelled and late ones included: the runner writes them to
\* known_hosts.
StoredRowsValid ==
  \A i \in Ids : rows[i] # None =>
    rows[i].host \in ValidHosts /\ rows[i].pin \in ValidPins \cup {NoPin}

\* Host trust is separate: the pin of a record changes only by an executed
\* host-key.clear or host-key.replace of that very record.
OnlyHostKeyActionsChangeTrust ==
  [][\A i \in Ids :
       rows[i] # None /\ rows'[i] # None /\ rows'[i].pin # rows[i].pin =>
         \E r \in Requests :
           /\ op[r] # None /\ op[r].kind \in {"clear", "replace"} /\ op[r].id = i
           /\ effect[r] = "none" /\ effect'[r] = "ok"]_invVars

=============================================================================
