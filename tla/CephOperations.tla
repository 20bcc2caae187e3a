---------------------------- MODULE CephOperations ----------------------------
(***************************************************************************)
(* One call of a Ceph tool from its arguments to its result: the MCP       *)
(* handlers (src/mcp.rs), the validation of arguments (actions.rs), the    *)
(* choice of the cluster (catalog.rs) and the requests each operation is   *)
(* made of (client.rs).  How a request gets its token and its permit is in *)
(* CephClient; how the lists of a response are read is in CephResults.     *)
(*                                                                         *)
(* The OSDs of the cluster change while a call is under way.               *)
(***************************************************************************)
EXTENDS Integers, FiniteSets

CONSTANTS
  Configured,   \* the clusters of the catalog
  OpClusters,   \* cluster names a caller may give
  Ids,          \* OSD ids
  MaxOsdId,     \* ids above it do not fit an u32
  Limits,       \* limits a caller may give
  DefaultLimit, \* 50
  OpMaxLimit,   \* MAX_LIMIT
  OpPageSize,   \* OSD_INVENTORY_PAGE_SIZE
  OpMaxPages,   \* OSD_INVENTORY_MAX_PAGES
  MaxChanges,   \* bound on the changes of the inventory during the call
  None

ASSUME PagesAssumption == OpPageSize \in Nat \ {0} /\ OpMaxPages \in Nat \ {0}
ASSUME IdsAssumption == MaxOsdId \in Nat /\ Ids \subseteq 0..MaxOsdId /\ None \notin Ids
ASSUME ChangesAssumption == MaxChanges \in Nat

VARIABLES
  osds,       \* external: ids of the OSDs of the cluster
  input,      \* the arguments of the call
  pc,         \* "idle", the request under way, or "done"
  page,       \* osd: the page asked for
  detail,     \* osd: the id in the detail that was read
  found,      \* osd: the id of the entry found in the inventory
  sent,       \* mutations sent to the Dashboard
  outcome,
  result,     \* the OSD and the task a successful answer names
  changes,    \* changes of the inventory so far
  reachable,  \* ghost: so far the OSD stayed where the pages reach it, and none was removed
  declared    \* ghost: OSDs the Dashboard has called safe to destroy in this call

opVars == <<osds, input, pc, page, detail, found, sent, outcome, result, changes, reachable,
            declared>>

Removals == {"destroy", "purge"}
Mutations == {"mark", "reweight", "scrub"} \cup Removals
Listing == {"osds", "devices", "tasks"}

Confirmations == [action : Removals, osd : Ids, cluster : Configured]

\* QueryInput: `text` stands for the id of a device.
QueryInputs ==
  LET Input(tools, ids, limits, texts) ==
        [tool : tools, cluster : OpClusters, osd : ids, limit : limits, text : texts,
         confirmation : {None}]
  IN       Input({"clusters", "status", "metrics", "flags"}, {0}, {None}, {"none"})
      \cup Input({"osds", "tasks"}, {0}, Limits \cup {None}, {"none"})
      \cup Input({"osd", "safe_to_destroy"}, Ids, {None}, {"none"})
      \cup Input({"devices"}, Ids, Limits \cup {None}, {"none"})
      \cup Input({"device"}, Ids, {None}, {"id", "blank", "long", "control"})

\* ExecInput: `text` stands for a weight.
ExecInputs ==
  LET Input(tools, texts, confirmations) ==
        [tool : tools, cluster : OpClusters, osd : Ids, limit : {None}, text : texts,
         confirmation : confirmations]
  IN       Input({"mark", "scrub"}, {"none"}, {None})
      \cup Input({"reweight"}, {"from_0_to_1", "negative", "above_1", "infinite"}, {None})
      \cup Input(Removals, {"none"}, Confirmations)

NoInput == [tool |-> "none", cluster |-> None, osd |-> 0, limit |-> None, text |-> "none",
            confirmation |-> None]

OpInit ==
  /\ osds \in SUBSET Ids
  /\ input = NoInput /\ pc = "idle" /\ page = 0
  /\ detail = None /\ found = None
  /\ sent = {} /\ outcome = None /\ result = None
  /\ changes = 0 /\ reachable = TRUE /\ declared = {}
-----------------------------------------------------------------------------
ValidCluster(c) == c # "malformed"

OpBoundedLimit(l) == LET n == IF l = None THEN DefaultLimit ELSE l
                     IN  IF n > 0 /\ n <= OpMaxLimit THEN n ELSE None

ConfirmedAnyOsd(i) ==
  i.confirmation.action = i.tool /\ i.confirmation.cluster = i.cluster

\* destructive_confirmation: the text names the action, the OSD and the cluster.
Confirmed(i) == i.confirmation = [action |-> i.tool, osd |-> i.osd, cluster |-> i.cluster]

ValidQuery(i) ==
  \/ i.tool = "clusters"
  \/ /\ ValidCluster(i.cluster)
     /\ i.tool \in Listing => OpBoundedLimit(i.limit) # None
     /\ i.tool = "device" => i.text = "id"

ValidExec(i) ==
  /\ ValidCluster(i.cluster)
  /\ i.tool = "reweight" => i.text = "from_0_to_1"
  /\ i.tool \in Removals => Confirmed(i)

Validate(i) == IF i.tool \in Mutations THEN ValidExec(i) ELSE ValidQuery(i)

OpFinish(o) == pc' = "done" /\ outcome' = o

FirstRequest(tool) ==
  CASE tool = "osd" -> "detail"
    [] tool \in Removals -> "safe"
    [] tool \in Mutations \ Removals -> "mutate"
    [] OTHER -> "read"

\* The Dashboard lists its OSDs by their ids: how many come before this one.
Rank(ids, o) == Cardinality({p \in ids : p < o})
Within(ids, o) == o \in ids /\ Rank(ids, o) < OpMaxPages * OpPageSize

\* dispatch_ceph_query and dispatch_ceph_exec: refused arguments and an unknown cluster
\* never reach a Dashboard, and the list of clusters needs none.
Dispatch(i) ==
  /\ pc = "idle"
  /\ input' = i
  /\ IF ~Validate(i) THEN OpFinish("invalid_arguments")
     ELSE IF i.tool = "clusters" THEN OpFinish("ok")
     ELSE IF i.cluster \notin Configured THEN OpFinish("invalid_arguments")
     ELSE pc' = FirstRequest(i.tool) /\ UNCHANGED outcome
  /\ reachable' = Within(osds, i.osd)
  /\ UNCHANGED <<osds, page, detail, found, sent, result, changes, declared>>

BeginQuery == \E i \in QueryInputs : Dispatch(i)
BeginExec == \E i \in ExecInputs : Dispatch(i)

\* A query made of one request.
Read ==
  /\ pc = "read"
  /\ \E o \in {"ok", "invalid_response"} \cup (IF input.tool = "device" THEN {"not_found"} ELSE {}) :
       OpFinish(o)
  /\ UNCHANGED <<osds, input, page, detail, found, sent, result, changes, reachable, declared>>
-----------------------------------------------------------------------------
(* osd: the detail, then the pages of the inventory up to the OSD.         *)

ReadDetail ==
  /\ pc = "detail"
  /\ \E d \in Ids \cup {None} : detail' = d
  /\ pc' = "page"
  /\ UNCHANGED <<osds, input, page, found, sent, outcome, result, changes, reachable, declared>>

PageSkippingOne(p) == {o \in osds : Rank(osds, o) - p * (OpPageSize + 1) \in 0..(OpPageSize - 1)}
Page(p) == {o \in osds : Rank(osds, o) - p * OpPageSize \in 0..(OpPageSize - 1)}

NormalizeUnmatched(f) ==
  IF f = None \/ detail = None
  THEN OpFinish("invalid_response") /\ UNCHANGED result
  ELSE OpFinish("ok") /\ result' = [osd |-> detail, task |-> None]

\* normalize::osd of well-formed fields (BadPage has the others): the detail must be about the
\* OSD of the inventory's entry.
Normalize(f) ==
  IF f = None \/ detail = None \/ detail # f
  THEN OpFinish("invalid_response") /\ UNCHANGED result
  ELSE OpFinish("ok") /\ result' = [osd |-> detail, task |-> None]

ReadPagePastTheLast ==
  /\ pc = "page"
  /\ LET values == Page(page)
         hit == IF input.osd \in values THEN input.osd ELSE None
     IN  /\ found' = hit
         /\ IF hit # None \/ Cardinality(values) < OpPageSize \/ page = OpMaxPages
            THEN Normalize(hit) /\ UNCHANGED page
            ELSE page' = page + 1 /\ UNCHANGED <<pc, outcome, result>>
  /\ UNCHANGED <<osds, input, detail, sent, changes, reachable, declared>>

OpReadPage ==
  /\ pc = "page"
  /\ LET values == Page(page)
         hit == IF input.osd \in values THEN input.osd ELSE None
     IN  /\ found' = hit
         /\ IF hit # None \/ Cardinality(values) < OpPageSize \/ page + 1 = OpMaxPages
            THEN Normalize(hit) /\ UNCHANGED page
            ELSE page' = page + 1 /\ UNCHANGED <<pc, outcome, result>>
  /\ UNCHANGED <<osds, input, detail, sent, changes, reachable, declared>>

\* The Dashboard answers with more than a page, or with something that is no list, or a field
\* of the detail or of the inventory's entry is malformed or too long for normalize::osd.
BadPage ==
  /\ pc = "page"
  /\ OpFinish("invalid_response")
  /\ reachable' = FALSE
  /\ UNCHANGED <<osds, input, page, detail, found, sent, result, changes, declared>>
-----------------------------------------------------------------------------
(* Mutations.                                                              *)

\* require_safe: the answer is asked for in this call, about this OSD; one that is not a
\* Boolean is an invalid response.
RequireSafe ==
  /\ pc = "safe"
  /\ \/ declared' = declared \cup {input.osd} /\ pc' = "mutate" /\ UNCHANGED outcome
     \/ OpFinish("unsafe_to_destroy") /\ UNCHANGED declared
     \/ OpFinish("invalid_response") /\ UNCHANGED declared
  /\ UNCHANGED <<osds, input, page, detail, found, sent, result, changes, reachable>>

\* Tasks the Dashboard may name; the id comes as a number or as digits, or as neither.
Tasks == [name : {"osd/delete", "other"}, form : {"number", "digits", "other"},
          id : Ids \cup {MaxOsdId + 1}]

NumericOsdIdWrapping(task) == IF task.form = "other" THEN None ELSE task.id % (MaxOsdId + 1)

NumericOsdId(task) == IF task.form = "other" \/ task.id > MaxOsdId THEN None ELSE task.id

\* mutation_task: an accepted removal must name a delete task of the OSD; no other
\* mutation has a task.
MutationTask(task) ==
  IF input.tool \in Removals /\ task.name = "osd/delete" /\ NumericOsdId(task) = input.osd
  THEN input.osd ELSE None

\* The request is sent and answered: with 200, with 202 and a task, or with another success.
Mutate ==
  /\ pc = "mutate"
  /\ sent' = sent \cup {[cluster |-> input.cluster, tool |-> input.tool, osd |-> input.osd]}
  /\ \/ OpFinish("ok") /\ result' = [osd |-> input.osd, task |-> None]
     \/ \E task \in Tasks :
          IF MutationTask(task) = None
          THEN OpFinish("mutation_outcome_unknown") /\ UNCHANGED result
          ELSE OpFinish("ok") /\ result' = [osd |-> input.osd, task |-> task]
     \/ OpFinish("mutation_outcome_unknown") /\ UNCHANGED result
  /\ UNCHANGED <<osds, input, page, detail, found, changes, reachable, declared>>

\* A request fails, or the deadline or the caller ends the call (CephClient).
OpRequestFails ==
  /\ pc \in {"read", "detail", "page", "safe", "mutate"}
  /\ OpFinish(IF pc = "mutate" THEN "mutation_failed" ELSE "query_failed")
  /\ reachable' = FALSE
  /\ sent' = IF pc = "mutate"
             THEN sent \cup {[cluster |-> input.cluster, tool |-> input.tool, osd |-> input.osd]}
             ELSE sent
  /\ UNCHANGED <<osds, input, page, detail, found, result, changes, declared>>
-----------------------------------------------------------------------------
(* External: OSDs come and go.                                             *)

OpChange(o) ==
  /\ pc \in {"detail", "page"} /\ changes < MaxChanges
  /\ changes' = changes + 1
  /\ osds' = IF o \in osds THEN osds \ {o} ELSE osds \cup {o}
  /\ reachable' = (reachable /\ o \notin osds /\ Within(osds', input.osd))
  /\ UNCHANGED <<input, pc, page, detail, found, sent, outcome, result, declared>>

OpNext ==
  \/ BeginQuery \/ BeginExec
  \/ Read \/ ReadDetail \/ OpReadPage \/ BadPage \/ RequireSafe \/ Mutate \/ OpRequestFails
  \/ \E o \in Ids : OpChange(o)

OpSpec == OpInit /\ [][OpNext]_opVars
-----------------------------------------------------------------------------
(* Properties.                                                             *)

\* Every variable keeps its type.
TypeOK ==
  /\ osds \subseteq Ids /\ input \in QueryInputs \cup ExecInputs \cup {NoInput}
  /\ pc \in {"idle", "read", "detail", "page", "safe", "mutate", "done"}
  /\ page \in 0..(OpMaxPages - 1)
  /\ {detail, found} \subseteq Ids \cup {None}
  /\ changes \in 0..MaxChanges /\ reachable \in BOOLEAN /\ declared \subseteq Ids

\* An OSD that exists is found although the inventory is read page by page while OSDs are
\* added: as long as none is removed and it stays among the first MaxPages * PageSize, a
\* well-formed detail about it ends in an answer (client.rs:149-187).  A removal can move it
\* to a page that was already read.
OsdFound ==
  pc = "done" /\ input.tool = "osd" /\ reachable /\ detail = input.osd
    /\ outcome # "invalid_arguments" => outcome = "ok"

\* What an answer says is about the OSD the caller named, whatever the Dashboard's detail
\* is about (normalize.rs:72-91).
OsdIsTheOneAsked == outcome = "ok" /\ result # None => result.osd = input.osd

\* "accepted" is only said of a removal, with the task that deletes this very OSD
\* (client.rs:362-380, normalize.rs:224-266).
AcceptedTaskIsOurs ==
  outcome = "ok" /\ result # None /\ result.task # None =>
    /\ input.tool \in Removals
    /\ result.task.name = "osd/delete" /\ result.task.id = input.osd

\* What the Dashboard is told to do is what the caller asked for, in a configured cluster;
\* a removal was confirmed for that OSD and that cluster, and in this call the Dashboard has
\* declared the OSD safe to destroy (actions.rs:420-475, client.rs:316-360).
SentAsConfirmed ==
  \A m \in sent :
    /\ m.cluster \in Configured
    /\ m.tool = input.tool /\ m.osd = input.osd /\ m.cluster = input.cluster
    /\ m.tool \in Removals =>
         /\ m.osd \in declared
         /\ input.confirmation = [action |-> m.tool, osd |-> m.osd, cluster |-> m.cluster]
=============================================================================
