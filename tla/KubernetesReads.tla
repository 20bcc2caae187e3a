--------------------------- MODULE KubernetesReads ---------------------------
(***************************************************************************)
(* The reading tools of the Kubernetes client                              *)
(* (src/integrations/kubernetes/client.rs, catalog.rs): one resource, a    *)
(* list, the capabilities of a cluster and the logs of a pod.  Each is a   *)
(* sequence of kubectl requests between which the cluster changes; nothing *)
(* is held across them, not even a permit.  A request succeeds or fails    *)
(* with an error of KubectlRunner.                                         *)
(*                                                                         *)
(* The API server is external.  It answers a request from the state of the *)
(* cluster at that moment, a continued list from the snapshot of its first *)
(* page, and it may break the paging protocol.                             *)
(***************************************************************************)
EXTENDS Integers, FiniteSets, FiniteSetsExt, KubernetesKinds

CONSTANTS
  Objects,        \* objects of the listed kind, as numbers in the order of their names
  Kinds,          \* kinds the capabilities are asked of
  Containers,
  KubeMaxUid,     \* bound on the incarnations of the pod
  KubePageSize,   \* 100
  KubeMaxPages,   \* MAX_PAGES = 5
  KubeMaxLimit,   \* 100, the largest limit of a list
  MaxInspected    \* MAX_INSPECTED = 500

ASSUME ObjectsAssumption == Objects \subseteq Nat /\ IsFiniteSet(Objects)
ASSUME KindsAssumption == Kinds \subseteq ResourceKinds
ASSUME PagingAssumption ==
  /\ KubePageSize \in Nat \ {0} /\ KubeMaxPages \in Nat \ {0}
  /\ MaxInspected = KubePageSize * KubeMaxPages

VARIABLES
  pod,       \* external: the pod of that name, uid 0 when there is none
  uids,      \* external: uids given out so far
  stored,    \* external: objects in the cluster
  offered,   \* external: kinds the cluster serves
  read       \* the call in progress

kubeVars == <<pod, uids, stored, offered, read>>

\* Errors of a query, after KubectlRunner.
QueryErrors == {"capacity_exhausted", "timeout", "unauthorized", "not_found",
                "unsupported_api", "query_rejected", "upstream_unavailable",
                "response_too_large"}

Idle == [op |-> "none", step |-> "idle", answer |-> "none",
         uid |-> 0, container |-> "", text |-> 0,
         kinds |-> << >>, docs |-> {}, supported |-> {},
         snapshot |-> {}, items |-> {}, pages |-> 0, token |-> 0, seen |-> {},
         asked |-> << >>, served |-> << >>, limit |-> 0, returned |-> {}, source_truncated |-> FALSE,
         result_truncated |-> FALSE]

KubeInit ==
  /\ pod = [uid |-> 1, containers |-> Containers] /\ uids = 1
  /\ stored = {} /\ offered = {}
  /\ read = Idle

Do(changed) == read' = changed /\ UNCHANGED <<pod, uids, stored, offered>>
Answer(a) == [read EXCEPT !.step = "done", !.answer = a]

\* Any request of the call fails, its response is no JSON, or the call is cancelled.
KubeRequestFails ==
  /\ read.step \notin {"idle", "done"}
  /\ read.op = "capabilities" =>
       read.kinds # << >> /\ ApiVersion(Head(read.kinds)) \notin {d[1] : d \in read.docs}
  /\ \E e \in QueryErrors \cup {"invalid_response", "request_cancelled"} :
       /\ read.op = "capabilities" => e \notin {"not_found", "unsupported_api", "query_rejected"}
       /\ Do(Answer(e))
-----------------------------------------------------------------------------
\* Arguments that do not pass validation: a namespace missing or out of place, a
\* limit, tail or size out of range, a kind named twice or none at all.
Requests == Kinds \X {"", "x", "y"} \X {"x", "y"}
ValidLimit(n) == n \in 1..KubeMaxLimit
ValidKinds(ks) == ks # << >> /\ Cardinality({ks[i] : i \in 1..Len(ks)}) = Len(ks)
ValidTarget(t) == Namespaced(t[1]) = (t[2] # "")

KubeRefuseInput ==
  /\ read.step = "idle"
  /\ \/ \E n \in 0..(KubeMaxLimit + 1) : ~ValidLimit(n)
     \/ \E ks \in {<< >>} \cup [1..2 -> Kinds] : ~ValidKinds(ks)
     \/ \E t \in Requests : ~ValidTarget(t)
  /\ Do(Answer("invalid_arguments"))

\* query_cancelled with a name.  The server finds the object by the path alone, or
\* answers with some other object, whose name or namespace gives it away.
BeginGet ==
  /\ read.step = "idle"
  /\ \E t \in {r \in Requests : ValidTarget(r)} :
       Do([read EXCEPT !.op = "get", !.step = "object", !.asked = t])

GetObject ==
  /\ read.step = "object"
  /\ \E t \in {r \in Requests : ValidTarget(r)} :
       /\ ObjectPath(t[1], t[2], t[3]) = ObjectPath(read.asked[1], read.asked[2], read.asked[3])
       /\ Do([Answer("resource") EXCEPT !.served = t])

GetOther == read.step = "object" /\ Do(Answer("invalid_response"))
-----------------------------------------------------------------------------
\* pod_logs_cancelled
BeginLogs ==
  /\ read.step = "idle"
  /\ \E u \in 1..KubeMaxUid, k \in Containers :
       Do([read EXCEPT !.op = "logs", !.step = "pod", !.uid = u, !.container = k])

PodMatchesLogQuery == pod.uid = read.uid /\ read.container \in pod.containers

\* The pod is read, and must be the one asked for.
KubeReadPod ==
  /\ read.step = "pod"
  /\ Do(IF PodMatchesLogQuery THEN [read EXCEPT !.step = "log"] ELSE Answer("not_found"))

\* The log is read by name: it is the log of the pod of that name by now.
KubeReadLog ==
  /\ read.step = "log"
  /\ Do(IF pod.uid # 0 /\ read.container \in pod.containers
        THEN [read EXCEPT !.step = "again", !.text = pod.uid]
        ELSE Answer(IF pod.uid = 0 THEN "not_found" ELSE "query_rejected"))

ReturnLog == read.step = "again" /\ Do(Answer("logs"))

\* The pod is read again before the text is returned.
CheckPodAgain ==
  /\ read.step = "again"
  /\ Do(Answer(IF PodMatchesLogQuery THEN "logs" ELSE "not_found"))
-----------------------------------------------------------------------------
\* capabilities_cancelled: one discovery document per API version, for as many kinds
\* as it covers.  A refused, missing or unsupported document offers nothing.
BeginCapabilities ==
  /\ read.step = "idle"
  /\ \E n \in 1..Cardinality(Kinds) : \E ks \in [1..n -> Kinds] :
       /\ ValidKinds(ks)
       /\ Do([read EXCEPT !.op = "capabilities", !.step = "kind", !.kinds = ks])

Offers(version) == {k \in offered : ApiVersion(k) = version}

JudgeFetchingAlways ==
  /\ read.step = "kind" /\ read.kinds # << >>
  /\ LET k == Head(read.kinds) IN
       Do([read EXCEPT !.kinds = Tail(@), !.docs = @ \cup {<<ApiVersion(k), Offers(ApiVersion(k))>>},
                       !.supported = IF k \in offered THEN @ \cup {k} ELSE @,
                       !.pages = @ + 1])

Judge ==
  /\ read.step = "kind" /\ read.kinds # << >>
  /\ LET k == Head(read.kinds)
         v == ApiVersion(k)
         cached == {d \in read.docs : d[1] = v}
     IN \E fetched \in IF cached # {} THEN cached ELSE {<<v, Offers(v)>>, <<v, {}>>} :
          Do([read EXCEPT !.kinds = Tail(@), !.docs = @ \cup {fetched},
                          !.supported = IF k \in fetched[2] THEN @ \cup {k} ELSE @,
                          !.pages = IF cached = {} THEN @ + 1 ELSE @])

AnswerCapabilities ==
  read.step = "kind" /\ read.kinds = << >> /\ Do(Answer("capabilities"))
-----------------------------------------------------------------------------
\* list_cancelled
BeginList ==
  /\ read.step = "idle"
  /\ \E n \in {m \in 0..KubeMaxLimit : ValidLimit(m)} :
       Do([read EXCEPT !.op = "list", !.step = "page", !.limit = n])

\* After the pages: sort by namespace and name, keep the first `limit`.
KubeListed(k) ==
  LET kept == {o \in k.items : Cardinality({p \in k.items : p < o}) < k.limit}
  IN [k EXCEPT !.step = "done", !.answer = "list", !.returned = kept,
               !.result_truncated = Cardinality(k.items) > k.limit]

\* The rest of the loop's body, with a page of `items` and a token, 0 for none.
KubeApplyPageTrustingServer(k, requested, items, token) ==
  LET more == [k EXCEPT !.pages = @ + 1, !.items = @ \cup items, !.token = token,
                        !.seen = @ \cup {token}]
  IN IF token = 0 THEN KubeListed(more)
     ELSE IF more.pages >= KubeMaxPages THEN KubeListed([more EXCEPT !.source_truncated = TRUE])
     ELSE more

ApplyPageSilently(k, requested, items, token) ==
  LET more == [k EXCEPT !.pages = @ + 1, !.items = @ \cup items, !.token = token,
                        !.seen = @ \cup {token}]
  IN IF Cardinality(items) > requested \/ token \in k.seen
     THEN [k EXCEPT !.step = "done", !.answer = "invalid_response"]
     ELSE IF token = 0 \/ more.pages >= KubeMaxPages THEN KubeListed(more)
     ELSE more

KubeApplyPage(k, requested, items, token) ==
  LET more == [k EXCEPT !.pages = @ + 1, !.items = @ \cup items, !.token = token,
                        !.seen = @ \cup {token}]
  IN IF Cardinality(items) > requested \/ (token # 0 /\ token \in k.seen)
     THEN [k EXCEPT !.step = "done", !.answer = "invalid_response"]
     ELSE IF token = 0 THEN KubeListed(more)
     ELSE IF more.pages >= KubeMaxPages THEN KubeListed([more EXCEPT !.source_truncated = TRUE])
     ELSE more

\* A page: the server takes its snapshot with the first one and hands out its
\* objects in any split, over the limit at worst; it ends the list only when nothing
\* is left.  Token n is the one given with page n, a smaller one a repetition.
KubeReadPage ==
  /\ read.step = "page"
  /\ LET snapshot == IF read.pages = 0 THEN stored ELSE read.snapshot
         rest == snapshot \ read.items
         remaining == MaxInspected - Cardinality(read.items)
         requested == Min({remaining, KubePageSize})
     IN IF remaining = 0
        THEN Do(KubeListed([read EXCEPT !.source_truncated = read.token # 0]))
        ELSE \E items \in SUBSET rest, token \in 0..(read.pages + 1) :
               /\ Cardinality(items) <= KubePageSize + 1
               /\ token = 0 => items = rest
               /\ Do(KubeApplyPage([read EXCEPT !.snapshot = snapshot], requested, items, token))

\* An object of the list cannot be normalised.
NormalizeFails == read.step = "page" /\ read.pages > 0 /\ Do(Answer("invalid_response"))
-----------------------------------------------------------------------------
\* External: the cluster changes.  A uid is never used twice.
ReplacePod ==
  /\ read.op \in {"none", "logs"} /\ uids < KubeMaxUid
  /\ uids' = uids + 1
  /\ \E ks \in SUBSET Containers : pod' = [uid |-> uids + 1, containers |-> ks]
  /\ UNCHANGED <<stored, offered, read>>

DeletePod ==
  /\ read.op \in {"none", "logs"} /\ pod.uid # 0
  /\ pod' = [uid |-> 0, containers |-> {}]
  /\ UNCHANGED <<uids, stored, offered, read>>

\* A list is served from its snapshot: later changes no longer reach it.
ChangeObjects ==
  /\ read.op = "list" /\ read.step # "done" /\ read.pages = 0
  /\ stored' \in SUBSET Objects
  /\ UNCHANGED <<pod, uids, offered, read>>

ChangeApis ==
  /\ read.op = "capabilities" /\ read.step # "done"
  /\ offered' \in SUBSET Kinds
  /\ UNCHANGED <<pod, uids, stored, read>>

KubeClientStep ==
  \/ KubeRefuseInput \/ BeginGet \/ GetObject \/ GetOther
  \/ BeginLogs \/ KubeReadPod \/ KubeReadLog \/ CheckPodAgain
  \/ BeginCapabilities \/ Judge \/ AnswerCapabilities
  \/ BeginList \/ KubeReadPage \/ NormalizeFails
  \/ KubeRequestFails

KubeNext == KubeClientStep \/ ReplacePod \/ DeletePod \/ ChangeObjects \/ ChangeApis

KubeSpec == KubeInit /\ [][KubeNext]_kubeVars
-----------------------------------------------------------------------------
\* The text of an answered log request is the log of the pod whose uid was asked
\* for, though logs are read by name and the pod can be replaced at any moment
\* (client.rs:223-252).
LogsOfTheAskedPod == read.answer = "logs" => read.text = read.uid

\* A list that does not say it is truncated holds every object of the server's
\* snapshot, and one that does keeps the first ones by name (client.rs:316-404).
ListTellsWhatIsMissing ==
  read.answer = "list" =>
    /\ read.items \subseteq read.snapshot
    /\ ~read.source_truncated => read.items = read.snapshot
    /\ ~read.result_truncated => read.returned = read.items
    /\ \A o \in read.items \ read.returned : \A p \in read.returned : p < o

\* Whatever the server hands out, a list reads at most MaxPages pages and keeps at
\* most MaxInspected objects; a repeated token or an over-full page ends it as an
\* error (client.rs:332-378).
KubeListBounded ==
  /\ read.op = "list" => read.pages <= KubeMaxPages /\ Cardinality(read.items) <= MaxInspected
  /\ read.answer = "list" => read.pages = Cardinality(read.seen)

\* Kinds of one API version are all judged on one discovery document, though the
\* cluster gains and loses kinds meanwhile: a version is asked for once
\* (client.rs:130-154).
JudgedOnOneDocument ==
  /\ \A d, e \in read.docs : d[1] = e[1] => d = e
  /\ read.op = "capabilities" =>
       /\ read.pages = Cardinality(read.docs)
       /\ read.supported \subseteq UNION {d[2] : d \in read.docs}

\* A resource that is answered is the one that was asked for, kind, namespace and
\* name, though the server is told a path only (client.rs:189-201, object_path).
GetIsExact == read.answer = "resource" => read.served = read.asked
=============================================================================
