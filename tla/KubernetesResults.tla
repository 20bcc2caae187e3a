--------------------------- MODULE KubernetesResults ---------------------------
(***************************************************************************)
(* What the Kubernetes tools keep of an object                             *)
(* (src/integrations/kubernetes/normalize.rs): the messages of events,     *)
(* which are cut twice, the lists of a pod (container statuses and         *)
(* conditions), and the containers of a pod's metrics.  Entries are read   *)
(* one by one, as the loops do.  Fields that are copied or left out on     *)
(* their own are not modelled.                                             *)
(***************************************************************************)
EXTENDS Integers, SequencesExt

CONSTANTS
  MaxMessage,     \* bytes of one message
  Budget,         \* bytes of all messages of a result
  MaxStatuses, MaxConditions, MaxContainers,
  MaxChars,       \* bound on the characters of a message
  MaxEvents, KubeMaxEntries,   \* bounds on the length of what is read
  Restarts,       \* restart counts
  MaxCount        \* the largest 64-bit number

ASSUME SizesAssumption ==
  {MaxMessage, Budget, MaxStatuses, MaxConditions, MaxContainers, MaxChars, MaxEvents,
   KubeMaxEntries, MaxCount} \cup Restarts \subseteq Nat

VARIABLES
  loop,           \* what is being read
  source,         \* what was read of it
  out,            \* what is kept of events, statuses and conditions
  details,        \* what is kept of containers
  pos, left,      \* bound_event_messages: the next event and the bytes that are left
  kubeTotal,      \* the pod's restarts, or the containers returned
  kubeTruncated,  \* the flag of the result
  kubeVerdict

kubeVars == <<loop, source, out, details, pos, left, kubeTotal, kubeTruncated, kubeVerdict>>

\* A character takes one byte or several.
Bytes(chars) == SumFunction(chars)
Prefix(chars, k) == SubSeq(chars, 1, k)

\* A message: its characters and, unless 0, which of them is a control character.  An event
\* without a message fares like one that starts with a control character.
Messages ==
  UNION {[chars : [1..n -> {1, 2}], control : 0..n] : n \in 0..MaxChars}

KubeInit ==
  /\ loop \in {"events", "statuses", "conditions", "containers"}
  /\ source = <<>> /\ out = <<>> /\ details = {} /\ pos = 0 /\ left = Budget /\ kubeTotal = 0
  /\ kubeTruncated = FALSE /\ kubeVerdict = "reading"
-----------------------------------------------------------------------------
(* Events.                                                                 *)

TruncateAnywhere(chars, max) == IF Len(chars) < max THEN Len(chars) ELSE max

\* truncate_utf8: how many characters remain; the cut goes back to the start of one.
TruncateUtf8(chars, max) ==
  CHOOSE k \in 0..Len(chars) :
    /\ Bytes(Prefix(chars, k)) <= max
    /\ k = Len(chars) \/ Bytes(Prefix(chars, k + 1)) > max

\* add_truncated_text: a message is left out if what remains of it has a control character.
Event(m) ==
  LET k == TruncateUtf8(m.chars, MaxMessage) IN
  IF m.control \in 1..k
  THEN [message |-> FALSE, kept |-> 0, truncated |-> FALSE]
  ELSE [message |-> TRUE, kept |-> k, truncated |-> k < Len(m.chars)]

\* An event without name or namespace spoils the result.
ReadEvent ==
  /\ loop = "events" /\ pos = 0 /\ kubeVerdict = "reading" /\ Len(source) < MaxEvents
  /\ \/ \E m \in Messages :
          source' = Append(source, m) /\ out' = Append(out, Event(m)) /\ UNCHANGED kubeVerdict
     \/ kubeVerdict' = "invalid_response" /\ UNCHANGED <<source, out>>
  /\ UNCHANGED <<loop, details, pos, left, kubeTotal, kubeTruncated>>

BeginBound ==
  /\ loop = "events" /\ pos = 0 /\ kubeVerdict = "reading"
  /\ pos' = 1
  /\ UNCHANGED <<loop, details, source, out, left, kubeTotal, kubeTruncated, kubeVerdict>>

BoundUnflagged(e, chars) ==
  LET k == TruncateUtf8(Prefix(chars, e.kept), left) IN
  [event |-> [e EXCEPT !.kept = k], cut |-> k < e.kept]

BoundWhole(e, chars) ==
  LET fits == Bytes(Prefix(chars, e.kept)) <= left IN
  [event |-> IF fits THEN e ELSE [e EXCEPT !.kept = 0, !.truncated = TRUE], cut |-> ~fits]

\* One event of bound_event_messages: a message for which nothing is left is removed, one for
\* which too little is left is cut.
Bound(e, chars) ==
  LET k == TruncateUtf8(Prefix(chars, e.kept), left) IN
  IF ~e.message THEN [event |-> e, cut |-> FALSE]
  ELSE IF left = 0
  THEN [event |-> [message |-> FALSE, kept |-> 0, truncated |-> TRUE], cut |-> TRUE]
  ELSE [event |-> [e EXCEPT !.kept = k, !.truncated = @ \/ k < e.kept], cut |-> k < e.kept]

BoundNext ==
  /\ loop = "events" /\ pos \in 1..Len(out) /\ kubeVerdict = "reading"
  /\ LET b == Bound(out[pos], source[pos].chars) IN
       /\ out' = [out EXCEPT ![pos] = b.event]
       /\ left' = left - Bytes(Prefix(source[pos].chars, b.event.kept))
       /\ kubeTruncated' = (kubeTruncated \/ b.cut)
  /\ pos' = pos + 1
  /\ UNCHANGED <<loop, details, source, kubeTotal, kubeVerdict>>
-----------------------------------------------------------------------------
(* The lists of a pod.                                                     *)

Groups == <<"init", "application", "ephemeral">>
Cap == IF loop = "statuses" THEN MaxStatuses ELSE MaxConditions

\* take, then filter_map: an entry that is no good counts against the limit.
Take(ok) == ok /\ Len(source) < Cap

AddWrapping(n) == (kubeTotal + n) % (MaxCount + 1)

\* restart_count: saturating.
Add(n) == IF kubeTotal + n > MaxCount THEN MaxCount ELSE kubeTotal + n

\* normalize_container_statuses: the groups one after the other; and restart_count, which
\* takes all of them.
ReadStatus ==
  /\ loop = "statuses" /\ kubeVerdict = "reading" /\ Len(source) < KubeMaxEntries
  /\ \E g \in 1..Len(Groups), ok \in BOOLEAN, n \in Restarts :
       /\ source # <<>> => Last(source).group <= g
       /\ source' = Append(source, [group |-> g, ok |-> ok, restarts |-> n])
       /\ out' = IF Take(ok) THEN Append(out, Len(source) + 1) ELSE out
       /\ kubeTotal' = Add(n)
       /\ kubeTruncated' = (Len(source) + 1 > Cap)
  /\ UNCHANGED <<loop, details, pos, left, kubeVerdict>>

\* normalize_conditions, which has no flag.
ReadCondition ==
  /\ loop = "conditions" /\ kubeVerdict = "reading" /\ Len(source) < KubeMaxEntries
  /\ \E ok \in BOOLEAN :
       /\ source' = Append(source, [ok |-> ok])
       /\ out' = IF Take(ok) THEN Append(out, Len(source) + 1) ELSE out
  /\ UNCHANGED <<loop, details, pos, left, kubeTotal, kubeTruncated, kubeVerdict>>
-----------------------------------------------------------------------------
(* normalize_pod_metric.  `details` is a map: an entry that is inserted    *)
(* again is overwritten, and one that is not inserted stays.               *)

\* The fields that are good enter under the index of the container; what they say is `of`
\* which container of the source.
Insert(c, index) ==
  LET fields == {f \in {"name", "cpu", "memory"} : c[f]} IN
  {d \in details : d.index # index \/ d.field \notin fields}
    \cup {[index |-> index, field |-> f, of |-> Len(source) + 1] : f \in fields}

IndexUnmoved(c) == IF c.cpu THEN kubeTotal + 1 ELSE kubeTotal

\* `returned`, after a container was inserted.
NextIndex(c) == kubeTotal + 1

ReadContainer ==
  /\ loop = "containers" /\ kubeVerdict = "reading" /\ Len(source) < KubeMaxEntries
  /\ \E c \in [name : BOOLEAN, cpu : BOOLEAN, memory : BOOLEAN] :
       /\ source' = Append(source, c)
       /\ IF c.name /\ Len(source) < MaxContainers
          THEN details' = Insert(c, kubeTotal) /\ kubeTotal' = NextIndex(c)
          ELSE UNCHANGED <<details, kubeTotal>>
       /\ kubeTruncated' = (Len(source) + 1 > MaxContainers)
  /\ UNCHANGED <<loop, out, pos, left, kubeVerdict>>
-----------------------------------------------------------------------------
KubeEnd ==
  /\ kubeVerdict = "reading"
  /\ loop = "events" => pos = Len(out) + 1
  /\ kubeVerdict' = "ok"
  /\ UNCHANGED <<loop, details, source, out, pos, left, kubeTotal, kubeTruncated>>

KubeNext ==
  \/ ReadEvent \/ BeginBound \/ BoundNext
  \/ ReadStatus \/ ReadCondition \/ ReadContainer \/ KubeEnd

KubeSpec == KubeInit /\ [][KubeNext]_kubeVars
-----------------------------------------------------------------------------
(* Properties.                                                             *)

\* Every variable keeps its type.
TypeOK ==
  /\ loop \in {"events", "statuses", "conditions", "containers"}
  /\ kubeVerdict \in {"reading", "ok", "invalid_response"}
  /\ pos \in 0..(MaxEvents + 1) /\ left \in 0..Budget /\ kubeTotal \in Nat
  /\ kubeTruncated \in BOOLEAN
  /\ Len(out) <= Len(source)

Done(l) == loop = l /\ kubeVerdict = "ok"
KubeSize(i) == Bytes(Prefix(source[i].chars, out[i].kept))

\* "One result will contain at most 32 KiB of Event message text", each message at most
\* 1,024 bytes (docs/kubernetes/spec/queries-resources.md).
MessagesBounded ==
  Done("events") =>
    /\ Bytes([i \in 1..Len(out) |-> KubeSize(i)]) <= Budget
    /\ \A i \in 1..Len(out) : KubeSize(i) <= MaxMessage

\* "Truncation will preserve valid UTF-8 and will remain explicit": an event says that it
\* was truncated exactly if its message or characters of it are missing, other than for a
\* control character; the result says so exactly if the budget took some.
TruncationExplicit ==
  Done("events") =>
    /\ \A i \in 1..Len(out) :
         out[i].truncated = ( /\ Event(source[i]).message
                              /\ ~out[i].message \/ out[i].kept < Len(source[i].chars) )
    /\ kubeTruncated = \E i \in 1..Len(out) :
             Event(source[i]).message /\ (~out[i].message \/ out[i].kept < Event(source[i]).kept)

\* Nothing is cut that would have fitted: after a message the budget cut, what is left is
\* less than its next character.
NoNeedlessCut ==
  Done("events") =>
    \A i \in 1..Len(out) :
      out[i].kept < Event(source[i]).kept =>
        Bytes([j \in 1..i |-> KubeSize(j)]) + source[i].chars[out[i].kept + 1] > Budget

\* "at most 32 lifecycle statuses in Kubernetes source order", with count, returned and
\* truncated, and "Conditions will contain at most 20 entries": of the statuses a caller sees
\* all there is, or the numbers tell; and the restarts of the pod count every container, the
\* ones beyond the limit too, without overflow.
PodListsAccounted ==
  /\ loop \in {"statuses", "conditions"} =>
       /\ Len(out) <= Cap
       /\ \A i, j \in 1..Len(out) : i < j => out[i] < out[j]
  /\ Done("statuses") =>
       /\ ~kubeTruncated => ToSet(out) = {i \in 1..Len(source) : source[i].ok}
       /\ kubeTruncated => ToSet(out) # 1..Len(source)
       /\ LET sum == SumFunction([i \in 1..Len(source) |-> source[i].restarts])
          IN  kubeTotal = IF sum > MaxCount THEN MaxCount ELSE sum

\* The name, CPU and memory under one index are those of one container, the indices run
\* from 0 to the number returned, and no container is returned twice.
MetricsBelongTogether ==
  loop = "containers" =>
    /\ {d.index : d \in details} = 0..(kubeTotal - 1)
    /\ \A d, e \in details : d.index = e.index <=> d.of = e.of
    /\ \A d \in details : \E e \in details : e.index = d.index /\ e.field = "name"

\* Texts and lists are cut at their limits, no earlier, visibly, and their parts stay
\* together (normalize.rs:453-500, 570-640, 690-760).
KubernetesCutsExact ==
  /\ TypeOK /\ MessagesBounded /\ TruncationExplicit /\ NoNeedlessCut
  /\ PodListsAccounted /\ MetricsBelongTogether
=============================================================================
