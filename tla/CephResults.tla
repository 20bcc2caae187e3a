------------------------------ MODULE CephResults ------------------------------
(***************************************************************************)
(* What the Ceph queries make of the Dashboard's JSON                      *)
(* (src/integrations/ceph/normalize.rs).  A response is built up entry by  *)
(* entry and then normalised at once.  The lists differ in whether they    *)
(* are cut with a "truncated" mark or refused when they are too long, and  *)
(* in whether they are sorted out before or after they are checked.        *)
(***************************************************************************)
EXTENDS Integers, SequencesExt, Ascending

CONSTANTS
  CephLimits,    \* limits asked for
  MaxChecks,     \* MAX_HEALTH_CHECKS
  MaxTasks,      \* MAX_TASKS_PER_STATE
  MaxValues,     \* 16, 32, 64 or 100: the bound of bounded_strings and bounded_scalars
  CephMaxEntries \* bound on the entries of a response

ASSUME CephLimitsAssumption ==
  CephLimits \subseteq Nat \ {0} /\ {MaxChecks, MaxTasks, MaxValues} \subseteq Nat

VARIABLES
  cephTool, cephLimit,
  entries,    \* external: the entries of the list; of tasks, the executing ones
  finished,   \* external: tasks that have finished
  cephVerdict,    \* "responding", "ok", "invalid_response" or "not_found"
  kept,       \* indices of the entries returned; of tasks, the executing ones
  resultFinished,
  cephTruncated,
  counts      \* metrics: OSDs up and in

cephVars == <<cephTool, cephLimit, entries, finished, cephVerdict, kept, resultFinished,
             cephTruncated, counts>>

CephTools == {"status", "metrics", "osds", "devices", "device", "flags", "tasks", "safe_to_destroy"}

\* A text field: absent or null, plain, or one that bounded_string refuses because it is no
\* string, too long or holds a control character.
Texts == {"null", "plain", "refused"}

\* Entries: `class` is what the tool asks of an entry besides its texts.
CephClasses ==
  CASE cephTool = "tasks" -> {"osd/delete", "other"}
    [] cephTool = "flags" -> {"curated", "other"}
    [] cephTool = "metrics" -> {"up_in", "up", "in", "down"}
    [] cephTool = "device" -> {"wanted", "other"}
    [] OTHER -> {"entry"}

\* `id`: whether the id the tool needs is there and of its type.
CephEntries == [class : CephClasses,
                id : IF cephTool \in {"osds", "devices", "device", "tasks"} THEN BOOLEAN ELSE {TRUE},
                text : IF cephTool \in {"metrics", "tasks"} THEN {"plain"} ELSE Texts]

CephInit ==
  /\ cephTool \in CephTools /\ cephLimit \in CephLimits
  /\ entries = <<>> /\ finished = <<>>
  /\ cephVerdict = "responding"
  /\ kept = <<>> /\ resultFinished = <<>> /\ cephTruncated = FALSE
  /\ counts = [total |-> 0, up |-> 0, in |-> 0]

\* External: the Dashboard's response.  It honours the limit it is given, one more than
\* the caller's (client.rs:133-147); the other lists come whole.
Respond ==
  /\ cephVerdict = "responding" /\ Len(entries) + Len(finished) < CephMaxEntries
  /\ \E e \in CephEntries :
       \/ entries' = Append(entries, e) /\ UNCHANGED finished
       \/ cephTool = "tasks" /\ finished' = Append(finished, e) /\ UNCHANGED entries
  /\ UNCHANGED <<cephTool, cephLimit, cephVerdict, kept, resultFinished, cephTruncated, counts>>
-----------------------------------------------------------------------------
First(s, n) == SubSeq(s, 1, IF n < Len(s) THEN n ELSE Len(s))
CephIndices(s) == [i \in 1..Len(s) |-> i]
Which(s, P(_)) == InOrder({i \in 1..Len(s) : P(s[i])})

BoundedStringUnchecked(t) == TRUE

BoundedString(t) == t # "refused"
\* A list of strings or scalars holds no null.
BoundedValue(t) == t = "plain"

Return(r, rf, cut) ==
  /\ cephVerdict' = "ok" /\ kept' = r /\ resultFinished' = rf /\ cephTruncated' = cut
  /\ UNCHANGED counts

RefuseResponse(error) ==
  cephVerdict' = error /\ UNCHANGED <<kept, resultFinished, cephTruncated, counts>>

\* status: the first checks are read, the others only counted.
Status ==
  LET read == First(entries, MaxChecks) IN
  IF \E i \in 1..Len(read) : ~BoundedString(read[i].text) THEN RefuseResponse("invalid_response")
  ELSE Return(CephIndices(read), <<>>, Len(entries) > MaxChecks)

Counts(values) ==
  [total |-> Len(values),
   up |-> Len(SelectSeq(values, LAMBDA e : e.class \in {"up", "up_in"})),
   in |-> Len(SelectSeq(values, LAMBDA e : e.class \in {"in", "up_in"}))]

\* integer, number: absent and null are allowed.
ValidNumber(n) == n \in {"null", "number"}

\* metrics: a value that should be a number and is none spoils the answer; the OSDs are
\* only counted.
Metrics ==
  \E n \in {"null", "number", "other"} :
    IF ~ValidNumber(n) THEN RefuseResponse("invalid_response")
    ELSE /\ cephVerdict' = "ok" /\ counts' = Counts(entries)
         /\ UNCHANGED <<kept, resultFinished, cephTruncated>>

OsdListUncounted(values) ==
  LET read == First(values, cephLimit) IN
  IF \E i \in 1..Len(read) : ~read[i].id \/ ~BoundedString(read[i].text)
  THEN RefuseResponse("invalid_response")
  ELSE Return(CephIndices(read), <<>>, Len(values) >= cephLimit)

\* osd_list, devices: entries past the limit are not read.
OsdList(values) ==
  LET read == First(values, cephLimit) IN
  IF \E i \in 1..Len(read) : ~read[i].id \/ ~BoundedString(read[i].text)
  THEN RefuseResponse("invalid_response")
  ELSE Return(CephIndices(read), <<>>, Len(values) > cephLimit)

\* device: the first with the id, and only that one is read.
Device ==
  LET same == Which(entries, LAMBDA e : e.class = "wanted" /\ e.id) IN
  IF same = <<>> THEN RefuseResponse("not_found")
  ELSE IF ~BoundedString(entries[same[1]].text) THEN RefuseResponse("invalid_response")
  ELSE Return(<<same[1]>>, <<>>, FALSE)

FlagsFilteredFirst ==
  LET curated == Which(entries, LAMBDA e : e.class = "curated") IN
  IF Len(curated) > MaxValues \/ \E i \in Range(curated) : ~BoundedValue(entries[i].text)
  THEN RefuseResponse("invalid_response")
  ELSE Return(curated, <<>>, FALSE)

\* flags: every flag counts and is checked, the curated ones are returned.
Flags ==
  IF Len(entries) > MaxValues \/ \E i \in 1..Len(entries) : ~BoundedValue(entries[i].text)
  THEN RefuseResponse("invalid_response")
  ELSE Return(Which(entries, LAMBDA e : e.class = "curated"), <<>>, FALSE)

\* safe_to_destroy: a list that is too long is refused, since nothing may be left out of it.
SafeToDestroy ==
  IF Len(entries) > MaxValues \/ \E i \in 1..Len(entries) : ~BoundedValue(entries[i].text)
  THEN RefuseResponse("invalid_response")
  ELSE Return(CephIndices(entries), <<>>, FALSE)

TaskLimit == IF cephLimit < MaxTasks THEN cephLimit ELSE MaxTasks

\* tasks: other tasks are left out before the limit counts; all deletions are read.
TaskLists ==
  LET deletes(s) == Which(s, LAMBDA e : e.class = "osd/delete")
  IN  IF \E s \in {entries, finished} : \E i \in Range(deletes(s)) : ~s[i].id
      THEN RefuseResponse("invalid_response")
      ELSE Return(First(deletes(entries), TaskLimit), First(deletes(finished), TaskLimit),
                  Len(deletes(entries)) > TaskLimit \/ Len(deletes(finished)) > TaskLimit)

Normalize ==
  /\ cephVerdict = "responding"
  /\ CASE cephTool = "status" -> Status
       [] cephTool = "metrics" -> Metrics
       [] cephTool = "osds" -> OsdList(First(entries, cephLimit + 1))
       [] cephTool = "devices" -> OsdList(entries)
       [] cephTool = "device" -> Device
       [] cephTool = "flags" -> Flags
       [] cephTool = "safe_to_destroy" -> SafeToDestroy
       [] cephTool = "tasks" -> TaskLists
  /\ UNCHANGED <<cephTool, cephLimit, entries, finished>>

CephNext == Respond \/ Normalize

CephSpec == CephInit /\ [][CephNext]_cephVars
-----------------------------------------------------------------------------
(* Properties.                                                             *)

Shown(e) ==
  CASE cephTool = "tasks" -> e.class = "osd/delete"
    [] cephTool = "flags" -> e.class = "curated"
    [] cephTool = "device" -> e.class = "wanted" /\ e.id
    [] OTHER -> TRUE

\* "truncated" is the truth: without it, everything the Dashboard has of what the tool
\* shows was returned; with it, something was left out.  What is returned are the first,
\* in the Dashboard's order (normalize.rs:9-33, 94-102, 141-156, 186-222).
TruncatedIsTheTruth ==
  cephVerdict = "ok" /\ cephTool \notin {"metrics", "device"} =>
        LET all == Which(entries, Shown)
            allFinished == Which(finished, Shown)
        IN  /\ kept = First(all, Len(kept))
            /\ resultFinished = First(allFinished, Len(resultFinished))
            /\ cephTruncated = (Len(kept) < Len(all) \/ Len(resultFinished) < Len(allFinished))

\* Nothing is returned unchecked: of every entry in the answer the texts are bounded and
\* the id is there, also when flags or tasks beside it were left out
\* (normalize.rs:94-120, 178-222, 354-393).
ReturnedWereChecked ==
  cephVerdict = "ok" =>
        /\ \A k \in 1..Len(kept) :
             /\ cephTool # "tasks" => entries[kept[k]].text # "refused"
             /\ cephTool \in {"tasks", "osds", "devices", "device"} => entries[kept[k]].id
        /\ \A k \in 1..Len(resultFinished) : finished[resultFinished[k]].id

\* A flag that is not curated still has to be well formed, and too many of them are
\* refused: "truncated" is never needed (normalize.rs:178-184, 330-352).
FlagsRefusedWhole ==
  cephVerdict = "ok" /\ cephTool \in {"flags", "safe_to_destroy"} =>
        Len(entries) <= MaxValues /\ \A i \in 1..Len(entries) : entries[i].text = "plain"

\* A list is what the Dashboard sent, cut where it says, checked where it is returned.
CephListsExact == TruncatedIsTheTruth /\ ReturnedWereChecked /\ FlagsRefusedWhole
=============================================================================
