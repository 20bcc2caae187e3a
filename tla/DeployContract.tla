--------------------------- MODULE DeployContract ---------------------------
(***************************************************************************)
(* What the deploy runner promises its callers (docs/deploys/spec/         *)
(* deploys.md), without tasks, channels or processes: one deploy at a      *)
(* time, at most one execution for each call and no retry, and an answer   *)
(* that never denies an execution that happened.                           *)
(***************************************************************************)
EXTENDS Naturals

CONSTANT Calls

VARIABLES
  open,      \* the service runs
  slot,      \* the call that occupies the service, if any
  ran,       \* the calls whose deploy was started on the machine
  verdict,   \* what the service knows about the deploy of a call
  told       \* what the caller was told

cvars == <<open, slot, ran, verdict, told>>

Verdicts == {"not_executed", "unknown", "completed"}

Init ==
  /\ open = TRUE
  /\ slot = {}
  /\ ran = {}
  /\ verdict = [c \in Calls |-> "none"]
  /\ told = [c \in Calls |-> "none"]

Fresh(c) == verdict[c] = "none" /\ told[c] = "none" /\ c \notin ran

Refuse(c) ==
  /\ open /\ slot # {} /\ c \notin slot /\ Fresh(c)
  /\ told' = [told EXCEPT ![c] = "not_executed"]
  /\ UNCHANGED <<open, slot, ran, verdict>>

Admit(c) ==
  /\ open /\ slot = {} /\ Fresh(c)
  /\ slot' = {c}
  /\ UNCHANGED <<open, ran, verdict, told>>

Reject(c) ==
  /\ open /\ slot = {c} /\ Fresh(c)
  /\ slot' = {}
  /\ told' = [told EXCEPT ![c] = "not_executed"]
  /\ UNCHANGED <<open, ran, verdict>>

Start(c) ==
  /\ open /\ slot = {c} /\ Fresh(c)
  /\ ran' = ran \cup {c}
  /\ UNCHANGED <<open, slot, verdict, told>>

Decide(c, v) ==
  /\ open /\ slot = {c} /\ verdict[c] = "none" /\ told[c] = "none"
  /\ (v = "not_executed") <=> (c \notin ran)
  /\ verdict' = [verdict EXCEPT ![c] = v]
  /\ UNCHANGED <<open, slot, ran, told>>

Tell(c) ==
  /\ open /\ verdict[c] # "none" /\ told[c] = "none"
  /\ told' = [told EXCEPT ![c] = verdict[c]]
  /\ UNCHANGED <<open, slot, ran, verdict>>

Leave(c) ==
  /\ open /\ slot = {c} /\ verdict[c] # "none"
  /\ slot' = {}
  /\ UNCHANGED <<open, ran, verdict, told>>

Close ==
  /\ open
  /\ open' = FALSE
  /\ slot' = {}
  /\ UNCHANGED <<ran, verdict, told>>

Next ==
  \/ \E c \in Calls :
       \/ Refuse(c) \/ Admit(c) \/ Reject(c) \/ Start(c) \/ Tell(c) \/ Leave(c)
       \/ \E v \in Verdicts : Decide(c, v)
  \/ Close

Spec == Init /\ [][Next]_cvars

=============================================================================
