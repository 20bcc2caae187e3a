----------------------------- MODULE ClientsProofs -----------------------------
(***************************************************************************)
(* The four clients, each for any number of calls and permits, and then    *)
(* together.  In order: the Ceph Dashboard client, the kubectl runner, the *)
(* Tekton client, the Grafana client, and what MCClients states of all     *)
(* four.  Each client has an inductive invariant of its own; the permits   *)
(* and counters are sizes of sets of calls, so a step of one call changes  *)
(* each of them by what that call contributes.                             *)
(***************************************************************************)
EXTENDS MCClients, FiniteSetTheorems, TLAPS

(***************************************************************************)
(* The Ceph Dashboard client for any number of calls, permits and tokens.  *)
(* CephInv is inductive: it ties the progress mark that the deadline reads *)
(* to the request on the wire and to what the Dashboard may still do with  *)
(* it, and the count of permits to the calls that hold one.                *)
(***************************************************************************)

\* The calls that hold a permit.
CephInUse == {c \in CephCalls : pc[c] \in {"login", "sent"}}

\* A call that is on the way to its request: before the first one nothing was sent, and a
\* mutation is never on the way twice.
CephApproachInv(c) ==
  /\ pc[c] = "idle" => kind[c] = "query" /\ leg[c] = "query" /\ sends[c] = 0
  /\ pc[c] \in {"auth", "login", "ready"} => sends[c] \in {0, 1}
  /\ pc[c] = "invalidate" => sends[c] = 1 /\ leg[c] = "query"
  /\ pc[c] \in {"auth", "login", "ready"} /\ leg[c] = "mutation" =>
       sends[c] = 0 /\ ~progress[c]
  /\ pc[c] \notin {"sent", "done"} => wire[c] = "none"
  /\ pc[c] # "done" => outcome[c] = None

\* The leg of a call, the progress mark and what the Dashboard has done or may still do.
CephProgressInv(c) ==
  /\ kind[c] = "mutation" => leg[c] = "mutation" \/ pc[c] = "idle"
  /\ kind[c] = "query" => leg[c] = "query"
  /\ leg[c] = "mutation" /\ kind[c] = "removal" => safe[c]
  /\ progress[c] => leg[c] = "mutation"
  /\ ~progress[c] => cephApplied[c] = 0 /\ ~(leg[c] = "mutation" /\ wire[c] = "request")
  /\ wire[c] \in {"request", "401", "403", "404", "4xx"} => cephApplied[c] = 0
  /\ cephApplied[c] <= 1

\* A definite error of a call is the truth, and its place tells whether it has the mutex.
CephCallInv(c) ==
  /\ CephApproachInv(c) /\ CephProgressInv(c)
  /\ (lock = c) <=> (pc[c] = "login")
  /\ pc[c] = "login" => token = 0
  /\ kind[c] # "query" /\ outcome[c] \in CephDefinite =>
       cephApplied[c] = 0 /\ ~(leg[c] = "mutation" /\ wire[c] = "request")

\* The permits in use are counted by the calls at "login" and "sent".
CephCountInv ==
  IsFiniteSet(CephInUse) /\ cephPermits = CephPermits - Cardinality(CephInUse)

CephInv ==
  /\ CephTypeOK /\ CephCountInv
  /\ \A c \in CephCalls : CephCallInv(c)

-----------------------------------------------------------------------------
(* Permits.                                                                *)

\* Whether a call at v holds a permit, as a number.
CephHolds(v) == IF v \in {"login", "sent"} THEN 1 ELSE 0

\* A step that moves one call and gives back or takes the permit its move asks for keeps
\* the count; a permit it takes must be there.
LEMMA CephPermitStep ==
  ASSUME CephInv, NEW c \in CephCalls, NEW v, pc' = Upd(pc, c, v),
         cephPermits' = (cephPermits + CephHolds(pc[c])) - CephHolds(v), cephPermits' >= 0
  PROVE  CephCountInv' /\ cephPermits' \in 0..CephPermits
<1> USE DEF CephInv
<1>1. /\ IsFiniteSet(CephInUse) /\ Cardinality(CephInUse) \in Nat
      /\ cephPermits = CephPermits - Cardinality(CephInUse)
  BY FS_CardinalityType DEF CephCountInv
<1>2. \A d \in CephCalls : pc'[d] = IF d = c THEN v ELSE pc[d]
  BY DEF CephTypeOK, Upd
<1>3. cephPermits \in 0..CephPermits /\ CephPermits \in Nat
  BY CephPermitsAssumption DEF CephTypeOK
<1>4. CASE v \in {"login", "sent"}
  <2>1. CephInUse' = CephInUse \cup {c}
    BY <1>2, <1>4 DEF CephInUse
  <2>2. c \in CephInUse <=> pc[c] \in {"login", "sent"}
    BY DEF CephInUse
  <2>3. /\ IsFiniteSet(CephInUse \cup {c})
        /\ Cardinality(CephInUse \cup {c}) =
             IF c \in CephInUse THEN Cardinality(CephInUse)
             ELSE Cardinality(CephInUse) + 1
    BY <1>1, FS_AddElement
  <2>4. Cardinality(CephInUse') \in Nat
    BY <2>1, <2>3, <1>1
  <2> QED
    BY <1>1, <1>3, <1>4, <2>1, <2>2, <2>3, <2>4 DEF CephHolds, CephCountInv
<1>5. CASE v \notin {"login", "sent"}
  <2>1. CephInUse' = CephInUse \ {c}
    BY <1>2, <1>5 DEF CephInUse
  <2>2. c \in CephInUse <=> pc[c] \in {"login", "sent"}
    BY DEF CephInUse
  <2>3. /\ IsFiniteSet(CephInUse \ {c})
        /\ Cardinality(CephInUse \ {c}) =
             IF c \in CephInUse THEN Cardinality(CephInUse) - 1
             ELSE Cardinality(CephInUse)
    BY <1>1, FS_RemoveElement
  <2>4. IsFiniteSet(CephInUse') /\ Cardinality(CephInUse') \in Nat
    BY <2>1, <2>3, FS_CardinalityType
  <2> QED
    BY <1>1, <1>3, <1>5, <2>1, <2>2, <2>3, <2>4 DEF CephHolds, CephCountInv
<1> QED
  BY <1>4, <1>5

\* A step that moves no call and leaves the permits alone keeps it too.
LEMMA CephPermitFrame ==
  ASSUME CephInv, UNCHANGED <<pc, cephPermits>>
  PROVE  CephCountInv' /\ cephPermits' \in 0..CephPermits
<1>1. CephInUse' = CephInUse
  BY DEF CephInUse
<1> QED
  BY <1>1 DEF CephInv, CephTypeOK, CephCountInv

-----------------------------------------------------------------------------
(* Calls.                                                                  *)

\* A call is untouched by a step that leaves its own state alone, gives the mutex neither
\* to it nor takes it away, and obtains no token while it logs in.
LEMMA CephOtherCall ==
  ASSUME CephInv, NEW d \in CephCalls,
         pc'[d] = pc[d], kind'[d] = kind[d], leg'[d] = leg[d], sends'[d] = sends[d],
         progress'[d] = progress[d], wire'[d] = wire[d], cephApplied'[d] = cephApplied[d],
         safe'[d] = safe[d], outcome'[d] = outcome[d],
         (lock' = d) <=> (lock = d), pc[d] = "login" => token' = 0
  PROVE  CephCallInv(d)'
BY DEF CephInv, CephCallInv, CephApproachInv, CephProgressInv

\* The outcomes of a call, apart from "no answer yet".
LEMMA CephOutcomeFacts ==
  /\ None \notin CephDefinite /\ None \notin CephOutcomes /\ None \notin CephCalls
  /\ CephDefinite \subseteq CephOutcomes /\ LoginErrors \subseteq CephDefinite
  /\ "mutation_outcome_unknown" \notin CephDefinite /\ "ok" \notin CephDefinite
  /\ "cancelled" \notin CephDefinite
  /\ {"mutation_outcome_unknown", "ok", "cancelled", "timeout", "capacity_exhausted",
      "unsafe_to_destroy"} \subseteq CephOutcomes
BY CephAbsenceAssumption DEF CephOutcomes, CephDefinite, LoginErrors

\* A call begins.
LEMMA CephBeginStep ==
  ASSUME CephInv, NEW c \in CephCalls, NEW k \in Kinds, CephBegin(c, k)
  PROVE  CephInv'
<1>1. CephCountInv' /\ cephPermits' \in 0..CephPermits
  <2>1. /\ pc' = Upd(pc, c, "auth")
        /\ cephPermits' = (cephPermits + CephHolds(pc[c])) - CephHolds("auth")
        /\ cephPermits' >= 0
    BY DEF CephBegin, CephHolds, CephInv, CephTypeOK
  <2> QED
    BY <2>1, CephPermitStep
<1>2. CephTypeOK'
  BY <1>1, CephOutcomeFacts, LoginsAssumption DEF CephBegin, CephInv, CephTypeOK, CephCallInv,
     CephApproachInv, CephProgressInv, Upd, Kinds, Responses
<1>3. CephCallInv(c)'
  BY CephOutcomeFacts
  DEF CephBegin, CephInv, CephTypeOK, CephCallInv, CephApproachInv, CephProgressInv, Upd,
      Kinds, Responses
<1>4. \A d \in CephCalls \ {c} : CephCallInv(d)'
  BY CephOtherCall, CephOutcomeFacts DEF CephBegin, CephInv, CephTypeOK, CephCallInv, Upd
<1> QED
  BY <1>1, <1>2, <1>3, <1>4 DEF CephInv

\* A call takes the cached token.
LEMMA CephUseCachedStep ==
  ASSUME CephInv, NEW c \in CephCalls, UseCached(c)
  PROVE  CephInv'
<1>1. CephCountInv' /\ cephPermits' \in 0..CephPermits
  <2>1. /\ pc' = Upd(pc, c, "ready")
        /\ cephPermits' = (cephPermits + CephHolds(pc[c])) - CephHolds("ready")
        /\ cephPermits' >= 0
    BY DEF UseCached, CephHolds, CephInv, CephTypeOK
  <2> QED
    BY <2>1, CephPermitStep
<1>2. CephTypeOK'
  BY <1>1, CephOutcomeFacts, LoginsAssumption DEF UseCached, CephInv, CephTypeOK, CephCallInv,
     CephApproachInv, CephProgressInv, Upd, Kinds, Responses
<1>3. CephCallInv(c)'
  BY CephOutcomeFacts
  DEF UseCached, CephInv, CephTypeOK, CephCallInv, CephApproachInv, CephProgressInv, Upd,
      Kinds, Responses
<1>4. \A d \in CephCalls \ {c} : CephCallInv(d)'
  BY CephOtherCall, CephOutcomeFacts DEF UseCached, CephInv, CephTypeOK, CephCallInv, Upd
<1> QED
  BY <1>1, <1>2, <1>3, <1>4 DEF CephInv

\* A call takes the mutex and a permit for its login, or ends for want of a permit.
LEMMA CephStartLoginStep ==
  ASSUME CephInv, NEW c \in CephCalls, StartLogin(c)
  PROVE  CephInv'
<1>1. CephCountInv' /\ cephPermits' \in 0..CephPermits
  <2>1. /\ pc' = Upd(pc, c, IF cephPermits = 0 THEN "done" ELSE "login")
        /\ cephPermits' = (cephPermits + CephHolds(pc[c]))
                          - CephHolds(IF cephPermits = 0 THEN "done" ELSE "login")
        /\ cephPermits' >= 0
    BY DEF StartLogin, CephFinish, CephHolds, CephInv, CephTypeOK
  <2> QED
    BY <2>1, CephPermitStep
<1>2. CephTypeOK'
  BY <1>1, CephOutcomeFacts, LoginsAssumption DEF StartLogin, CephFinish, CephInv, CephTypeOK,
     CephCallInv, CephApproachInv, CephProgressInv, Upd, Kinds, Responses
<1>3. CephCallInv(c)'
  BY CephOutcomeFacts
  DEF StartLogin, CephFinish, CephInv, CephTypeOK, CephCallInv, CephApproachInv,
      CephProgressInv, Upd, Kinds, Responses
<1>4. \A d \in CephCalls \ {c} : CephCallInv(d)'
  BY CephOtherCall, CephOutcomeFacts
  DEF StartLogin, CephFinish, CephInv, CephTypeOK, CephCallInv, Upd
<1> QED
  BY <1>1, <1>2, <1>3, <1>4 DEF CephInv

\* A login succeeds: nobody else is in a login, so nobody else's token is lost.
LEMMA CephLoginSucceedsStep ==
  ASSUME CephInv, NEW c \in CephCalls, LoginSucceeds(c)
  PROVE  CephInv'
<1>1. CephCountInv' /\ cephPermits' \in 0..CephPermits
  <2>1. /\ pc' = Upd(pc, c, "ready")
        /\ cephPermits' = (cephPermits + CephHolds(pc[c])) - CephHolds("ready")
        /\ cephPermits' >= 0
    BY DEF LoginSucceeds, CephHolds, CephInv, CephTypeOK
  <2> QED
    BY <2>1, CephPermitStep
<1>2. CephTypeOK'
  BY <1>1, CephOutcomeFacts, LoginsAssumption
  DEF LoginSucceeds, CephInv, CephTypeOK, CephCallInv, CephApproachInv, CephProgressInv, Upd,
      Kinds, Responses
<1>3. CephCallInv(c)'
  BY CephOutcomeFacts
  DEF LoginSucceeds, CephInv, CephTypeOK, CephCallInv, CephApproachInv, CephProgressInv, Upd,
      Kinds, Responses
<1>4. \A d \in CephCalls \ {c} : CephCallInv(d)'
  BY CephOtherCall, CephOutcomeFacts DEF LoginSucceeds, CephInv, CephTypeOK, CephCallInv, Upd
<1> QED
  BY <1>1, <1>2, <1>3, <1>4 DEF CephInv

\* A login fails: nothing was sent.
LEMMA CephLoginFailsStep ==
  ASSUME CephInv, NEW c \in CephCalls, LoginFails(c)
  PROVE  CephInv'
<1>1. CephCountInv' /\ cephPermits' \in 0..CephPermits
  <2>1. /\ pc' = Upd(pc, c, "done")
        /\ cephPermits' = (cephPermits + CephHolds(pc[c])) - CephHolds("done")
        /\ cephPermits' >= 0
    BY DEF LoginFails, CephFinish, CephHolds, CephInv, CephTypeOK
  <2> QED
    BY <2>1, CephPermitStep
<1>2. CephTypeOK'
  BY <1>1, CephOutcomeFacts, LoginsAssumption DEF LoginFails, CephFinish, CephInv, CephTypeOK,
     CephCallInv, CephApproachInv, CephProgressInv, Upd, Kinds, Responses
<1>3. CephCallInv(c)'
  BY CephOutcomeFacts
  DEF LoginFails, CephFinish, CephInv, CephTypeOK, CephCallInv, CephApproachInv,
      CephProgressInv, Upd, Kinds, Responses
<1>4. \A d \in CephCalls \ {c} : CephCallInv(d)'
  BY CephOtherCall, CephOutcomeFacts
  DEF LoginFails, CephFinish, CephInv, CephTypeOK, CephCallInv, Upd
<1> QED
  BY <1>1, <1>2, <1>3, <1>4 DEF CephInv

\* The request goes out, marked as a mutation or not, or the call ends for want of a permit.
LEMMA CephSendStep ==
  ASSUME CephInv, NEW c \in CephCalls, CephSend(c)
  PROVE  CephInv'
<1>1. CephCountInv' /\ cephPermits' \in 0..CephPermits
  <2>1. /\ pc' = Upd(pc, c, IF cephPermits = 0 THEN "done" ELSE "sent")
        /\ cephPermits' = (cephPermits + CephHolds(pc[c]))
                          - CephHolds(IF cephPermits = 0 THEN "done" ELSE "sent")
        /\ cephPermits' >= 0
    BY DEF CephSend, CephFinish, CephHolds, CephInv, CephTypeOK
  <2> QED
    BY <2>1, CephPermitStep
<1>2. CephTypeOK'
  <2>1. CASE cephPermits = 0
    BY <2>1, <1>1, CephOutcomeFacts
    DEF CephSend, CephFinish, CephInv, CephTypeOK, CephCallInv, CephApproachInv,
        CephProgressInv, Upd
  <2>2. CASE cephPermits # 0 /\ leg[c] = "mutation"
    <3>1. progress' = Upd(progress, c, TRUE)
      BY <2>2 DEF CephSend
    <3> QED
      BY <2>2, <3>1, <1>1, CephOutcomeFacts
      DEF CephSend, CephInv, CephTypeOK, CephCallInv, CephApproachInv, CephProgressInv, Upd,
          Responses
  <2>3. CASE cephPermits # 0 /\ leg[c] = "query"
    <3>1. progress' = Upd(progress, c, FALSE)
      BY <2>3 DEF CephSend
    <3> QED
      BY <2>3, <3>1, <1>1, CephOutcomeFacts
      DEF CephSend, CephInv, CephTypeOK, CephCallInv, CephApproachInv, CephProgressInv, Upd,
          Responses
  <2> QED
    BY <2>1, <2>2, <2>3 DEF CephInv, CephTypeOK
<1>3. CephCallInv(c)'
  <2>1. CASE cephPermits = 0
    BY <2>1, CephOutcomeFacts
    DEF CephSend, CephFinish, CephInv, CephTypeOK, CephCallInv, CephApproachInv,
        CephProgressInv, Upd
  <2>2. CASE cephPermits # 0 /\ leg[c] = "mutation"
    <3>1. progress' = Upd(progress, c, TRUE)
      BY <2>2 DEF CephSend
    <3> QED
      BY <2>2, <3>1, CephOutcomeFacts
      DEF CephSend, CephInv, CephTypeOK, CephCallInv, CephApproachInv, CephProgressInv, Upd,
          Responses
  <2>3. CASE cephPermits # 0 /\ leg[c] = "query"
    <3>1. progress' = Upd(progress, c, FALSE)
      BY <2>3 DEF CephSend
    <3> QED
      BY <2>3, <3>1, CephOutcomeFacts
      DEF CephSend, CephInv, CephTypeOK, CephCallInv, CephApproachInv, CephProgressInv, Upd,
          Responses
  <2> QED
    BY <2>1, <2>2, <2>3 DEF CephInv, CephTypeOK
<1>4. \A d \in CephCalls \ {c} : CephCallInv(d)'
  BY CephOtherCall, CephOutcomeFacts
  DEF CephSend, CephFinish, CephInv, CephTypeOK, CephCallInv, Upd
<1> QED
  BY <1>1, <1>2, <1>3, <1>4 DEF CephInv

\* A query is refused for the first time.
LEMMA CephUnauthorizedStep ==
  ASSUME CephInv, NEW c \in CephCalls, Unauthorized(c)
  PROVE  CephInv'
<1>1. CephCountInv' /\ cephPermits' \in 0..CephPermits
  <2>1. /\ pc' = Upd(pc, c, "invalidate")
        /\ cephPermits' = (cephPermits + CephHolds(pc[c])) - CephHolds("invalidate")
        /\ cephPermits' >= 0
    BY DEF Unauthorized, TakeResponse, CephHolds, CephInv, CephTypeOK
  <2> QED
    BY <2>1, CephPermitStep
<1>2. CephTypeOK'
  BY <1>1, CephOutcomeFacts, LoginsAssumption
  DEF Unauthorized, TakeResponse, CephInv, CephTypeOK, CephCallInv, CephApproachInv,
      CephProgressInv, Upd, Kinds, Responses
<1>3. CephCallInv(c)'
  BY CephOutcomeFacts
  DEF Unauthorized, TakeResponse, CephInv, CephTypeOK, CephCallInv, CephApproachInv,
      CephProgressInv, Upd, Kinds, Responses
<1>4. \A d \in CephCalls \ {c} : CephCallInv(d)'
  BY CephOtherCall, CephOutcomeFacts
  DEF Unauthorized, TakeResponse, CephInv, CephTypeOK, CephCallInv, Upd
<1> QED
  BY <1>1, <1>2, <1>3, <1>4 DEF CephInv

\* The refused token is dropped if it is still there; nobody is in a login.
LEMMA CephInvalidateStep ==
  ASSUME CephInv, NEW c \in CephCalls, Invalidate(c)
  PROVE  CephInv'
<1>1. CephCountInv' /\ cephPermits' \in 0..CephPermits
  <2>1. /\ pc' = Upd(pc, c, "auth")
        /\ cephPermits' = (cephPermits + CephHolds(pc[c])) - CephHolds("auth")
        /\ cephPermits' >= 0
    BY DEF Invalidate, CephHolds, CephInv, CephTypeOK
  <2> QED
    BY <2>1, CephPermitStep
<1>2. CephTypeOK'
  BY <1>1, CephOutcomeFacts, LoginsAssumption DEF Invalidate, CephInv, CephTypeOK, CephCallInv,
     CephApproachInv, CephProgressInv, Upd, Kinds, Responses
<1>3. CephCallInv(c)'
  BY CephOutcomeFacts
  DEF Invalidate, CephInv, CephTypeOK, CephCallInv, CephApproachInv, CephProgressInv, Upd,
      Kinds, Responses
<1>4. \A d \in CephCalls \ {c} : CephCallInv(d)'
  BY CephOtherCall, CephOutcomeFacts DEF Invalidate, CephInv, CephTypeOK, CephCallInv, Upd
<1> QED
  BY <1>1, <1>2, <1>3, <1>4 DEF CephInv

\* safe-to-destroy answers: the call goes on to its mutation or ends.
LEMMA CephCheckSafeStep ==
  ASSUME CephInv, NEW c \in CephCalls, CheckSafe(c)
  PROVE  CephInv'
<1>1. CephCountInv' /\ cephPermits' \in 0..CephPermits
  <2>1. /\ pc' = Upd(pc, c, IF wire[c] = "ok" THEN "auth" ELSE "done")
        /\ cephPermits' = (cephPermits + CephHolds(pc[c]))
                          - CephHolds(IF wire[c] = "ok" THEN "auth" ELSE "done")
        /\ cephPermits' >= 0
    BY DEF CheckSafe, TakeResponse, CephFinish, CephHolds, CephInv, CephTypeOK
  <2> QED
    BY <2>1, CephPermitStep
<1>2. CephTypeOK'
  <2>1. CASE wire[c] = "ok"
    BY <2>1, <1>1, CephOutcomeFacts, LoginsAssumption
    DEF CheckSafe, TakeResponse, CephFinish, CephInv, CephTypeOK, CephCallInv, CephApproachInv,
        CephProgressInv, Upd, Kinds, Responses
  <2>2. CASE wire[c] # "ok"
    BY <2>2, <1>1, CephOutcomeFacts, LoginsAssumption
    DEF CheckSafe, TakeResponse, CephFinish, CephInv, CephTypeOK, CephCallInv, CephApproachInv,
        CephProgressInv, Upd, Kinds, Responses
  <2> QED
    BY <2>1, <2>2
<1>3. CephCallInv(c)'
  <2>1. CASE wire[c] = "ok"
    <3>1. safe' = Upd(safe, c, TRUE)
      BY <2>1 DEF CheckSafe
    <3> QED
      BY <2>1, <3>1, CephOutcomeFacts
      DEF CheckSafe, TakeResponse, CephInv, CephTypeOK, CephCallInv, CephApproachInv,
          CephProgressInv, Upd
  <2>2. CASE wire[c] # "ok"
    BY <2>2, CephOutcomeFacts
    DEF CheckSafe, TakeResponse, CephFinish, CephInv, CephTypeOK, CephCallInv, CephApproachInv,
        CephProgressInv, Upd
  <2> QED
    BY <2>1, <2>2
<1>4. \A d \in CephCalls \ {c} : CephCallInv(d)'
  BY CephOtherCall, CephOutcomeFacts
  DEF CheckSafe, TakeResponse, CephFinish, CephInv, CephTypeOK, CephCallInv, Upd
<1> QED
  BY <1>1, <1>2, <1>3, <1>4 DEF CephInv

\* The error of a failed leg is an outcome; of a mutation it is a definite one only if the
\* Dashboard answered that it refused.
LEMMA CephLegErrorFacts ==
  ASSUME NEW c \in CephCalls, NEW r \in Responses \cup {"transport", "timeout"}
  PROVE  /\ LegError(c, r) \in CephOutcomes
         /\ leg[c] = "mutation" /\ LegError(c, r) \in CephDefinite =>
              r \in {"401", "403", "404", "4xx"}
BY DEF LegError, CephOutcomes, CephDefinite, Responses

\* A call ends with its response.
LEMMA CephCompleteStep ==
  ASSUME CephInv, NEW c \in CephCalls, Complete(c)
  PROVE  CephInv'
<1>1. CephCountInv' /\ cephPermits' \in 0..CephPermits
  <2>1. /\ pc' = Upd(pc, c, "done")
        /\ cephPermits' = (cephPermits + CephHolds(pc[c])) - CephHolds("done")
        /\ cephPermits' >= 0
    BY DEF Complete, TakeResponse, CephFinish, CephHolds, CephInv, CephTypeOK
  <2> QED
    BY <2>1, CephPermitStep
<1>2. CephTypeOK'
  BY <1>1, CephLegErrorFacts, CephOutcomeFacts, LoginsAssumption
  DEF Complete, TakeResponse, CephFinish, CephInv, CephTypeOK, CephCallInv, CephApproachInv,
      CephProgressInv, Upd, Kinds, Responses
<1>3. CephCallInv(c)'
  BY CephLegErrorFacts, CephOutcomeFacts
  DEF Complete, TakeResponse, CephFinish, CephInv, CephTypeOK, CephCallInv, CephApproachInv,
      CephProgressInv, Upd, Kinds, Responses
<1>4. \A d \in CephCalls \ {c} : CephCallInv(d)'
  BY CephLegErrorFacts, CephOtherCall, CephOutcomeFacts
  DEF Complete, TakeResponse, CephFinish, CephInv, CephTypeOK, CephCallInv, Upd
<1> QED
  BY <1>1, <1>2, <1>3, <1>4 DEF CephInv

\* A call ends without a response: of a mutation the outcome is unknown.
LEMMA CephSendFailsStep ==
  ASSUME CephInv, NEW c \in CephCalls, SendFails(c)
  PROVE  CephInv'
<1>1. CephCountInv' /\ cephPermits' \in 0..CephPermits
  <2>1. /\ pc' = Upd(pc, c, "done")
        /\ cephPermits' = (cephPermits + CephHolds(pc[c])) - CephHolds("done")
        /\ cephPermits' >= 0
    BY DEF SendFails, CephFinish, CephHolds, CephInv, CephTypeOK
  <2> QED
    BY <2>1, CephPermitStep
<1>2. CephTypeOK'
  BY <1>1, CephLegErrorFacts, CephOutcomeFacts, LoginsAssumption
  DEF SendFails, CephFinish, CephInv, CephTypeOK, CephCallInv, CephApproachInv,
      CephProgressInv, Upd, Kinds, Responses
<1>3. CephCallInv(c)'
  BY CephLegErrorFacts, CephOutcomeFacts
  DEF SendFails, CephFinish, CephInv, CephTypeOK, CephCallInv, CephApproachInv,
      CephProgressInv, Upd, Kinds, Responses
<1>4. \A d \in CephCalls \ {c} : CephCallInv(d)'
  BY CephLegErrorFacts, CephOtherCall, CephOutcomeFacts
  DEF SendFails, CephFinish, CephInv, CephTypeOK, CephCallInv, Upd
<1> QED
  BY <1>1, <1>2, <1>3, <1>4 DEF CephInv

\* A call is dropped, with an outcome that is definite only if no mutation may have been sent.
LEMMA CephDropStep ==
  ASSUME CephInv, NEW c \in CephCalls, NEW o \in CephOutcomes, kind[c] # "query" /\ o \in
         CephDefinite => ~progress[c], DropCall(c, o)
  PROVE  CephInv'
<1>1. CephCountInv' /\ cephPermits' \in 0..CephPermits
  <2>1. /\ pc' = Upd(pc, c, "done")
        /\ cephPermits' = (cephPermits + CephHolds(pc[c])) - CephHolds("done")
        /\ cephPermits' >= 0
    BY DEF DropCall, Awaiting, CephFinish, CephHolds, CephInv, CephTypeOK
  <2> QED
    BY <2>1, CephPermitStep
<1>2. CephTypeOK'
  BY <1>1, CephOutcomeFacts, LoginsAssumption DEF DropCall, Awaiting, CephFinish, CephInv,
     CephTypeOK, CephCallInv, CephApproachInv, CephProgressInv, Upd, Kinds, Responses
<1>3. CephCallInv(c)'
  BY CephOutcomeFacts
  DEF DropCall, Awaiting, CephFinish, CephInv, CephTypeOK, CephCallInv, CephApproachInv,
      CephProgressInv, Upd, Kinds, Responses
<1>4. \A d \in CephCalls \ {c} : CephCallInv(d)'
  BY CephOtherCall, CephOutcomeFacts
  DEF DropCall, Awaiting, CephFinish, CephInv, CephTypeOK, CephCallInv, Upd
<1> QED
  BY <1>1, <1>2, <1>3, <1>4 DEF CephInv

\* The Dashboard refuses a request: it has not applied it.
LEMMA CephRefuseStep ==
  ASSUME CephInv, NEW c \in CephCalls, CephRefuse(c)
  PROVE  CephInv'
<1>1. CephCountInv' /\ cephPermits' \in 0..CephPermits
  BY CephPermitFrame DEF CephRefuse
<1>2. PICK r \in {"401", "403", "404", "4xx", "5xx"} : wire' = Upd(wire, c, r)
  BY DEF CephRefuse
<1>3. CephTypeOK'
  BY <1>1, <1>2 DEF CephRefuse, CephInv, CephTypeOK, Upd, Responses
<1>4. CephCallInv(c)'
  BY <1>2
  DEF CephRefuse, CephInv, CephTypeOK, CephCallInv, CephApproachInv, CephProgressInv, Upd
<1>5. \A d \in CephCalls \ {c} : CephCallInv(d)'
  BY <1>2, CephOtherCall DEF CephRefuse, CephInv, CephTypeOK, CephCallInv, Upd
<1> QED
  BY <1>1, <1>3, <1>4, <1>5 DEF CephInv

\* The Dashboard handles a request, perhaps after the client has given it up.
LEMMA CephHandleStep ==
  ASSUME CephInv, NEW c \in CephCalls, Handle(c)
  PROVE  CephInv'
<1>1. CephCountInv' /\ cephPermits' \in 0..CephPermits
  BY CephPermitFrame DEF Handle
<1>2. PICK r \in {"ok", "unsafe", "accepted", "accepted_no_task", "bad_body", "too_large",
                  "5xx"} : wire' = Upd(wire, c, r)
  BY DEF Handle
<1>3. cephApplied[c] = 0 /\ cephApplied' = IF leg[c] = "mutation" THEN Upd(cephApplied, c, 1)
                                                                    ELSE cephApplied
  BY DEF Handle, CephInv, CephTypeOK, CephCallInv, CephProgressInv
<1>4. CephTypeOK'
  BY <1>1, <1>2, <1>3 DEF Handle, CephInv, CephTypeOK, Upd, Responses
<1>5. CephCallInv(c)'
  BY <1>2, <1>3
  DEF Handle, CephInv, CephTypeOK, CephCallInv, CephApproachInv, CephProgressInv, Upd
<1>6. \A d \in CephCalls \ {c} : CephCallInv(d)'
  BY <1>2, <1>3, CephOtherCall DEF Handle, CephInv, CephTypeOK, CephCallInv, Upd
<1> QED
  BY <1>1, <1>4, <1>5, <1>6 DEF CephInv

-----------------------------------------------------------------------------
(* The specification.                                                      *)

\* CephInv holds before any call.
LEMMA CephInvInit == CephInit => CephInv
<1> SUFFICES ASSUME CephInit PROVE CephInv
  OBVIOUS
<1>1. CephTypeOK
  BY CephPermitsAssumption, LoginsAssumption
  DEF CephInit, CephTypeOK, Kinds, Responses, CephOutcomes
<1>2. CephInUse = {}
  BY DEF CephInit, CephInUse
<1>3. CephCountInv
  BY <1>2, FS_EmptySet, CephPermitsAssumption DEF CephInit, CephCountInv
<1>4. \A c \in CephCalls : CephCallInv(c)
  BY CephOutcomeFacts DEF CephInit, CephCallInv, CephApproachInv, CephProgressInv
<1> QED
  BY <1>1, <1>3, <1>4 DEF CephInv

\* Every step preserves it.
LEMMA CephInvNext == CephInv /\ [CephNext]_cephVars => CephInv'
<1> SUFFICES ASSUME CephInv, [CephNext]_cephVars PROVE CephInv'
  OBVIOUS
<1>1. ASSUME NEW c \in CephCalls, ClientStep(c) PROVE CephInv'
  <2>1. CASE CephDeadline(c)
    BY <2>1, CephDropStep, CephOutcomeFacts DEF CephDeadline
  <2>2. CASE CephCancel(c)
    BY <2>2, CephDropStep, CephOutcomeFacts DEF CephCancel
  <2> QED
    BY <1>1, <2>1, <2>2, CephUseCachedStep, CephStartLoginStep, CephLoginSucceedsStep,
       CephLoginFailsStep, CephSendStep, CephUnauthorizedStep, CephInvalidateStep,
       CephCheckSafeStep, CephCompleteStep, CephSendFailsStep
    DEF ClientStep
<1>2. ASSUME NEW t \in live, CephExpire(t) PROVE CephInv'
  <2>1. CephCountInv' /\ CephTypeOK'
    BY <1>2, CephPermitFrame DEF CephExpire, CephInv, CephTypeOK
  <2>2. \A c \in CephCalls : CephCallInv(c)'
    BY <1>2, CephOtherCall DEF CephExpire, CephInv, CephCallInv
  <2> QED
    BY <2>1, <2>2 DEF CephInv
<1>3. CASE UNCHANGED cephVars
  <2>1. CephCountInv' /\ CephTypeOK'
    BY <1>3, CephPermitFrame DEF cephVars, CephInv, CephTypeOK
  <2>2. \A c \in CephCalls : CephCallInv(c)'
    BY <1>3, CephOtherCall DEF cephVars, CephInv, CephCallInv
  <2> QED
    BY <2>1, <2>2 DEF CephInv
<1> QED
  BY <1>1, <1>2, <1>3, CephBeginStep, CephRefuseStep, CephHandleStep DEF CephNext

\* CephInv is an invariant.
LEMMA CephInvHolds == CephSpec => []CephInv
BY CephInvInit, CephInvNext, PTL DEF CephSpec

\* Variables keep their types, and permits and the mutex around the token are given back on
\* every path: an error, a timeout, a cancelled request and the one retry of a query
\* (client.rs:382-415, 459-575).
THEOREM CephResourcesHold == CephSpec => [](CephTypeOK /\ CephResourcesAccounted)
<1>1. CephInv => CephTypeOK /\ CephResourcesAccounted
  BY DEF CephInv, CephCountInv, CephCallInv, CephInUse, CephResourcesAccounted
<1> QED
  BY <1>1, CephInvHolds, PTL

\* The Dashboard applies a mutation at most once, and a destroy or purge is sent only after
\* safe-to-destroy said so in this call.
THEOREM CephMutationsHold == CephSpec => []CephMutationsSafe
<1>1. CephInv => CephMutationsSafe
  BY DEF CephInv, CephCallInv, CephProgressInv, CephMutationsSafe, AppliedAtMostOnce,
         RemovalOnlyIfSafe
<1> QED
  BY <1>1, CephInvHolds, PTL

\* After a definite error the mutation was not applied, and no request of it is on its way
\* that still could be.
THEOREM CephErrorsHold == CephSpec => []CephDefiniteErrorNotApplied
<1>1. CephInv => CephDefiniteErrorNotApplied
  BY DEF CephInv, CephCallInv, CephDefiniteErrorNotApplied
<1> QED
  BY <1>1, CephInvHolds, PTL

\* A token leaves the cache only through a call that was refused with that very token.
THEOREM CephTokenDropsHold == CephSpec => OnlyRefusedTokenDropped
<1>1. ASSUME CephInv, [CephNext]_cephVars, token # 0, token' # token
      PROVE  \E c \in CephCalls : pc[c] = "invalidate" /\ mine[c] = token
  <2>1. CASE UNCHANGED cephVars
    BY <1>1, <2>1 DEF cephVars
  <2>2. ASSUME NEW c \in CephCalls, ClientStep(c)
        PROVE  pc[c] = "invalidate" /\ mine[c] = token
    <3>1. ~LoginSucceeds(c)
      BY <1>1 DEF LoginSucceeds, CephInv, CephCallInv
    <3> QED
      BY <1>1, <2>2, <3>1
      DEF ClientStep, UseCached, StartLogin, LoginFails, CephSend, Unauthorized, Invalidate,
          CheckSafe, Complete, SendFails, CephDeadline, CephCancel, DropCall
  <2> QED
    BY <1>1, <2>1, <2>2 DEF CephNext, CephBegin, CephRefuse, Handle, CephExpire
<1>2. CephInv /\ [CephNext]_cephVars =>
        [token # 0 /\ token' # token =>
           \E c \in CephCalls : pc[c] = "invalidate" /\ mine[c] = token]_cephVars
  BY <1>1
<1> QED
  BY <1>2, CephInvHolds, PTL DEF CephSpec, OnlyRefusedTokenDropped

-----------------------------------------------------------------------------
(***************************************************************************)
(* The kubectl runner for any number of calls and permits, and whatever    *)
(* kubectl says.  KubectlInv is inductive: it follows the child process    *)
(* from its start to its reaping, next to the results that the worker may  *)
(* send at each point.                                                     *)
(***************************************************************************)

\* The state of a call, as KubectlTypeOK has it.
KubectlRecord ==
  [op : {"query", "mutation"},
   caller : {"idle", "waiting", "cancelling", "done", "dropped"},
   cancel : {"open", "sent", "closed"},
   worker : {"none", "start", "loop", "kill", "sent", "ended"},
   kubectl : {"none", "running", "exited"}, code : Failures \cup {"success", "none"},
   said : SUBSET Phrases, out : {"none", "open", "eof", "failed"},
   err : {"none", "open", "eof", "failed"}, got : SUBSET {"status", "out", "err"},
   timer : {"off", "armed", "expired"}, next : Answers \cup {Nil},
   result : Answers \cup {Nil}, answer : Answers \cup {Nil},
   wire : {"none", "sent", "applied"}]

\* Where caller and worker are, the child runs only under a worker that will reap it, and
\* what was collected of it is there.
ProcessInv(k) ==
  /\ k.caller = "idle" => k.worker = "none" /\ k.code = "none"
  /\ k.caller = "done" => k.worker \in {"none", "sent", "ended"}
  /\ k.worker \in {"none", "start"} => k.kubectl = "none" /\ k.got = {}
  /\ k.kubectl = "running" => k.worker \in {"loop", "kill"}
  /\ "status" \in k.got => k.kubectl = "exited"
  /\ "out" \in k.got => k.out = "eof"
  /\ "err" \in k.got => k.err = "eof"

\* What the worker may return, has returned, and the caller was told, of the child and of
\* the mutation it may have sent.
ResultInv(k) ==
  /\ k.result # Nil => k.worker \in {"sent", "ended"}
  /\ k.answer # Nil => k.caller = "done"
  /\ k.kubectl = "none" => k.wire = "none"
  /\ k.worker = "kill" => k.next \in Answers \ {"ok"}
  /\ k.op = "mutation" =>
       /\ k.code = "success" => k.wire = "applied"
       /\ k.worker = "kill" => k.next = "mutation_outcome_unknown"
       /\ k.result \in KubectlDefinite \/ k.answer \in KubectlDefinite => k.kubectl = "none"
       /\ k.result = "ok" \/ k.answer = "ok" => k.wire = "applied"

\* The calls whose worker runs; each owns a permit.
Working == {c \in KubectlCalls : call[c].worker \notin {"none", "ended"}}
WorkingInv == IsFiniteSet(Working) /\ kubectlPermits + Cardinality(Working) = KubectlPermits

KubectlCallInv(k) == k \in KubectlRecord /\ ProcessInv(k) /\ ResultInv(k)

KubectlInv ==
  /\ kubectlPermits \in 0..KubectlPermits /\ WorkingInv
  /\ call \in [KubectlCalls -> KubectlRecord]
  /\ \A c \in KubectlCalls : KubectlCallInv(call[c])

\* What one step may do to a call: a success comes after the whole output, and the child is
\* started only while the call is not cancelled.
InOrder(k, n) ==
  /\ k.result = Nil /\ n.result = "ok" => k.out = "eof" /\ k.err = "eof"
  /\ k.kubectl = "none" /\ n.kubectl = "running" => k.cancel = "open"

KubectlOrder == \A c \in KubectlCalls : InOrder(call[c], call'[c])

-----------------------------------------------------------------------------
(* The operators of the worker.                                            *)

\* A call stays a call when one of its fields changes; an update of several fields is a
\* sequence of these.
LEMMA FieldUpdates ==
  ASSUME NEW k \in KubectlRecord
  PROVE  /\ \A v \in {"query", "mutation"} : [k EXCEPT !.op = v] \in KubectlRecord
         /\ \A v \in {"idle", "waiting", "cancelling", "done", "dropped"} :
              [k EXCEPT !.caller = v] \in KubectlRecord
         /\ \A v \in {"open", "sent", "closed"} : [k EXCEPT !.cancel = v] \in KubectlRecord
         /\ \A v \in {"none", "start", "loop", "kill", "sent", "ended"} :
              [k EXCEPT !.worker = v] \in KubectlRecord
         /\ \A v \in {"none", "running", "exited"} : [k EXCEPT !.kubectl = v] \in KubectlRecord
         /\ \A v \in Failures \cup {"success", "none"} : [k EXCEPT !.code = v] \in KubectlRecord
         /\ \A v \in SUBSET Phrases : [k EXCEPT !.said = v] \in KubectlRecord
         /\ \A v \in {"none", "open", "eof", "failed"} : [k EXCEPT !.out = v] \in KubectlRecord
         /\ \A v \in {"none", "open", "eof", "failed"} : [k EXCEPT !.err = v] \in KubectlRecord
         /\ \A v \in SUBSET {"status", "out", "err"} : [k EXCEPT !.got = v] \in KubectlRecord
         /\ \A v \in {"off", "armed", "expired"} : [k EXCEPT !.timer = v] \in KubectlRecord
         /\ \A v \in Answers \cup {Nil} : [k EXCEPT !.next = v] \in KubectlRecord
         /\ \A v \in Answers \cup {Nil} : [k EXCEPT !.result = v] \in KubectlRecord
         /\ \A v \in Answers \cup {Nil} : [k EXCEPT !.answer = v] \in KubectlRecord
         /\ \A v \in {"none", "sent", "applied"} : [k EXCEPT !.wire = v] \in KubectlRecord
<1> USE DEF KubectlRecord
<1>1. \A v \in {"query", "mutation"} : [k EXCEPT !.op = v] \in KubectlRecord
  OBVIOUS
<1>2. \A v \in {"idle", "waiting", "cancelling", "done", "dropped"} :
        [k EXCEPT !.caller = v] \in KubectlRecord
  OBVIOUS
<1>3. \A v \in {"open", "sent", "closed"} : [k EXCEPT !.cancel = v] \in KubectlRecord
  OBVIOUS
<1>4. \A v \in {"none", "start", "loop", "kill", "sent", "ended"} :
        [k EXCEPT !.worker = v] \in KubectlRecord
  OBVIOUS
<1>5. \A v \in {"none", "running", "exited"} : [k EXCEPT !.kubectl = v] \in KubectlRecord
  OBVIOUS
<1>6. \A v \in Failures \cup {"success", "none"} : [k EXCEPT !.code = v] \in KubectlRecord
  OBVIOUS
<1>7. \A v \in SUBSET Phrases : [k EXCEPT !.said = v] \in KubectlRecord
  OBVIOUS
<1>8. \A v \in {"none", "open", "eof", "failed"} : [k EXCEPT !.out = v] \in KubectlRecord
  OBVIOUS
<1>9. \A v \in {"none", "open", "eof", "failed"} : [k EXCEPT !.err = v] \in KubectlRecord
  OBVIOUS
<1>10. \A v \in SUBSET {"status", "out", "err"} : [k EXCEPT !.got = v] \in KubectlRecord
  OBVIOUS
<1>11. \A v \in {"off", "armed", "expired"} : [k EXCEPT !.timer = v] \in KubectlRecord
  OBVIOUS
<1>12. \A v \in Answers \cup {Nil} : [k EXCEPT !.next = v] \in KubectlRecord
  OBVIOUS
<1>13. \A v \in Answers \cup {Nil} : [k EXCEPT !.result = v] \in KubectlRecord
  OBVIOUS
<1>14. \A v \in Answers \cup {Nil} : [k EXCEPT !.answer = v] \in KubectlRecord
  OBVIOUS
<1>15. \A v \in {"none", "sent", "applied"} : [k EXCEPT !.wire = v] \in KubectlRecord
  OBVIOUS
<1> HIDE DEF KubectlRecord
<1> QED
  BY <1>1, <1>2, <1>3, <1>4, <1>5, <1>6, <1>7, <1>8, <1>9, <1>10, <1>11, <1>12, <1>13, <1>14,
     <1>15

\* The errors of the runner are answers; of a mutation, only one that kubectl was not
\* started for is definite.
LEMMA FailureFacts ==
  /\ Nil \notin Answers /\ KubectlDefinite \subseteq Answers
  /\ \A op \in {"query", "mutation"}, d \in BOOLEAN :
       /\ KubectlOperationFailure(op, d) \in Answers \ {"ok"}
       /\ StreamFailure(op) \in Answers \ {"ok"}
  /\ KubectlOperationFailure("mutation", TRUE) = "mutation_outcome_unknown"
  /\ StreamFailure("mutation") = "mutation_outcome_unknown"
  /\ "ok" \notin KubectlDefinite /\ "mutation_outcome_unknown" \notin KubectlDefinite
  /\ "request_cancelled" \notin KubectlDefinite
  /\ {"ok", "mutation_outcome_unknown", "request_cancelled", "capacity_exhausted",
      "timeout"} \subseteq Answers
BY KubectlAbsenceAssumption
DEF KubectlOperationFailure, StreamFailure, Answers, KubectlDefinite

\* The result of a finished kubectl is "ok" exactly after a success.
LEMMA ExitResultFacts ==
  ASSUME NEW k \in KubectlRecord
  PROVE  /\ ExitResult(k) \in Answers
         /\ ExitResult(k) = "ok" => k.code = "success"
         /\ k.op = "mutation" => ExitResult(k) \in {"ok", "mutation_outcome_unknown"}
BY DEF ExitResult, ClassifyExit, Answers, KubectlRecord

\* The worker may return r when the child is not running and r is true of the mutation.
LEMMA ReplyFacts ==
  ASSUME NEW k \in KubectlRecord, ProcessInv(k), ResultInv(k), NEW r \in Answers,
         k.worker \in {"start", "loop", "kill"}, k.kubectl # "running", k.caller # "idle",
         k.op = "mutation" => /\ r \in KubectlDefinite => k.kubectl = "none"
                              /\ r = "ok" => k.wire = "applied"
  PROVE  /\ KubectlCallInv(Reply(k, r)) /\ Reply(k, r).worker = "sent"
         /\ Reply(k, r).result = r /\ Reply(k, r).kubectl = k.kubectl
<1> DEFINE n == Reply(k, r)
<1>1. n \in KubectlRecord
  BY FieldUpdates DEF Reply
<1>2. /\ n.worker = "sent" /\ n.result = r /\ n.code = "none" /\ n.got = {}
      /\ n.caller = k.caller /\ n.kubectl = k.kubectl /\ n.op = k.op /\ n.wire = k.wire
      /\ n.answer = k.answer
  BY DEF Reply, KubectlRecord
<1> HIDE DEF n
<1>3. ProcessInv(n)
  BY <1>2 DEF ProcessInv
<1>4. ResultInv(n)
  BY <1>2 DEF ProcessInv, ResultInv
<1> QED
  BY <1>1, <1>2, <1>3, <1>4 DEF KubectlCallInv, n

\* The worker may kill its child with any error, of a mutation with the uncertain one.
LEMMA KillFacts ==
  ASSUME NEW k \in KubectlRecord, ProcessInv(k), ResultInv(k), NEW r \in Answers \ {"ok"},
         k.worker = "loop", k.op = "mutation" => r = "mutation_outcome_unknown"
  PROVE  /\ KubectlCallInv(Kill(k, r)) /\ Kill(k, r).worker = "kill"
         /\ InOrder(k, Kill(k, r))
<1> DEFINE n == Kill(k, r)
<1>1. n \in KubectlRecord
  BY FieldUpdates DEF Kill
<1>2. /\ n.worker = "kill" /\ n.next = r /\ n.result = k.result /\ n.answer = k.answer
      /\ n.caller = k.caller /\ n.kubectl = k.kubectl /\ n.op = k.op /\ n.wire = k.wire
      /\ n.code = k.code /\ n.got = k.got /\ n.out = k.out /\ n.err = k.err
  BY DEF Kill, KubectlRecord
<1> HIDE DEF n
<1>3. ProcessInv(n)
  BY <1>2 DEF ProcessInv
<1>4. ResultInv(n)
  BY <1>2 DEF ProcessInv, ResultInv
<1> QED
  BY <1>1, <1>2, <1>3, <1>4, FailureFacts DEF KubectlCallInv, InOrder, n

\* The loop goes on, or returns what the exit says, once more of the child was collected.
LEMMA SettleFacts ==
  ASSUME NEW k \in KubectlRecord, ProcessInv(k), ResultInv(k), k.worker = "loop"
  PROVE  /\ KubectlCallInv(Settle(k)) /\ Settle(k).worker \in {"loop", "sent"}
         /\ InOrder(k, Settle(k))
<1>1. k.result = Nil /\ k.caller # "idle"
  BY DEF ProcessInv, ResultInv
<1>2. CASE k.got = {"status", "out", "err"}
  <2>1. /\ Settle(k) = Reply(k, ExitResult(k))
        /\ k.kubectl = "exited" /\ k.out = "eof" /\ k.err = "eof"
    BY <1>2 DEF Settle, ProcessInv
  <2>2. k.op = "mutation" /\ ExitResult(k) = "ok" => k.wire = "applied"
    BY ExitResultFacts DEF ResultInv
  <2> QED
    BY <1>1, <2>1, <2>2, ExitResultFacts, ReplyFacts, FailureFacts DEF InOrder
<1>3. CASE k.got # {"status", "out", "err"}
  BY <1>1, <1>3, FailureFacts DEF Settle, KubectlCallInv, InOrder
<1> QED
  BY <1>2, <1>3

-----------------------------------------------------------------------------
(* Permits.                                                                *)

\* Whether the worker of a call owns a permit, as a number.
Owns(k) == IF k.worker \in {"none", "ended"} THEN 0 ELSE 1

\* A step of one call keeps KubectlInv if it keeps the call's part and takes or gives back
\* the permit that its worker gains or loses.
LEMMA KubectlStep ==
  ASSUME KubectlInv, NEW c \in KubectlCalls, NEW k \in KubectlRecord, KubectlCallInv(k),
         InOrder(call[c], k), Set(c, k),
         kubectlPermits' = (kubectlPermits + Owns(call[c])) - Owns(k),
         kubectlPermits' >= 0
  PROVE  KubectlInv' /\ KubectlOrder
<1> USE DEF KubectlInv
<1>1. /\ call' \in [KubectlCalls -> KubectlRecord]
      /\ \A d \in KubectlCalls : call'[d] = IF d = c THEN k ELSE call[d]
  BY DEF Set
<1>2. \A d \in KubectlCalls : ProcessInv(call'[d]) /\ ResultInv(call'[d])
  BY <1>1 DEF KubectlCallInv
<1>3. /\ IsFiniteSet(Working) /\ Cardinality(Working) \in Nat
      /\ kubectlPermits + Cardinality(Working) = KubectlPermits
  BY FS_CardinalityType DEF WorkingInv
<1>4. kubectlPermits \in Nat /\ KubectlPermits \in Nat
  BY KubectlPermitsAssumption
<1>5. c \in Working <=> Owns(call[c]) = 1
  BY DEF Working, Owns
<1>6. KubectlOrder
  BY <1>1, FailureFacts DEF KubectlOrder, InOrder
<1>7. CASE Owns(k) = 1
  <2>1. Working' = Working \cup {c}
    BY <1>1, <1>7 DEF Working, Owns
  <2>2. /\ IsFiniteSet(Working \cup {c})
        /\ Cardinality(Working \cup {c}) =
             IF c \in Working THEN Cardinality(Working) ELSE Cardinality(Working) + 1
    BY <1>3, FS_AddElement
  <2>3. WorkingInv' /\ kubectlPermits' \in 0..KubectlPermits
    BY <1>3, <1>4, <1>5, <1>7, <2>1, <2>2 DEF WorkingInv, Owns
  <2> QED
    BY <1>1, <1>2, <1>6, <2>3
<1>8. CASE Owns(k) = 0
  <2>1. Working' = Working \ {c}
    BY <1>1, <1>8 DEF Working, Owns
  <2>2. /\ IsFiniteSet(Working \ {c}) /\ Cardinality(Working \ {c}) \in Nat
        /\ Cardinality(Working \ {c}) =
             IF c \in Working THEN Cardinality(Working) - 1 ELSE Cardinality(Working)
    BY <1>3, FS_RemoveElement, FS_CardinalityType
  <2>3. WorkingInv' /\ kubectlPermits' \in 0..KubectlPermits
    BY <1>3, <1>4, <1>5, <1>8, <2>1, <2>2 DEF WorkingInv, Owns
  <2> QED
    BY <1>1, <1>2, <1>6, <2>3
<1> QED
  BY <1>7, <1>8 DEF Owns

-----------------------------------------------------------------------------
(* The steps.                                                              *)

\* The caller takes the result.
LEMMA ReceiveStep ==
  ASSUME KubectlInv, NEW c \in KubectlCalls, KubectlReceive(c)
  PROVE  KubectlInv' /\ KubectlOrder
<1> DEFINE k == call[c]
<1> DEFINE n == [k EXCEPT !.caller = "done", !.answer = k.result, !.result = Nil,
                          !.cancel = "closed"]
<1>0. k.result \in Answers
  BY DEF KubectlInv, KubectlReceive, KubectlRecord
<1>1. k \in KubectlRecord /\ ProcessInv(k) /\ ResultInv(k)
  BY DEF KubectlInv, KubectlCallInv
<1>2. n \in KubectlRecord
  BY <1>1, <1>0, FieldUpdates DEF KubectlReceive
<1>3. ProcessInv(n) /\ ResultInv(n) /\ InOrder(k, n)
  BY <1>1, <1>0, FailureFacts DEF KubectlReceive, ProcessInv, ResultInv, InOrder, KubectlRecord
<1>4. Set(c, n) /\ kubectlPermits' = (kubectlPermits + Owns(k)) - Owns(n) /\ kubectlPermits' >= 0
  BY <1>1 DEF KubectlReceive, ProcessInv, Owns, KubectlInv, KubectlRecord
<1> QED
  BY <1>2, <1>3, <1>4, KubectlStep DEF KubectlCallInv

\* The request is cancelled while its caller waits.
LEMMA CancelStep ==
  ASSUME KubectlInv, NEW c \in KubectlCalls, KubectlCancel(c)
  PROVE  KubectlInv' /\ KubectlOrder
<1> DEFINE k == call[c]
<1> DEFINE n == [k EXCEPT !.caller = "cancelling", !.cancel = "sent"]
<1>1. k \in KubectlRecord /\ ProcessInv(k) /\ ResultInv(k)
  BY DEF KubectlInv, KubectlCallInv
<1>2. n \in KubectlRecord
  BY <1>1, FieldUpdates DEF KubectlCancel
<1>3. ProcessInv(n) /\ ResultInv(n) /\ InOrder(k, n)
  BY <1>1, FailureFacts DEF KubectlCancel, ProcessInv, ResultInv, InOrder, KubectlRecord
<1>4. Set(c, n) /\ kubectlPermits' = (kubectlPermits + Owns(k)) - Owns(n) /\ kubectlPermits' >= 0
  BY <1>1 DEF KubectlCancel, ProcessInv, Owns, KubectlInv, KubectlRecord
<1> QED
  BY <1>2, <1>3, <1>4, KubectlStep DEF KubectlCallInv

\* A cancelled caller has waited for its worker.
LEMMA FinishCancelStep ==
  ASSUME KubectlInv, NEW c \in KubectlCalls, FinishCancel(c)
  PROVE  KubectlInv' /\ KubectlOrder
<1> DEFINE k == call[c]
<1> DEFINE n == [k EXCEPT !.caller = "done", !.result = Nil,
                          !.answer = IF k.op = "query" THEN "request_cancelled"
                                     ELSE "mutation_outcome_unknown"]
<1>1. k \in KubectlRecord /\ ProcessInv(k) /\ ResultInv(k)
  BY DEF KubectlInv, KubectlCallInv
<1>2. n \in KubectlRecord
  BY <1>1, FailureFacts, FieldUpdates DEF FinishCancel
<1>3. ProcessInv(n) /\ ResultInv(n) /\ InOrder(k, n)
  BY <1>1, FailureFacts, FailureFacts
  DEF FinishCancel, ProcessInv, ResultInv, InOrder, KubectlRecord
<1>4. Set(c, n) /\ kubectlPermits' = (kubectlPermits + Owns(k)) - Owns(n) /\ kubectlPermits' >= 0
  BY <1>1 DEF FinishCancel, ProcessInv, Owns, KubectlInv, KubectlRecord
<1> QED
  BY <1>2, <1>3, <1>4, KubectlStep DEF KubectlCallInv

\* The caller is dropped; its worker goes on.
LEMMA DropCallerStep ==
  ASSUME KubectlInv, NEW c \in KubectlCalls, DropCaller(c)
  PROVE  KubectlInv' /\ KubectlOrder
<1> DEFINE k == call[c]
<1> DEFINE n == [k EXCEPT !.caller = "dropped",
                          !.cancel = IF @ = "open" THEN "closed" ELSE @]
<1>1. k \in KubectlRecord /\ ProcessInv(k) /\ ResultInv(k)
  BY DEF KubectlInv, KubectlCallInv
<1>2. n \in KubectlRecord
  BY <1>1, FieldUpdates DEF DropCaller
<1>3. ProcessInv(n) /\ ResultInv(n) /\ InOrder(k, n)
  BY <1>1, FailureFacts DEF DropCaller, ProcessInv, ResultInv, InOrder, KubectlRecord
<1>4. Set(c, n) /\ kubectlPermits' = (kubectlPermits + Owns(k)) - Owns(n) /\ kubectlPermits' >= 0
  BY <1>1 DEF DropCaller, ProcessInv, Owns, KubectlInv, KubectlRecord
<1> QED
  BY <1>2, <1>3, <1>4, KubectlStep DEF KubectlCallInv

\* The worker's task ends and drops its permit.
LEMMA EndWorkerStep ==
  ASSUME KubectlInv, NEW c \in KubectlCalls, EndWorker(c)
  PROVE  KubectlInv' /\ KubectlOrder
<1> DEFINE k == call[c]
<1> DEFINE n == [k EXCEPT !.worker = "ended"]
<1>1. k \in KubectlRecord /\ ProcessInv(k) /\ ResultInv(k)
  BY DEF KubectlInv, KubectlCallInv
<1>2. n \in KubectlRecord
  BY <1>1, FieldUpdates DEF EndWorker
<1>3. ProcessInv(n) /\ ResultInv(n) /\ InOrder(k, n)
  BY <1>1, FailureFacts DEF EndWorker, ProcessInv, ResultInv, InOrder, KubectlRecord
<1>4. Set(c, n) /\ kubectlPermits' = (kubectlPermits + Owns(k)) - Owns(n) /\ kubectlPermits' >= 0
  BY <1>1 DEF EndWorker, ProcessInv, Owns, KubectlInv, KubectlRecord
<1> QED
  BY <1>2, <1>3, <1>4, KubectlStep DEF KubectlCallInv

\* The deadline passes.
LEMMA ExpireStep ==
  ASSUME KubectlInv, NEW c \in KubectlCalls, KubectlExpire(c)
  PROVE  KubectlInv' /\ KubectlOrder
<1> DEFINE k == call[c]
<1> DEFINE n == [k EXCEPT !.timer = "expired"]
<1>1. k \in KubectlRecord /\ ProcessInv(k) /\ ResultInv(k)
  BY DEF KubectlInv, KubectlCallInv
<1>2. n \in KubectlRecord
  BY <1>1, FieldUpdates DEF KubectlExpire
<1>3. ProcessInv(n) /\ ResultInv(n) /\ InOrder(k, n)
  BY <1>1, FailureFacts DEF KubectlExpire, ProcessInv, ResultInv, InOrder, KubectlRecord
<1>4. Set(c, n) /\ kubectlPermits' = (kubectlPermits + Owns(k)) - Owns(n) /\ kubectlPermits' >= 0
  BY <1>1 DEF KubectlExpire, ProcessInv, Owns, KubectlInv, KubectlRecord
<1> QED
  BY <1>2, <1>3, <1>4, KubectlStep DEF KubectlCallInv

\* kubectl sends its mutation.
LEMMA SendsStep ==
  ASSUME KubectlInv, NEW c \in KubectlCalls, KubectlSends(c)
  PROVE  KubectlInv' /\ KubectlOrder
<1> DEFINE k == call[c]
<1> DEFINE n == [k EXCEPT !.wire = "sent"]
<1>1. k \in KubectlRecord /\ ProcessInv(k) /\ ResultInv(k)
  BY DEF KubectlInv, KubectlCallInv
<1>2. n \in KubectlRecord
  BY <1>1, FieldUpdates DEF KubectlSends
<1>3. ProcessInv(n) /\ ResultInv(n) /\ InOrder(k, n)
  BY <1>1, FailureFacts DEF KubectlSends, ProcessInv, ResultInv, InOrder, KubectlRecord
<1>4. Set(c, n) /\ kubectlPermits' = (kubectlPermits + Owns(k)) - Owns(n) /\ kubectlPermits' >= 0
  BY <1>1 DEF KubectlSends, ProcessInv, Owns, KubectlInv, KubectlRecord
<1> QED
  BY <1>2, <1>3, <1>4, KubectlStep DEF KubectlCallInv

\* The API server applies a mutation, perhaps after its kubectl was killed.
LEMMA AppliesStep ==
  ASSUME KubectlInv, NEW c \in KubectlCalls, ServerApplies(c)
  PROVE  KubectlInv' /\ KubectlOrder
<1> DEFINE k == call[c]
<1> DEFINE n == [k EXCEPT !.wire = "applied"]
<1>1. k \in KubectlRecord /\ ProcessInv(k) /\ ResultInv(k)
  BY DEF KubectlInv, KubectlCallInv
<1>2. n \in KubectlRecord
  BY <1>1, FieldUpdates DEF ServerApplies
<1>3. ProcessInv(n) /\ ResultInv(n) /\ InOrder(k, n)
  BY <1>1, FailureFacts DEF ServerApplies, ProcessInv, ResultInv, InOrder, KubectlRecord
<1>4. Set(c, n) /\ kubectlPermits' = (kubectlPermits + Owns(k)) - Owns(n) /\ kubectlPermits' >= 0
  BY <1>1 DEF ServerApplies, ProcessInv, Owns, KubectlInv, KubectlRecord
<1> QED
  BY <1>2, <1>3, <1>4, KubectlStep DEF KubectlCallInv

\* A call begins with a permit, or ends for want of one.
LEMMA KubectlBeginStep ==
  ASSUME KubectlInv, NEW c \in KubectlCalls, NEW op \in {"query", "mutation"},
         KubectlBegin(c, op)
  PROVE  KubectlInv' /\ KubectlOrder
<1> DEFINE k == call[c]
<1>1. k \in KubectlRecord /\ ProcessInv(k) /\ ResultInv(k) /\ k.caller = "idle"
  BY DEF KubectlInv, KubectlCallInv, KubectlBegin
<1>2. CASE kubectlPermits = 0
  <2> DEFINE n == [k EXCEPT !.op = op, !.caller = "done", !.answer = "capacity_exhausted"]
  <2>1. n \in KubectlRecord
    BY <1>1, FieldUpdates, FailureFacts
  <2> HIDE DEF k
  <2>2. /\ n.caller = "done" /\ n.answer = "capacity_exhausted" /\ n.op = op
        /\ n.worker = k.worker /\ n.kubectl = k.kubectl /\ n.got = k.got /\ n.code = k.code
        /\ n.result = k.result /\ n.wire = k.wire
    BY <1>1 DEF KubectlRecord
  <2> HIDE DEF n
  <2>3. ProcessInv(n) /\ ResultInv(n) /\ InOrder(k, n)
    BY <1>1, <2>2, FailureFacts DEF ProcessInv, ResultInv, InOrder
  <2> USE DEF k, n
  <2>4. /\ Set(c, n) /\ kubectlPermits' >= 0
        /\ kubectlPermits' = (kubectlPermits + Owns(k)) - Owns(n)
    BY <1>1, <1>2 DEF KubectlBegin, ProcessInv, Owns, KubectlInv, KubectlRecord
  <2> QED
    BY <2>1, <2>3, <2>4, KubectlStep DEF KubectlCallInv
<1>3. CASE kubectlPermits # 0
  <2> DEFINE n == [k EXCEPT !.op = op, !.caller = "waiting", !.worker = "start"]
  <2>1. n \in KubectlRecord
    BY <1>1, FieldUpdates
  <2> HIDE DEF k
  <2>2. /\ n.caller = "waiting" /\ n.worker = "start" /\ n.op = op
        /\ n.answer = k.answer /\ n.kubectl = k.kubectl /\ n.got = k.got /\ n.code = k.code
        /\ n.result = k.result /\ n.wire = k.wire
    BY <1>1 DEF KubectlRecord
  <2> HIDE DEF n
  <2>3. ProcessInv(n) /\ ResultInv(n) /\ InOrder(k, n)
    BY <1>1, <2>2, FailureFacts DEF ProcessInv, ResultInv, InOrder
  <2> USE DEF k, n
  <2>4. /\ Set(c, n) /\ kubectlPermits' >= 0
        /\ kubectlPermits' = (kubectlPermits + Owns(k)) - Owns(n)
    BY <1>1, <1>3 DEF KubectlBegin, ProcessInv, Owns, KubectlInv, KubectlRecord
  <2> QED
    BY <2>1, <2>3, <2>4, KubectlStep DEF KubectlCallInv
<1> QED
  BY <1>2, <1>3

\* A step of a running worker that stays one: the permit stays with it.
LEMMA WorkerKeepsPermit ==
  ASSUME KubectlInv, NEW c \in KubectlCalls, NEW k, KubectlCallInv(k), InOrder(call[c], k),
         Set(c, k),
         call[c].worker \notin {"none", "ended"}, k.worker \notin {"none", "ended"},
         UNCHANGED kubectlPermits
  PROVE  KubectlInv' /\ KubectlOrder
<1>1. kubectlPermits' = (kubectlPermits + Owns(call[c])) - Owns(k) /\ kubectlPermits' >= 0
  BY DEF Owns, KubectlInv
<1> QED
  BY <1>1, KubectlStep DEF KubectlCallInv

\* The worker starts kubectl, or returns without having started it.
LEMMA StartStep ==
  ASSUME KubectlInv, NEW c \in KubectlCalls, Start(c)
  PROVE  KubectlInv' /\ KubectlOrder
<1> DEFINE k == call[c]
<1>1. /\ k \in KubectlRecord /\ ProcessInv(k) /\ ResultInv(k)
      /\ k.worker = "start" /\ k.kubectl = "none" /\ k.caller # "idle"
  BY DEF KubectlInv, KubectlCallInv, Start, ProcessInv
<1>2. CASE Set(c, Reply(k, KubectlOperationFailure(k.op, FALSE)))
  <2>1. KubectlOperationFailure(k.op, FALSE) \in Answers \ {"ok"}
    BY <1>1, FailureFacts DEF KubectlRecord
  <2>2. /\ KubectlCallInv(Reply(k, KubectlOperationFailure(k.op, FALSE)))
        /\ Reply(k, KubectlOperationFailure(k.op, FALSE)).worker = "sent"
        /\ InOrder(k, Reply(k, KubectlOperationFailure(k.op, FALSE)))
    BY <1>1, <2>1, ReplyFacts DEF InOrder
  <2> QED
    BY <1>1, <1>2, <2>2, WorkerKeepsPermit DEF Start
<1>3. CASE ~Set(c, Reply(k, KubectlOperationFailure(k.op, FALSE)))
  <2> DEFINE n == [k EXCEPT !.worker = "loop", !.kubectl = "running", !.out = "open",
                            !.err = "open", !.timer = "armed"]
  <2>1. n \in KubectlRecord
    BY <1>1, FieldUpdates
  <2>2. Set(c, n) /\ UNCHANGED kubectlPermits /\ k.cancel = "open"
    BY <1>3 DEF Start, CancelVisible
  <2> HIDE DEF k
  <2>3. /\ n.caller = k.caller /\ n.worker = "loop" /\ n.op = k.op
        /\ n.answer = k.answer /\ n.kubectl = "running" /\ n.got = k.got /\ n.code = k.code
        /\ n.result = k.result /\ n.wire = k.wire
    BY <1>1 DEF KubectlRecord
  <2> HIDE DEF n
  <2>4. ProcessInv(n) /\ ResultInv(n) /\ n.worker = "loop" /\ InOrder(k, n)
    BY <1>1, <2>2, <2>3, FailureFacts DEF ProcessInv, ResultInv, InOrder
  <2> USE DEF k, n
  <2> QED
    BY <1>1, <2>1, <2>2, <2>4, WorkerKeepsPermit DEF KubectlCallInv
<1> QED
  BY <1>2, <1>3

\* The worker kills its child, because the call was cancelled or its time is up.
LEMMA StopStep ==
  ASSUME KubectlInv, NEW c \in KubectlCalls, Stop(c)
  PROVE  KubectlInv' /\ KubectlOrder
<1> DEFINE k == call[c]
<1> DEFINE r == IF CancelVisible(k) THEN KubectlOperationFailure(k.op, TRUE)
                ELSE IF k.op = "mutation" THEN "mutation_outcome_unknown" ELSE "timeout"
<1>1. k \in KubectlRecord /\ ProcessInv(k) /\ ResultInv(k) /\ k.worker = "loop"
  BY DEF KubectlInv, KubectlCallInv, Stop
<1>2. r \in Answers \ {"ok"} /\ (k.op = "mutation" => r = "mutation_outcome_unknown")
  BY <1>1, FailureFacts DEF KubectlRecord
<1>3. Set(c, Kill(k, r)) /\ UNCHANGED kubectlPermits
  BY DEF Stop
<1> HIDE DEF r
<1>4. KubectlCallInv(Kill(k, r)) /\ Kill(k, r).worker = "kill" /\ InOrder(k, Kill(k, r))
  BY <1>1, <1>2, KillFacts
<1> QED
  BY <1>1, <1>3, <1>4, WorkerKeepsPermit

\* The child's exit status arrives, or cannot be had.
LEMMA TakeStatusStep ==
  ASSUME KubectlInv, NEW c \in KubectlCalls, TakeStatus(c)
  PROVE  KubectlInv' /\ KubectlOrder
<1> DEFINE k == call[c]
<1>1. /\ k \in KubectlRecord /\ ProcessInv(k) /\ ResultInv(k) /\ k.worker = "loop"
      /\ UNCHANGED kubectlPermits
  BY DEF KubectlInv, KubectlCallInv, TakeStatus
<1>2. CASE StatusReady(k) /\ Set(c, Settle([k EXCEPT !.got = @ \cup {"status"}]))
  <2> DEFINE n == [k EXCEPT !.got = @ \cup {"status"}]
  <2>1. n \in KubectlRecord
    <3>1. k.got \cup {"status"} \in SUBSET {"status", "out", "err"}
      BY <1>1 DEF KubectlRecord
    <3> QED
      BY <1>1, <3>1, FieldUpdates
  <2>2. /\ ProcessInv(n) /\ ResultInv(n) /\ n.worker = "loop" /\ n.result = k.result
        /\ n.out = k.out /\ n.err = k.err /\ n.kubectl = k.kubectl /\ n.cancel = k.cancel
    BY <1>1, <1>2 DEF ProcessInv, ResultInv, KubectlRecord, StatusReady
  <2> HIDE DEF n
  <2>3. /\ KubectlCallInv(Settle(n)) /\ Settle(n).worker \in {"loop", "sent"}
        /\ InOrder(k, Settle(n))
    BY <2>1, <2>2, SettleFacts DEF InOrder
  <2> QED
    BY <1>1, <1>2, <2>3, WorkerKeepsPermit DEF n
<1>3. CASE Set(c, Kill(k, KubectlOperationFailure(k.op, TRUE)))
  <2>1. /\ KubectlOperationFailure(k.op, TRUE) \in Answers \ {"ok"}
        /\ k.op = "mutation" => KubectlOperationFailure(k.op, TRUE) = "mutation_outcome_unknown"
    BY <1>1, FailureFacts DEF KubectlRecord
  <2>2. /\ KubectlCallInv(Kill(k, KubectlOperationFailure(k.op, TRUE)))
        /\ Kill(k, KubectlOperationFailure(k.op, TRUE)).worker = "kill"
        /\ InOrder(k, Kill(k, KubectlOperationFailure(k.op, TRUE)))
    BY <1>1, <2>1, KillFacts
  <2> QED
    BY <1>1, <1>3, <2>2, WorkerKeepsPermit
<1> QED
  BY <1>2, <1>3 DEF TakeStatus

\* A stream was read to its end, or the read failed.
LEMMA TakeStreamStep ==
  ASSUME KubectlInv, NEW c \in KubectlCalls, NEW s \in {"out", "err"}, TakeStream(c, s)
  PROVE  KubectlInv' /\ KubectlOrder
<1> DEFINE k == call[c]
<1>1. /\ k \in KubectlRecord /\ ProcessInv(k) /\ ResultInv(k) /\ k.worker = "loop"
      /\ UNCHANGED kubectlPermits
  BY DEF KubectlInv, KubectlCallInv, TakeStream
<1>2. CASE k[s] = "eof"
  <2> DEFINE n == [k EXCEPT !.got = @ \cup {s}]
  <2>1. n \in KubectlRecord
    <3>1. k.got \cup {s} \in SUBSET {"status", "out", "err"}
      BY <1>1 DEF KubectlRecord
    <3> QED
      BY <1>1, <3>1, FieldUpdates
  <2>2. /\ ProcessInv(n) /\ ResultInv(n) /\ n.worker = "loop" /\ n.result = k.result
        /\ n.out = k.out /\ n.err = k.err /\ n.kubectl = k.kubectl /\ n.cancel = k.cancel
    BY <1>1, <1>2 DEF ProcessInv, ResultInv, KubectlRecord
  <2>3. Set(c, Settle(n))
    BY <1>2 DEF TakeStream
  <2> HIDE DEF n
  <2>4. /\ KubectlCallInv(Settle(n)) /\ Settle(n).worker \in {"loop", "sent"}
        /\ InOrder(k, Settle(n))
    BY <2>1, <2>2, SettleFacts DEF InOrder
  <2> QED
    BY <1>1, <2>3, <2>4, WorkerKeepsPermit
<1>3. CASE k[s] # "eof"
  <2>1. /\ StreamFailure(k.op) \in Answers \ {"ok"}
        /\ k.op = "mutation" => StreamFailure(k.op) = "mutation_outcome_unknown"
    BY <1>1, FailureFacts DEF KubectlRecord
  <2>2. Set(c, Kill(k, StreamFailure(k.op)))
    BY <1>3 DEF TakeStream
  <2>3. /\ KubectlCallInv(Kill(k, StreamFailure(k.op)))
        /\ Kill(k, StreamFailure(k.op)).worker = "kill"
        /\ InOrder(k, Kill(k, StreamFailure(k.op)))
    BY <1>1, <2>1, KillFacts
  <2> QED
    BY <1>1, <2>2, <2>3, WorkerKeepsPermit
<1> QED
  BY <1>2, <1>3

\* The killed child is reaped, and the worker returns what it had decided.
LEMMA ReapStep ==
  ASSUME KubectlInv, NEW c \in KubectlCalls, Reap(c)
  PROVE  KubectlInv' /\ KubectlOrder
<1> DEFINE k == call[c]
<1> DEFINE n == [k EXCEPT !.kubectl = "exited"]
<1>1. /\ k \in KubectlRecord /\ ProcessInv(k) /\ ResultInv(k) /\ k.worker = "kill"
      /\ Set(c, Reply(n, k.next)) /\ UNCHANGED kubectlPermits
  BY DEF KubectlInv, KubectlCallInv, Reap
<1>2. n \in KubectlRecord
  BY <1>1, FieldUpdates
<1> HIDE DEF k
<1>3. /\ n.worker = "kill" /\ n.kubectl = "exited" /\ n.op = k.op /\ n.caller = k.caller
      /\ n.code = k.code /\ n.got = k.got /\ n.out = k.out /\ n.err = k.err
      /\ n.next = k.next /\ n.result = k.result /\ n.answer = k.answer /\ n.wire = k.wire
  BY <1>1 DEF KubectlRecord
<1> HIDE DEF n
<1>4. /\ k.next \in Answers \ {"ok"} /\ k.caller # "idle" /\ k.caller # "done"
      /\ k.op = "mutation" => k.next = "mutation_outcome_unknown"
  BY <1>1 DEF ResultInv, ProcessInv
<1>5. ProcessInv(n) /\ ResultInv(n)
  BY <1>1, <1>3, <1>4, FailureFacts DEF ProcessInv, ResultInv
<1>6. /\ KubectlCallInv(Reply(n, k.next)) /\ Reply(n, k.next).worker = "sent"
      /\ InOrder(k, Reply(n, k.next))
  BY <1>2, <1>3, <1>4, <1>5, ReplyFacts, FailureFacts DEF InOrder
<1> QED
  BY <1>1, <1>6, WorkerKeepsPermit DEF k

\* kubectl exits, with success only after the server's answer.
LEMMA ExitsStep ==
  ASSUME KubectlInv, NEW c \in KubectlCalls, KubectlExits(c)
  PROVE  KubectlInv' /\ KubectlOrder
<1> DEFINE k == call[c]
<1>1. /\ k \in KubectlRecord /\ ProcessInv(k) /\ ResultInv(k) /\ k.worker = "loop"
      /\ k.kubectl = "running" /\ UNCHANGED kubectlPermits
  BY DEF KubectlInv, KubectlCallInv, KubectlExits
<1>2. PICK code \in Failures \cup {"success"}, said \in SUBSET Phrases :
        /\ Set(c, [k EXCEPT !.kubectl = "exited", !.code = code, !.said = said])
        /\ k.op = "mutation" /\ code = "success" => k.wire = "applied"
  <2>1. CASE /\ k.op = "mutation" => k.wire = "applied"
             /\ Set(c, [k EXCEPT !.kubectl = "exited", !.code = "success"])
    <3>1. /\ k.said \in SUBSET Phrases
          /\ [k EXCEPT !.kubectl = "exited", !.code = "success", !.said = k.said]
               = [k EXCEPT !.kubectl = "exited", !.code = "success"]
      BY <1>1 DEF KubectlRecord
    <3> QED
      BY <2>1, <3>1
  <2>2. ASSUME NEW code \in Failures, NEW said \in Stderrs,
               Set(c, [k EXCEPT !.kubectl = "exited", !.code = code, !.said = said])
        PROVE  code # "success" /\ said \in SUBSET Phrases
    BY StderrsAssumption DEF Failures
  <2> QED
    BY <2>1, <2>2 DEF KubectlExits
<1> DEFINE n == [k EXCEPT !.kubectl = "exited", !.code = code, !.said = said]
<1>3. n \in KubectlRecord
  BY <1>1, FieldUpdates
<1> HIDE DEF k
<1>4. /\ n.worker = "loop" /\ n.kubectl = "exited" /\ n.op = k.op /\ n.caller = k.caller
      /\ n.code = code /\ n.got = k.got /\ n.out = k.out /\ n.err = k.err
      /\ n.result = k.result /\ n.answer = k.answer /\ n.wire = k.wire
  BY <1>1 DEF KubectlRecord
<1> HIDE DEF n
<1>5. k.caller # "idle" /\ k.result = Nil /\ k.answer = Nil
  BY <1>1 DEF ProcessInv, ResultInv
<1>6. ProcessInv(n) /\ ResultInv(n) /\ InOrder(k, n)
  BY <1>1, <1>2, <1>4, <1>5, FailureFacts DEF ProcessInv, ResultInv, InOrder
<1> QED
  BY <1>1, <1>2, <1>3, <1>4, <1>6, WorkerKeepsPermit DEF KubectlCallInv, k, n

\* A drain task ends; what was collected already is not read again.
LEMMA DrainStep ==
  ASSUME KubectlInv, NEW c \in KubectlCalls, DrainEnds(c)
  PROVE  KubectlInv' /\ KubectlOrder
<1> DEFINE k == call[c]
<1>1. /\ k \in KubectlRecord /\ ProcessInv(k) /\ ResultInv(k) /\ k.worker = "loop"
      /\ UNCHANGED kubectlPermits
  BY DEF KubectlInv, KubectlCallInv, DrainEnds
<1>2. PICK s \in {"out", "err"}, v \in {"eof", "failed"} :
        k[s] = "open" /\ Set(c, [k EXCEPT ![s] = v])
  BY <1>1 DEF DrainEnds, Set, KubectlInv
<1>3. CASE s = "out"
  <2> DEFINE n == [k EXCEPT !.out = v]
  <2>1. n \in KubectlRecord
    BY <1>1, FieldUpdates
  <2>2. ProcessInv(n) /\ ResultInv(n) /\ n.worker = "loop" /\ InOrder(k, n)
    BY <1>1, <1>2, <1>3, FailureFacts DEF ProcessInv, ResultInv, InOrder, KubectlRecord
  <2> QED
    BY <1>1, <1>2, <1>3, <2>1, <2>2, WorkerKeepsPermit DEF KubectlCallInv
<1>4. CASE s = "err"
  <2> DEFINE n == [k EXCEPT !.err = v]
  <2>1. n \in KubectlRecord
    BY <1>1, FieldUpdates
  <2>2. ProcessInv(n) /\ ResultInv(n) /\ n.worker = "loop" /\ InOrder(k, n)
    BY <1>1, <1>2, <1>4, FailureFacts DEF ProcessInv, ResultInv, InOrder, KubectlRecord
  <2> QED
    BY <1>1, <1>2, <1>4, <2>1, <2>2, WorkerKeepsPermit DEF KubectlCallInv
<1> QED
  BY <1>3, <1>4

-----------------------------------------------------------------------------
(* The specification.                                                      *)

\* KubectlInv holds before any call.
LEMMA KubectlInvInit == KubectlInit => KubectlInv
<1> SUFFICES ASSUME KubectlInit PROVE KubectlInv
  OBVIOUS
<1>1. KubectlFresh \in KubectlRecord
  BY DEF KubectlFresh, KubectlRecord
<1>2. ProcessInv(KubectlFresh) /\ ResultInv(KubectlFresh)
  BY FailureFacts DEF KubectlFresh, ProcessInv, ResultInv
<1>3. Working = {}
  BY DEF KubectlInit, Working, KubectlFresh
<1>4. WorkingInv /\ kubectlPermits \in 0..KubectlPermits
  BY <1>3, FS_EmptySet, KubectlPermitsAssumption DEF KubectlInit, WorkingInv
<1> QED
  BY <1>1, <1>2, <1>4 DEF KubectlInit, KubectlInv, KubectlCallInv

\* Every step preserves it.
LEMMA KubectlInvNext ==
  KubectlInv /\ [KubectlNext]_kubectlVars => KubectlInv' /\ KubectlOrder
<1> SUFFICES ASSUME KubectlInv, [KubectlNext]_kubectlVars
             PROVE  KubectlInv' /\ KubectlOrder
  OBVIOUS
<1>1. CASE UNCHANGED kubectlVars
  <2>1. Working' = Working
    BY <1>1 DEF kubectlVars, Working
  <2> QED
    BY <1>1, <2>1, FailureFacts DEF kubectlVars, KubectlInv, WorkingInv, KubectlOrder, InOrder
<1>2. ASSUME NEW c \in KubectlCalls, CallerStep(c) \/ WorkerStep(c)
      PROVE  KubectlInv' /\ KubectlOrder
  BY <1>2, ReceiveStep, FinishCancelStep, StartStep, StopStep, TakeStatusStep, ReapStep,
     EndWorkerStep, TakeStreamStep
  DEF CallerStep, WorkerStep
<1> QED
  BY <1>1, <1>2, KubectlBeginStep, CancelStep, DropCallerStep, ExpireStep, SendsStep,
     AppliesStep, ExitsStep, DrainStep
  DEF KubectlNext

\* KubectlInv is an invariant.
LEMMA KubectlInvHolds == KubectlSpec => []KubectlInv
BY KubectlInvInit, KubectlInvNext, PTL DEF KubectlSpec

\* Calls and permits keep their types, and a permit is held exactly while a worker runs,
\* whatever became of its caller (runner.rs:95-128).
THEOREM KubectlPermitsHold == KubectlSpec => [](KubectlTypeOK /\ KubectlPermitsAccounted)
<1>1. KubectlInv => KubectlTypeOK /\ KubectlPermitsAccounted
  BY DEF KubectlInv, KubectlRecord, KubectlTypeOK, KubectlPermitsAccounted, WorkingInv, Working
<1> QED
  BY <1>1, KubectlInvHolds, PTL

\* A mutation answered with a definite error never left the program, and one answered "ok"
\* was applied.
THEOREM MutationAnswersHold == KubectlSpec => []MutationAnswerTrue
<1>1. KubectlInv => MutationAnswerTrue
  BY DEF KubectlInv, KubectlCallInv, ResultInv, MutationAnswerTrue
<1> QED
  BY <1>1, KubectlInvHolds, PTL

\* No answer before the child is reaped, no success before its whole output was read, no
\* start after a cancellation (runner.rs:113-243).
THEOREM KubectlInOrderHolds == KubectlSpec => KubectlInOrder
<1>1. KubectlInv => AnswerAfterReap
  BY DEF KubectlInv, KubectlCallInv, ProcessInv, AnswerAfterReap
<1>2. ASSUME KubectlOrder
      PROVE  /\ \A c \in KubectlCalls : call[c].result = Nil /\ call[c]'.result = "ok"
                   => call[c].out = "eof" /\ call[c].err = "eof"
             /\ \A c \in KubectlCalls : call[c].kubectl = "none" /\ call[c]'.kubectl = "running"
                   => call[c].cancel = "open"
  BY <1>2 DEF KubectlOrder, InOrder
<1>3. KubectlInv /\ [KubectlNext]_kubectlVars =>
        /\ [\A c \in KubectlCalls : call[c].result = Nil /\ call[c]'.result = "ok"
              => call[c].out = "eof" /\ call[c].err = "eof"]_kubectlVars
        /\ [\A c \in KubectlCalls : call[c].kubectl = "none" /\ call[c]'.kubectl = "running"
              => call[c].cancel = "open"]_kubectlVars
  BY <1>2, KubectlInvNext
<1> QED
  BY <1>1, <1>3, KubectlInvHolds, PTL
  DEF KubectlSpec, KubectlInOrder, OutputComplete, NoStartAfterCancel

-----------------------------------------------------------------------------
(***************************************************************************)
(* The Tekton client for any number of calls, permits, waiter slots and    *)
(* repositories.  TektonInv is inductive: it ties what a call knows of the *)
(* run to the run's version, and the answer of a call to the mutation that *)
(* may outlive it.                                                         *)
(***************************************************************************)

TektonAnswers ==
  ReadErrors \cup Refusals \cup {"run", "accepted", "mutation_outcome_unknown",
    "capacity_exhausted", "invalid_arguments", "request_cancelled"}
TektonSteps == ReadSteps \cup MutationSteps \cup {"idle", "sleep", "done"}
SeenRun == [status : TektonStatuses \cup {"absent"}, version : Nat]

TektonRecord ==
  [op : {"none", "get", "wait", "dispatch", "rerun", "cancel"}, step : TektonSteps,
   phase : {"ready", "sent"}, waiter : BOOLEAN, seen : SeenRun,
   repository : Repositories \cup {"none"}, final : BOOLEAN,
   response : {"none", "2xx", "4xx", "5xx"}, answer : TektonAnswers \cup {"none"},
   timed_out : BOOLEAN]

\* Where a call is, given its operation, and what it holds there.
TektonStepInv(k) ==
  /\ k.step = "idle" <=> k.op = "none"
  /\ k.step \in {"idle", "sleep", "done"} => k.phase = "ready"
  /\ k.waiter = (k.op = "wait" /\ k.step # "done")
  /\ k.step # "done" => k.answer = "none"
  /\ k.step = "run" => k.op # "dispatch"
  /\ k.step \in {"workflows", "post"} => k.op \in {"dispatch", "rerun"}
  /\ k.step = "patch" => k.op = "cancel"
  /\ k.step = "sleep" \/ k.final => k.op = "wait"
  /\ k.response # "none" => k.step \in MutationSteps /\ k.phase = "sent"
  /\ k.op = "wait" /\ k.answer = "run" => k.timed_out \/ k.seen.status \in Terminal

\* A mutation was carried out, or may still be, only of a call that has sent it and that is
\* not, and will not be, told of a definite error.
TektonMutationInv(k, flying, carried) ==
  /\ flying \/ carried =>
       \/ k.step \in MutationSteps /\ k.phase = "sent"
       \/ k.step = "done" /\ k.answer \in {"accepted", "mutation_outcome_unknown"}
  /\ ~(flying /\ carried)
  /\ k.response # "none" => ~flying
  /\ k.response = "4xx" => ~carried

\* A version stands for a status: a run that still has the version a cancellation has seen
\* has the status it has seen, which was "running" when the patch was made.
TektonSeenInv(k, flying, current) ==
  /\ k.op = "cancel" /\ k.step = "catalog" =>
       /\ k.seen.version <= current.version
       /\ k.seen.version = current.version => k.seen.status = current.status
  /\ k.op = "cancel" /\ (k.step = "patch" \/ flying) =>
       /\ k.seen.version <= current.version
       /\ k.seen.version = current.version => current.status = "running"

TektonCallInv(c) ==
  /\ tcall[c] \in TektonRecord /\ TektonStepInv(tcall[c])
  /\ TektonMutationInv(tcall[c], c \in inflight, c \in tektonApplied)
  /\ TektonSeenInv(tcall[c], c \in inflight, run)

\* The calls that hold a permit, and those that hold a waiter slot.
Sending == {c \in TektonCalls : tcall[c].phase = "sent"}
Waiting == {c \in TektonCalls : tcall[c].waiter}

SlotsInv ==
  /\ tektonPermits \in Nat /\ waiters \in Nat /\ IsFiniteSet(Sending) /\ IsFiniteSet(Waiting)
  /\ tektonPermits + Cardinality(Sending) = TektonPermits
  /\ waiters + Cardinality(Waiting) = Waiters

TektonInv ==
  /\ tcall \in [TektonCalls -> TektonRecord]
  /\ run \in SeenRun /\ catalog \in Repositories \cup {"none"} /\ offered \in BOOLEAN
  /\ SlotsInv
  /\ \A c \in TektonCalls : TektonCallInv(c)

-----------------------------------------------------------------------------
(* Counting.                                                               *)

\* A set that gains or loses one element, next to a number that loses or gains one.
LEMMA CountStep ==
  ASSUME NEW S, NEW T, NEW c, IsFiniteSet(S), T \ {c} = S \ {c},
         NEW p \in Nat, NEW q \in Nat, NEW N, p + Cardinality(S) = N,
         q = (p + (IF c \in S THEN 1 ELSE 0)) - (IF c \in T THEN 1 ELSE 0)
  PROVE  IsFiniteSet(T) /\ q + Cardinality(T) = N
<1>1. Cardinality(S) \in Nat
  BY FS_CardinalityType
<1>2. CASE c \in T
  <2>1. T = S \cup {c}
    BY <1>2
  <2>2. /\ IsFiniteSet(S \cup {c})
        /\ Cardinality(S \cup {c}) = IF c \in S THEN Cardinality(S) ELSE Cardinality(S) + 1
    BY FS_AddElement
  <2> QED
    BY <1>1, <1>2, <2>1, <2>2
<1>3. CASE c \notin T
  <2>1. T = S \ {c}
    BY <1>3
  <2>2. /\ IsFiniteSet(S \ {c}) /\ Cardinality(S \ {c}) \in Nat
        /\ Cardinality(S \ {c}) = IF c \in S THEN Cardinality(S) - 1 ELSE Cardinality(S)
    BY FS_RemoveElement, FS_CardinalityType
  <2> QED
    BY <1>1, <1>3, <2>1, <2>2
<1> QED
  BY <1>2, <1>3

-----------------------------------------------------------------------------
(* One call.                                                               *)

\* A call stays a call when one of its fields changes; an update of several fields is a
\* sequence of these.
LEMMA TektonFieldUpdates ==
  ASSUME NEW k \in TektonRecord
  PROVE  /\ \A v \in {"none", "get", "wait", "dispatch", "rerun", "cancel"} :
              [k EXCEPT !.op = v] \in TektonRecord
         /\ \A v \in TektonSteps : [k EXCEPT !.step = v] \in TektonRecord
         /\ \A v \in {"ready", "sent"} : [k EXCEPT !.phase = v] \in TektonRecord
         /\ \A v \in BOOLEAN : [k EXCEPT !.waiter = v] \in TektonRecord
         /\ \A v \in SeenRun : [k EXCEPT !.seen = v] \in TektonRecord
         /\ \A v \in Repositories \cup {"none"} : [k EXCEPT !.repository = v] \in TektonRecord
         /\ \A v \in BOOLEAN : [k EXCEPT !.final = v] \in TektonRecord
         /\ \A v \in {"none", "2xx", "4xx", "5xx"} : [k EXCEPT !.response = v] \in TektonRecord
         /\ \A v \in TektonAnswers \cup {"none"} : [k EXCEPT !.answer = v] \in TektonRecord
         /\ \A v \in BOOLEAN : [k EXCEPT !.timed_out = v] \in TektonRecord
<1> USE DEF TektonRecord
<1>1. \A v \in {"none", "get", "wait", "dispatch", "rerun", "cancel"} :
        [k EXCEPT !.op = v] \in TektonRecord
  OBVIOUS
<1>2. \A v \in TektonSteps : [k EXCEPT !.step = v] \in TektonRecord
  OBVIOUS
<1>3. \A v \in {"ready", "sent"} : [k EXCEPT !.phase = v] \in TektonRecord
  OBVIOUS
<1>4. \A v \in BOOLEAN : [k EXCEPT !.waiter = v] \in TektonRecord
  OBVIOUS
<1>5. \A v \in SeenRun : [k EXCEPT !.seen = v] \in TektonRecord
  OBVIOUS
<1>6. \A v \in Repositories \cup {"none"} : [k EXCEPT !.repository = v] \in TektonRecord
  OBVIOUS
<1>7. \A v \in BOOLEAN : [k EXCEPT !.final = v] \in TektonRecord
  OBVIOUS
<1>8. \A v \in {"none", "2xx", "4xx", "5xx"} : [k EXCEPT !.response = v] \in TektonRecord
  OBVIOUS
<1>9. \A v \in TektonAnswers \cup {"none"} : [k EXCEPT !.answer = v] \in TektonRecord
  OBVIOUS
<1>10. \A v \in BOOLEAN : [k EXCEPT !.timed_out = v] \in TektonRecord
  OBVIOUS
<1> HIDE DEF TektonRecord
<1> QED
  BY <1>1, <1>2, <1>3, <1>4, <1>5, <1>6, <1>7, <1>8, <1>9, <1>10

\* The sets of names that the fields range over.
LEMMA TektonNames ==
  /\ {"run", "catalog", "workflows", "post", "patch", "idle", "sleep", "done"} = TektonSteps
  /\ ReadSteps = {"run", "catalog", "workflows"} /\ MutationSteps = {"post", "patch"}
  /\ ReadErrors \subseteq TektonAnswers /\ Refusals \subseteq TektonAnswers
  /\ {"run", "accepted", "mutation_outcome_unknown", "capacity_exhausted", "invalid_arguments",
      "request_cancelled", "upstream_unavailable", "not_found", "mutation_rejected", "timeout"}
       \subseteq TektonAnswers
  /\ "run" \notin ReadErrors /\ "none" \notin TektonAnswers
  /\ NoRun \in SeenRun /\ NoRun.version = 0 /\ "absent" \notin Terminal
BY DEF TektonSteps, ReadSteps, MutationSteps, TektonAnswers, ReadErrors, Refusals, NoRun, SeenRun,
       Terminal

\* What is left of a call that is over.
LEMMA OverFacts ==
  ASSUME NEW k \in TektonRecord
  PROVE  /\ Over(k) \in TektonRecord
         /\ Over(k).op = k.op /\ Over(k).step = "done" /\ Over(k).phase = "ready"
         /\ Over(k).waiter = FALSE /\ Over(k).final = FALSE /\ Over(k).response = "none"
         /\ Over(k).answer = k.answer /\ Over(k).timed_out = k.timed_out
         /\ k.answer = "run" => Over(k).seen.status = k.seen.status
         /\ k.step = "patch" /\ k.phase = "sent" => Over(k).seen.version = k.seen.version
<1> DEFINE seen == [status |-> IF k.answer = "run" THEN k.seen.status ELSE "absent",
                    version |-> IF k.step = "patch" /\ k.phase = "sent" THEN k.seen.version ELSE 0]
<1>1. seen \in SeenRun /\ k.op \in {"none", "get", "wait", "dispatch", "rerun", "cancel"}
        /\ k.answer \in TektonAnswers \cup {"none"} /\ k.timed_out \in BOOLEAN
  BY DEF SeenRun, TektonRecord
<1>2. /\ seen.status = IF k.answer = "run" THEN k.seen.status ELSE "absent"
      /\ seen.version = IF k.step = "patch" /\ k.phase = "sent" THEN k.seen.version ELSE 0
  OBVIOUS
<1>3. Over(k) = [TektonFresh EXCEPT !.op = k.op, !.step = "done", !.answer = k.answer,
                                    !.timed_out = k.timed_out, !.seen = seen]
  BY DEF Over
<1> HIDE DEF seen
<1>4. TektonFresh \in TektonRecord
  BY TektonNames DEF TektonFresh, TektonRecord
<1>5. Over(k) \in TektonRecord
  <2>1. [TektonFresh EXCEPT !.op = k.op] \in TektonRecord
    BY <1>1, <1>4, TektonFieldUpdates
  <2>2. [TektonFresh EXCEPT !.op = k.op, !.step = "done"] \in TektonRecord
    BY <2>1, TektonFieldUpdates, TektonNames
  <2>3. [TektonFresh EXCEPT !.op = k.op, !.step = "done", !.answer = k.answer] \in TektonRecord
    BY <1>1, <2>2, TektonFieldUpdates
  <2>4. [TektonFresh EXCEPT !.op = k.op, !.step = "done", !.answer = k.answer,
                            !.timed_out = k.timed_out] \in TektonRecord
    BY <1>1, <2>3, TektonFieldUpdates
  <2> QED
    BY <1>1, <1>3, <2>4, TektonFieldUpdates
<1>6. /\ Over(k).op = k.op /\ Over(k).step = "done" /\ Over(k).phase = "ready"
      /\ Over(k).waiter = FALSE /\ Over(k).final = FALSE /\ Over(k).response = "none"
      /\ Over(k).answer = k.answer /\ Over(k).timed_out = k.timed_out /\ Over(k).seen = seen
  BY <1>3, <1>4 DEF TektonFresh
<1> QED
  BY <1>2, <1>5, <1>6

\* A run that is as it was, or has a later version, does not disturb what a call knows of it.
LEMMA SeenLater ==
  ASSUME NEW k \in TektonRecord, NEW flying, NEW r \in SeenRun, NEW s \in SeenRun,
         s = r \/ s.version = r.version + 1, TektonSeenInv(k, flying, r)
  PROVE  TektonSeenInv(k, flying, s)
<1>1. k.seen.version \in Nat /\ r.version \in Nat /\ s.version \in Nat
  BY DEF TektonRecord, SeenRun
<1> QED
  BY <1>1 DEF TektonSeenInv

-----------------------------------------------------------------------------
(* Steps of one call.                                                      *)

\* What a step of one call has to show: the new state of the call and the permits.
LEMMA TektonStep ==
  ASSUME TektonInv, NEW c \in TektonCalls, NEW n \in TektonRecord, TektonStepInv(n),
         tcall' = [tcall EXCEPT ![c] = n],
         tektonPermits' \in Nat, waiters' \in Nat,
         tektonPermits' = (tektonPermits + Held(c)) - (IF n.phase = "sent" THEN 1 ELSE 0),
         waiters' = (waiters + Slot(c)) - (IF n.waiter THEN 1 ELSE 0),
         inflight' \ {c} = inflight \ {c}, tektonApplied' \ {c} = tektonApplied \ {c},
         run' \in SeenRun, run' = run \/ run'.version = run.version + 1,
         UNCHANGED <<catalog, offered>>,
         TektonMutationInv(n, c \in inflight', c \in tektonApplied'),
         TektonSeenInv(n, c \in inflight', run')
  PROVE  TektonInv'
<1>1. tcall' \in [TektonCalls -> TektonRecord] /\ tcall'[c] = n
        /\ \A d \in TektonCalls \ {c} : tcall'[d] = tcall[d]
  BY DEF TektonInv
<1>2. SlotsInv'
  <2>1. Sending' \ {c} = Sending \ {c} /\ (c \in Sending' <=> n.phase = "sent")
    BY <1>1 DEF Sending
  <2>2. Waiting' \ {c} = Waiting \ {c} /\ (c \in Waiting' <=> n.waiter)
    BY <1>1 DEF Waiting
  <2>3. tektonPermits' = (tektonPermits + (IF c \in Sending THEN 1 ELSE 0))
                           - (IF c \in Sending' THEN 1 ELSE 0)
    BY <2>1 DEF Held, Sending
  <2>4. waiters' = (waiters + (IF c \in Waiting THEN 1 ELSE 0))
                     - (IF c \in Waiting' THEN 1 ELSE 0)
    BY <2>2 DEF Slot, Waiting
  <2>5. IsFiniteSet(Sending') /\ tektonPermits' + Cardinality(Sending') = TektonPermits
    BY <2>1, <2>3, CountStep DEF TektonInv, SlotsInv
  <2>6. IsFiniteSet(Waiting') /\ waiters' + Cardinality(Waiting') = Waiters
    BY <2>2, <2>4, CountStep DEF TektonInv, SlotsInv
  <2> QED
    BY <2>5, <2>6 DEF SlotsInv
<1>3. ASSUME NEW d \in TektonCalls PROVE TektonCallInv(d)'
  <2>1. CASE d = c
    BY <1>1, <2>1 DEF TektonCallInv
  <2>2. CASE d # c
    <3>1. tcall'[d] = tcall[d] /\ (d \in inflight' <=> d \in inflight)
            /\ (d \in tektonApplied' <=> d \in tektonApplied)
      BY <1>1, <2>2
    <3>2. TektonCallInv(d) /\ run \in SeenRun
      BY DEF TektonInv
    <3>3. TektonSeenInv(tcall[d], d \in inflight, run')
      BY <3>2, SeenLater DEF TektonCallInv
    <3> QED
      BY <3>1, <3>2, <3>3 DEF TektonCallInv, TektonMutationInv, TektonSeenInv
  <2> QED
    BY <2>1, <2>2
<1> QED
  BY <1>1, <1>2, <1>3 DEF TektonInv

\* The call is over.
LEMMA FinishStep ==
  ASSUME TektonInv, NEW c \in TektonCalls, NEW changed \in TektonRecord,
         TektonFinish(c, changed), UNCHANGED <<inflight, External>>,
         changed.op # "none", changed.answer # "none", tcall[c].step # "done",
         changed.step = tcall[c].step, changed.phase = tcall[c].phase,
         c \in inflight \cup tektonApplied =>
           /\ changed.answer \in {"accepted", "mutation_outcome_unknown"}
           /\ changed.op = tcall[c].op /\ changed.seen = tcall[c].seen,
         changed.op = "wait" /\ changed.answer = "run" =>
           changed.timed_out \/ changed.seen.status \in Terminal
  PROVE  TektonInv'
<1> DEFINE n == Over(changed)
<1>1. tcall[c] \in TektonRecord /\ TektonCallInv(c)
  BY DEF TektonInv
<1>2. /\ n \in TektonRecord
      /\ n.op = changed.op /\ n.step = "done" /\ n.phase = "ready"
      /\ n.waiter = FALSE /\ n.final = FALSE /\ n.response = "none"
      /\ n.answer = changed.answer /\ n.timed_out = changed.timed_out
      /\ changed.answer = "run" => n.seen.status = changed.seen.status
      /\ changed.step = "patch" /\ changed.phase = "sent" =>
           n.seen.version = changed.seen.version
  BY OverFacts
<1>3. tcall' = [tcall EXCEPT ![c] = n]
  BY DEF TektonFinish
<1> HIDE DEF n
<1>4. TektonStepInv(n)
  BY <1>2 DEF TektonStepInv, MutationSteps
<1>5. TektonMutationInv(n, c \in inflight', c \in tektonApplied')
  BY <1>1, <1>2 DEF TektonCallInv, TektonMutationInv, External
<1>6. TektonSeenInv(n, c \in inflight', run')
  <2>1. ASSUME changed.op = "cancel", c \in inflight
        PROVE  tcall[c].op = "cancel" /\ tcall[c].step = "patch" /\ tcall[c].phase = "sent"
    BY <1>1, <2>1 DEF TektonCallInv, TektonMutationInv, TektonStepInv, MutationSteps
  <2> QED
    BY <1>1, <1>2, <2>1 DEF TektonCallInv, TektonSeenInv, External
<1>7. /\ tektonPermits' = tektonPermits + Held(c) /\ waiters' = waiters + Slot(c)
      /\ tektonPermits' \in Nat /\ waiters' \in Nat
  BY DEF TektonFinish, TektonInv, SlotsInv, Held, Slot
<1>8. /\ tektonPermits' = (tektonPermits + Held(c)) - (IF n.phase = "sent" THEN 1 ELSE 0)
      /\ waiters' = (waiters + Slot(c)) - (IF n.waiter THEN 1 ELSE 0)
  BY <1>2, <1>7
<1>9. run' = run /\ run' \in SeenRun /\ UNCHANGED <<catalog, offered, inflight, tektonApplied>>
  BY DEF External, TektonInv
<1> QED
  BY <1>2, <1>3, <1>4, <1>5, <1>6, <1>7, <1>8, <1>9, TektonStep

\* Its request has ended and the call goes on.
LEMMA ProceedStep ==
  ASSUME TektonInv, NEW c \in TektonCalls, NEW changed \in TektonRecord,
         NEW n \in TektonRecord, n = [changed EXCEPT !.phase = "ready"],
         TektonProceed(c, changed), UNCHANGED <<inflight, External>>,
         tcall[c].step \notin MutationSteps \cup {"done"},
         changed.waiter = tcall[c].waiter, changed.response = "none",
         TektonStepInv(n), TektonSeenInv(n, FALSE, run)
  PROVE  TektonInv'
<1>1. TektonCallInv(c)
  BY DEF TektonInv
<1>2. tcall' = [tcall EXCEPT ![c] = n]
  BY DEF TektonProceed
<1>3. n.phase = "ready" /\ n.waiter = changed.waiter /\ n.response = "none"
  BY DEF TektonRecord
<1>4. c \notin inflight /\ c \notin tektonApplied
  BY <1>1 DEF TektonCallInv, TektonMutationInv
<1>5. run' = run /\ run' \in SeenRun /\ UNCHANGED <<catalog, offered, inflight, tektonApplied>>
  BY DEF External, TektonInv
<1>6. TektonMutationInv(n, c \in inflight', c \in tektonApplied')
  BY <1>3, <1>4, <1>5 DEF TektonMutationInv
<1>7. TektonSeenInv(n, c \in inflight', run')
  BY <1>4, <1>5 DEF TektonSeenInv
<1>8. /\ tektonPermits' = tektonPermits + Held(c) /\ tektonPermits' \in Nat
      /\ waiters' = waiters /\ waiters' \in Nat
  BY DEF TektonProceed, TektonInv, SlotsInv, Held
<1>9. /\ tektonPermits' = (tektonPermits + Held(c)) - (IF n.phase = "sent" THEN 1 ELSE 0)
      /\ waiters' = (waiters + Slot(c)) - (IF n.waiter THEN 1 ELSE 0)
  BY <1>3, <1>8 DEF Slot, TektonInv, SlotsInv
<1> QED
  BY <1>2, <1>5, <1>6, <1>7, <1>8, <1>9, TektonStep

\* It ends with an error or the answer to its mutation.
LEMMA FailStep ==
  ASSUME TektonInv, NEW c \in TektonCalls, NEW e \in TektonAnswers \ {"run"}, Fail(c, e),
         UNCHANGED <<inflight, External>>, tcall[c].step \notin {"idle", "done"},
         c \in inflight \cup tektonApplied => e \in {"accepted", "mutation_outcome_unknown"}
  PROVE  TektonInv'
<1> DEFINE changed == [tcall[c] EXCEPT !.answer = e]
<1>1. tcall[c] \in TektonRecord /\ tcall[c].op # "none"
  BY DEF TektonInv, TektonCallInv, TektonStepInv
<1>2. changed \in TektonRecord
  BY <1>1, TektonFieldUpdates
<1>3. /\ changed.op = tcall[c].op /\ changed.step = tcall[c].step
      /\ changed.phase = tcall[c].phase /\ changed.seen = tcall[c].seen /\ changed.answer = e
  BY <1>1 DEF TektonRecord
<1>4. TektonFinish(c, changed)
  BY DEF Fail
<1> HIDE DEF changed
<1> QED
  BY <1>1, <1>2, <1>3, <1>4, TektonNames, FinishStep

\* A call that has not sent a mutation has none that was, or may be, carried out.
LEMMA NothingSent ==
  ASSUME TektonInv, NEW c \in TektonCalls, tcall[c].step # "done",
         tcall[c].step \notin MutationSteps \/ tcall[c].phase = "ready"
  PROVE  c \notin inflight \cup tektonApplied
BY DEF TektonInv, TektonCallInv, TektonMutationInv, TektonRecord

\* TektonBegin keeps the invariant.
LEMMA TektonBeginStep ==
  ASSUME TektonInv, NEW c \in TektonCalls, TektonBegin(c)
  PROVE  TektonInv'
<1>1. PICK op \in Ops :
        IF op = "wait" /\ waiters = 0
        THEN TektonFinish(c, [tcall[c] EXCEPT !.op = op, !.answer = "capacity_exhausted"])
        ELSE /\ tcall' = [tcall EXCEPT ![c].op = op, ![c].waiter = op = "wait",
                             ![c].step = IF op = "dispatch" THEN "catalog" ELSE "run"]
             /\ waiters' = IF op = "wait" THEN waiters - 1 ELSE waiters
             /\ UNCHANGED tektonPermits
  BY DEF TektonBegin
<1>2. op \in {"get", "wait", "dispatch", "rerun", "cancel"}
  BY OpsAssumption
<1>3. /\ tcall[c] \in TektonRecord /\ TektonCallInv(c) /\ tcall[c].step = "idle"
      /\ UNCHANGED <<inflight, External>>
  BY DEF TektonInv, TektonBegin
<1>4. c \notin inflight \cup tektonApplied
  BY <1>3, NothingSent DEF MutationSteps
<1>5. /\ tcall[c].op = "none" /\ tcall[c].phase = "ready" /\ tcall[c].waiter = FALSE
      /\ tcall[c].answer = "none" /\ tcall[c].final = FALSE /\ tcall[c].response = "none"
  BY <1>3 DEF TektonCallInv, TektonStepInv, TektonRecord
<1>6. CASE op = "wait" /\ waiters = 0
  <2> DEFINE changed == [tcall[c] EXCEPT !.op = op, !.answer = "capacity_exhausted"]
  <2>1. [tcall[c] EXCEPT !.op = op] \in TektonRecord
    BY <1>2, <1>3, TektonFieldUpdates
  <2>2. changed \in TektonRecord
    BY <2>1, TektonNames, TektonFieldUpdates
  <2>3. /\ changed.op = op /\ changed.step = tcall[c].step /\ changed.phase = tcall[c].phase
        /\ changed.answer = "capacity_exhausted"
    BY <1>3 DEF TektonRecord
  <2>4. TektonFinish(c, changed)
    BY <1>1, <1>6
  <2> HIDE DEF changed
  <2> QED
    BY <1>2, <1>3, <1>4, <2>2, <2>3, <2>4, FinishStep
<1>7. CASE ~(op = "wait" /\ waiters = 0)
  <2> DEFINE first == IF op = "dispatch" THEN "catalog" ELSE "run"
             n == [tcall[c] EXCEPT !.op = op, !.waiter = (op = "wait"), !.step = first]
  <2>1. first \in TektonSteps /\ first \in {"catalog", "run"}
    BY TektonNames
  <2>2. n \in TektonRecord
    <3>1. [tcall[c] EXCEPT !.op = op] \in TektonRecord
      BY <1>2, <1>3, TektonFieldUpdates
    <3>2. [tcall[c] EXCEPT !.op = op, !.waiter = (op = "wait")] \in TektonRecord
      BY <3>1, TektonFieldUpdates
    <3> HIDE DEF first
    <3> QED
      BY <2>1, <3>2, TektonFieldUpdates
  <2>3. /\ n.op = op /\ n.step = first /\ n.phase = "ready" /\ n.waiter = (op = "wait")
        /\ n.answer = "none" /\ n.final = FALSE /\ n.response = "none"
    BY <1>3, <1>5 DEF TektonRecord
  <2>4. tcall' = [tcall EXCEPT ![c] = n]
    BY <1>1, <1>7 DEF TektonInv
  <2>5. op = "dispatch" => first = "catalog"
    OBVIOUS
  <2>6. op # "dispatch" => first = "run"
    OBVIOUS
  <2>7. /\ tektonPermits' = tektonPermits
        /\ waiters' = IF op = "wait" THEN waiters - 1 ELSE waiters
    BY <1>1, <1>7
  <2> HIDE DEF n, first
  <2>8. TektonStepInv(n)
    BY <1>2, <2>1, <2>3, <2>5, <2>6 DEF TektonStepInv, MutationSteps
  <2>9. /\ TektonMutationInv(n, c \in inflight', c \in tektonApplied')
        /\ TektonSeenInv(n, c \in inflight', run')
    BY <1>2, <1>3, <1>4, <2>3, <2>5, <2>6 DEF TektonMutationInv, TektonSeenInv, External
  <2>10. /\ waiters' \in Nat /\ tektonPermits' \in Nat
         /\ tektonPermits' = (tektonPermits + Held(c)) - (IF n.phase = "sent" THEN 1 ELSE 0)
    BY <1>5, <1>7, <2>3, <2>7 DEF Held, TektonInv, SlotsInv
  <2>11. waiters' = (waiters + Slot(c)) - (IF n.waiter THEN 1 ELSE 0)
    <3>1. Slot(c) = 0 /\ waiters \in Nat
      BY <1>5 DEF Slot, TektonInv, SlotsInv
    <3>2. CASE op = "wait"
      <4>1. n.waiter /\ waiters' = waiters - 1
        BY <2>3, <2>7, <3>2
      <4> QED
        BY <3>1, <4>1
    <3>3. CASE op # "wait"
      <4>1. ~n.waiter /\ waiters' = waiters
        BY <2>3, <2>7, <3>3
      <4> QED
        BY <3>1, <4>1
    <3> QED
      BY <3>2, <3>3
  <2> QED
    BY <1>3, <2>2, <2>4, <2>8, <2>9, <2>10, <2>11, TektonStep DEF External, TektonInv
<1> QED
  BY <1>6, <1>7

\* RefuseInput keeps the invariant.
LEMMA RefuseInputStep ==
  ASSUME TektonInv, NEW c \in TektonCalls, RefuseInput(c)
  PROVE  TektonInv'
<1>1. PICK op \in Ops :
        TektonFinish(c, [tcall[c] EXCEPT !.op = op, !.answer = "invalid_arguments"])
  BY DEF RefuseInput
<1>2. op \in {"get", "wait", "dispatch", "rerun", "cancel"}
  BY OpsAssumption
<1>3. /\ tcall[c] \in TektonRecord /\ tcall[c].step = "idle" /\ UNCHANGED <<inflight, External>>
  BY DEF TektonInv, RefuseInput
<1>4. c \notin inflight \cup tektonApplied
  BY <1>3, NothingSent DEF MutationSteps
<1> DEFINE changed == [tcall[c] EXCEPT !.op = op, !.answer = "invalid_arguments"]
<1>5. [tcall[c] EXCEPT !.op = op] \in TektonRecord
  BY <1>2, <1>3, TektonFieldUpdates
<1>6. changed \in TektonRecord
  BY <1>5, TektonNames, TektonFieldUpdates
<1>7. /\ changed.op = op /\ changed.step = tcall[c].step /\ changed.phase = tcall[c].phase
      /\ changed.answer = "invalid_arguments"
  BY <1>3 DEF TektonRecord
<1>8. TektonFinish(c, changed)
  BY <1>1
<1> HIDE DEF changed
<1> QED
  BY <1>2, <1>3, <1>4, <1>6, <1>7, <1>8, FinishStep

\* TokenUnreadable keeps the invariant.
LEMMA TokenUnreadableStep ==
  ASSUME TektonInv, NEW c \in TektonCalls, TokenUnreadable(c)
  PROVE  TektonInv'
<1>1. c \notin inflight \cup tektonApplied
  BY NothingSent DEF TokenUnreadable
<1> QED
  BY <1>1, FailStep, TektonNames DEF TokenUnreadable

\* TektonSend keeps the invariant.
LEMMA TektonSendStep ==
  ASSUME TektonInv, NEW c \in TektonCalls, TektonSend(c)
  PROVE  TektonInv'
<1>1. /\ tcall[c] \in TektonRecord /\ TektonCallInv(c)
      /\ tcall[c].step \in ReadSteps \cup MutationSteps /\ tcall[c].phase = "ready"
      /\ UNCHANGED External
  BY DEF TektonInv, TektonSend
<1>2. tcall[c].step \notin {"idle", "sleep", "done"}
  BY <1>1, TektonNames
<1>3. c \notin inflight \cup tektonApplied
  BY <1>1, <1>2, NothingSent
<1>4. CASE tektonPermits = 0
  BY <1>2, <1>3, <1>4, FailStep, TektonNames DEF TektonSend
<1>5. CASE tektonPermits # 0
  <2> DEFINE n == [tcall[c] EXCEPT !.phase = "sent"]
  <2>1. n \in TektonRecord
    BY <1>1, TektonFieldUpdates
  <2>2. /\ n.op = tcall[c].op /\ n.step = tcall[c].step /\ n.phase = "sent"
        /\ n.waiter = tcall[c].waiter /\ n.seen = tcall[c].seen /\ n.answer = tcall[c].answer
        /\ n.final = tcall[c].final /\ n.response = tcall[c].response
        /\ n.timed_out = tcall[c].timed_out
    BY <1>1 DEF TektonRecord
  <2>3. /\ tcall' = [tcall EXCEPT ![c] = n] /\ tektonPermits' = tektonPermits - 1
        /\ waiters' = waiters
        /\ inflight' = IF tcall[c].step \in MutationSteps THEN inflight \cup {c} ELSE inflight
    BY <1>5 DEF TektonSend, TektonInv
  <2> HIDE DEF n
  <2>4. TektonStepInv(n) /\ n.response = "none"
    BY <1>1, <1>2, <2>2 DEF TektonCallInv, TektonStepInv
  <2>5. TektonMutationInv(n, c \in inflight', c \in tektonApplied')
    BY <1>1, <1>3, <2>2, <2>3, <2>4 DEF TektonMutationInv, External
  <2>6. TektonSeenInv(n, c \in inflight', run')
    <3>1. c \in inflight' /\ n.op = "cancel" => n.step = "patch"
      BY <1>3, <2>2, <2>3, <2>4, TektonNames DEF TektonStepInv
    <3> QED
      BY <1>1, <2>2, <3>1 DEF TektonCallInv, TektonSeenInv, External
  <2>7. /\ tektonPermits' \in Nat /\ waiters' \in Nat
        /\ tektonPermits' = (tektonPermits + Held(c)) - (IF n.phase = "sent" THEN 1 ELSE 0)
    BY <1>1, <1>5, <2>2, <2>3 DEF TektonInv, SlotsInv, Held
  <2>8. waiters' = (waiters + Slot(c)) - (IF n.waiter THEN 1 ELSE 0)
    BY <2>2, <2>3 DEF TektonInv, SlotsInv, Slot
  <2> QED
    BY <1>1, <2>1, <2>3, <2>4, <2>5, <2>6, <2>7, <2>8, TektonStep DEF External, TektonInv
<1> QED
  BY <1>4, <1>5

\* A call goes on: its next step is one of its operation's, and it still has its slot.
LEMMA GoesOn ==
  ASSUME TektonInv, NEW c \in TektonCalls, NEW changed \in TektonRecord,
         TektonProceed(c, changed), UNCHANGED <<inflight, External>>,
         tcall[c].step \notin MutationSteps \cup {"idle", "done"},
         changed.op = tcall[c].op, changed.waiter = tcall[c].waiter,
         changed.response = tcall[c].response, changed.answer = tcall[c].answer,
         changed.step \notin {"idle", "done"},
         changed.step = "run" => changed.op # "dispatch",
         changed.step \in {"workflows", "post"} => changed.op \in {"dispatch", "rerun"},
         changed.step = "patch" => changed.op = "cancel",
         changed.step = "sleep" \/ changed.final => changed.op = "wait",
         TektonSeenInv(changed, FALSE, run)
  PROVE  TektonInv'
<1> DEFINE n == [changed EXCEPT !.phase = "ready"]
<1>1. TektonCallInv(c)
  BY DEF TektonInv
<1>2. n \in TektonRecord
  BY TektonFieldUpdates
<1>3. /\ n.op = changed.op /\ n.step = changed.step /\ n.phase = "ready"
      /\ n.waiter = changed.waiter /\ n.seen = changed.seen /\ n.answer = changed.answer
      /\ n.final = changed.final /\ n.response = changed.response
  BY DEF TektonRecord
<1>4. n = [changed EXCEPT !.phase = "ready"]
  OBVIOUS
<1> HIDE DEF n
<1>5. tcall[c].answer = "none" /\ tcall[c].response = "none"
        /\ tcall[c].waiter = (tcall[c].op = "wait") /\ tcall[c].op # "none"
  BY <1>1 DEF TektonCallInv, TektonStepInv
<1>6. TektonStepInv(n)
  BY <1>3, <1>5 DEF TektonStepInv
<1>7. TektonSeenInv(n, FALSE, run)
  BY <1>3 DEF TektonSeenInv
<1> QED
  BY <1>2, <1>4, <1>5, <1>6, <1>7, ProceedStep

\* ReadFails keeps the invariant.
LEMMA ReadFailsStep ==
  ASSUME TektonInv, NEW c \in TektonCalls, ReadFails(c)
  PROVE  TektonInv'
<1>1. tcall[c].step \notin MutationSteps \cup {"idle", "done"}
  BY TektonNames DEF ReadFails
<1>2. c \notin inflight \cup tektonApplied
  BY <1>1, NothingSent
<1> QED
  BY <1>1, <1>2, FailStep, TektonNames DEF ReadFails

\* ReadRun keeps the invariant.
LEMMA ReadRunStep ==
  ASSUME TektonInv, NEW c \in TektonCalls, ReadRun(c)
  PROVE  TektonInv'
<1>1. /\ tcall[c] \in TektonRecord /\ TektonCallInv(c) /\ run \in SeenRun
      /\ tcall[c].step = "run" /\ UNCHANGED <<inflight, External>>
  BY DEF TektonInv, ReadRun
<1>2. tcall[c].step \notin MutationSteps \cup {"idle", "done"}
  BY <1>1, TektonNames
<1>3. c \notin inflight \cup tektonApplied
  BY <1>2, NothingSent
<1>4. CASE run.status = "absent"
  BY <1>1, <1>2, <1>3, <1>4, FailStep, TektonNames DEF ReadRun
<1>5. CASE run.status # "absent"
  <2> DEFINE changed == [tcall[c] EXCEPT !.step = "catalog", !.seen = run]
  <2>1. changed \in TektonRecord
    <3>1. [tcall[c] EXCEPT !.step = "catalog"] \in TektonRecord
      BY <1>1, TektonNames, TektonFieldUpdates
    <3> QED
      BY <1>1, <3>1, TektonFieldUpdates
  <2>2. /\ changed.op = tcall[c].op /\ changed.step = "catalog" /\ changed.seen = run
        /\ changed.waiter = tcall[c].waiter /\ changed.answer = tcall[c].answer
        /\ changed.final = tcall[c].final /\ changed.response = tcall[c].response
    BY <1>1 DEF TektonRecord
  <2>3. TektonProceed(c, changed)
    BY <1>5 DEF ReadRun
  <2> HIDE DEF changed
  <2>4. TektonSeenInv(changed, FALSE, run)
    BY <1>1, <2>2 DEF TektonSeenInv, SeenRun
  <2>5. changed.final => changed.op = "wait"
    BY <1>1, <2>2 DEF TektonCallInv, TektonStepInv
  <2> QED
    BY <1>1, <1>2, <2>1, <2>2, <2>3, <2>4, <2>5, GoesOn
<1> QED
  BY <1>4, <1>5

\* What a call does once it owns the run that it has seen.
LEMMA ContinueStep ==
  ASSUME TektonInv, NEW c \in TektonCalls, NEW r \in Repositories \cup {"none"}, Continue(c, r),
         tcall[c].step = "catalog", UNCHANGED <<inflight, External>>
  PROVE  TektonInv'
<1> DEFINE k == [tcall[c] EXCEPT !.repository = r]
<1>1. tcall[c] \in TektonRecord /\ TektonCallInv(c)
  BY DEF TektonInv
<1>2. tcall[c].step \notin MutationSteps \cup {"idle", "done"}
  BY TektonNames
<1>3. c \notin inflight \cup tektonApplied
  BY <1>2, NothingSent
<1>4. k \in TektonRecord
  BY <1>1, TektonFieldUpdates
<1>5. /\ k.op = tcall[c].op /\ k.step = tcall[c].step /\ k.phase = tcall[c].phase
      /\ k.waiter = tcall[c].waiter /\ k.seen = tcall[c].seen /\ k.answer = tcall[c].answer
      /\ k.final = tcall[c].final /\ k.response = tcall[c].response
  BY <1>1 DEF TektonRecord
<1>6. k.op \in {"get", "wait", "dispatch", "rerun", "cancel"} /\ (k.final => k.op = "wait")
  BY <1>1, <1>2, <1>5 DEF TektonCallInv, TektonStepInv, TektonRecord
<1>7. /\ k.op = "get" => TektonFinish(c, [k EXCEPT !.answer = "run"])
      /\ k.op \in {"rerun", "dispatch"} => TektonProceed(c, [k EXCEPT !.step = "workflows"])
      /\ k.op = "cancel" /\ k.seen.status # "running" => Fail(c, "mutation_rejected")
      /\ k.op = "cancel" /\ k.seen.status = "running" =>
           TektonProceed(c, [k EXCEPT !.step = "patch"])
      /\ k.op = "wait" /\ (k.final \/ k.seen.status \in Terminal) =>
           TektonFinish(c, [k EXCEPT !.answer = "run", !.timed_out = k.final])
      /\ k.op = "wait" /\ ~(k.final \/ k.seen.status \in Terminal) =>
           TektonProceed(c, [k EXCEPT !.step = "sleep"])
  BY <1>5 DEF Continue
<1> HIDE DEF k
<1>8. ASSUME NEW s \in {"workflows", "patch", "sleep"}, TektonProceed(c, [k EXCEPT !.step = s]),
             s = "workflows" => k.op \in {"dispatch", "rerun"},
             s = "patch" => k.op = "cancel" /\ k.seen.status = "running",
             s = "sleep" => k.op = "wait"
      PROVE  TektonInv'
  <2> DEFINE changed == [k EXCEPT !.step = s]
  <2>1. changed \in TektonRecord
    BY <1>4, TektonNames, TektonFieldUpdates
  <2>2. /\ changed.op = k.op /\ changed.step = s /\ changed.seen = k.seen
        /\ changed.waiter = k.waiter /\ changed.answer = k.answer
        /\ changed.final = k.final /\ changed.response = k.response
    BY <1>4, <2>1 DEF TektonRecord
  <2>3. TektonProceed(c, changed)
    BY <1>8
  <2> HIDE DEF changed
  <2>4. TektonSeenInv(changed, FALSE, run)
    BY <1>1, <1>5, <1>8, <2>2 DEF TektonSeenInv, TektonCallInv
  <2> QED
    BY <1>2, <1>5, <1>6, <1>8, <2>1, <2>2, <2>3, <2>4, GoesOn
<1>9. ASSUME NEW l \in BOOLEAN, TektonFinish(c, [k EXCEPT !.answer = "run", !.timed_out = l]),
             k.op = "wait" => l \/ k.seen.status \in Terminal
      PROVE  TektonInv'
  <2> DEFINE changed == [k EXCEPT !.answer = "run", !.timed_out = l]
  <2>1. changed \in TektonRecord
    <3>1. [k EXCEPT !.answer = "run"] \in TektonRecord
      BY <1>4, TektonNames, TektonFieldUpdates
    <3> QED
      BY <3>1, TektonFieldUpdates
  <2>2. /\ changed.op = k.op /\ changed.step = k.step /\ changed.phase = k.phase
        /\ changed.seen = k.seen /\ changed.answer = "run" /\ changed.timed_out = l
    BY <1>4 DEF TektonRecord
  <2>3. TektonFinish(c, changed)
    BY <1>9
  <2> HIDE DEF changed
  <2> QED
    BY <1>2, <1>3, <1>5, <1>6, <1>9, <2>1, <2>2, <2>3, FinishStep
<1>10. CASE k.op = "get"
  <2> DEFINE changed == [k EXCEPT !.answer = "run"]
  <2>1. changed \in TektonRecord
    BY <1>4, TektonNames, TektonFieldUpdates
  <2>2. /\ changed.op = k.op /\ changed.step = k.step /\ changed.phase = k.phase
        /\ changed.answer = "run"
    BY <1>4 DEF TektonRecord
  <2>3. TektonFinish(c, changed)
    BY <1>7, <1>10
  <2> HIDE DEF changed
  <2> QED
    BY <1>2, <1>3, <1>5, <1>10, <2>1, <2>2, <2>3, FinishStep
<1>11. CASE k.op \in {"rerun", "dispatch"}
  BY <1>7, <1>8, <1>11
<1>12. CASE k.op = "cancel"
  <2>1. CASE k.seen.status = "running"
    BY <1>7, <1>8, <1>12, <2>1
  <2>2. CASE k.seen.status # "running"
    BY <1>2, <1>3, <1>7, <1>12, <2>2, FailStep, TektonNames
  <2> QED
    BY <2>1, <2>2
<1>13. CASE k.op = "wait"
  <2>1. CASE k.final \/ k.seen.status \in Terminal
    <3>1. k.final \in BOOLEAN
      BY <1>4 DEF TektonRecord
    <3> QED
      BY <1>7, <1>9, <1>13, <2>1, <3>1
  <2>2. CASE ~(k.final \/ k.seen.status \in Terminal)
    BY <1>7, <1>8, <1>13, <2>2
  <2> QED
    BY <2>1, <2>2
<1> QED
  BY <1>6, <1>10, <1>11, <1>12, <1>13

\* ReadCatalog keeps the invariant.
LEMMA ReadCatalogStep ==
  ASSUME TektonInv, NEW c \in TektonCalls, ReadCatalog(c)
  PROVE  TektonInv'
<1>1. tcall[c].step = "catalog" /\ UNCHANGED <<inflight, External>>
  BY DEF ReadCatalog
<1>2. tcall[c].step \notin MutationSteps \cup {"idle", "done"}
  BY <1>1, TektonNames
<1>3. c \notin inflight \cup tektonApplied
  BY <1>2, NothingSent
<1>4. CASE catalog = "none" \/ tcall[c].repository \notin {"none", catalog}
  BY <1>1, <1>2, <1>3, <1>4, FailStep, TektonNames DEF ReadCatalog
<1>5. CASE ~(catalog = "none" \/ tcall[c].repository \notin {"none", catalog})
  BY <1>1, <1>5, ContinueStep DEF ReadCatalog, TektonInv
<1> QED
  BY <1>4, <1>5

\* ReadWorkflows keeps the invariant.
LEMMA ReadWorkflowsStep ==
  ASSUME TektonInv, NEW c \in TektonCalls, ReadWorkflows(c)
  PROVE  TektonInv'
<1>1. /\ tcall[c] \in TektonRecord /\ TektonCallInv(c)
      /\ tcall[c].step = "workflows" /\ UNCHANGED <<inflight, External>>
  BY DEF ReadWorkflows, TektonInv
<1>2. tcall[c].step \notin MutationSteps \cup {"idle", "done"}
  BY <1>1, TektonNames
<1>3. c \notin inflight \cup tektonApplied
  BY <1>2, NothingSent
<1>4. CASE Fail(c, "mutation_rejected")
  BY <1>1, <1>2, <1>3, <1>4, FailStep, TektonNames
<1>5. CASE TektonProceed(c, [tcall[c] EXCEPT !.step = "post"])
  <2> DEFINE changed == [tcall[c] EXCEPT !.step = "post"]
  <2>1. changed \in TektonRecord
    BY <1>1, TektonNames, TektonFieldUpdates
  <2>2. /\ changed.op = tcall[c].op /\ changed.step = "post" /\ changed.waiter = tcall[c].waiter
        /\ changed.answer = tcall[c].answer /\ changed.final = tcall[c].final
        /\ changed.response = tcall[c].response
    BY <1>1 DEF TektonRecord
  <2>3. TektonProceed(c, changed)
    BY <1>5
  <2> HIDE DEF changed
  <2>4. changed.op \in {"dispatch", "rerun"} /\ ~changed.final
    BY <1>1, <2>2 DEF TektonCallInv, TektonStepInv
  <2>5. TektonSeenInv(changed, FALSE, run)
    BY <2>4 DEF TektonSeenInv
  <2> QED
    BY <1>1, <1>2, <2>1, <2>2, <2>3, <2>4, <2>5, GoesOn
<1> QED
  BY <1>4, <1>5 DEF ReadWorkflows

\* A mutation that is on its way arrives, is carried out or not, and is answered if its
\* caller still waits.
LEMMA ArrivalStep ==
  ASSUME TektonInv, NEW c \in TektonCalls, c \in inflight, inflight' = inflight \ {c},
         NEW r \in {"2xx", "4xx", "5xx"}, r = "4xx" => c \notin tektonApplied',
         tcall' = IF tcall[c].phase = "sent" THEN [tcall EXCEPT ![c].response = r] ELSE tcall,
         tektonApplied' \ {c} = tektonApplied \ {c},
         run' \in SeenRun, run' = run \/ run'.version = run.version + 1,
         UNCHANGED <<tektonPermits, waiters, catalog, offered>>
  PROVE  TektonInv'
<1>1. /\ tcall[c] \in TektonRecord /\ TektonCallInv(c) /\ run \in SeenRun
      /\ tcall \in [TektonCalls -> TektonRecord]
  BY DEF TektonInv
<1> DEFINE n == IF tcall[c].phase = "sent" THEN [tcall[c] EXCEPT !.response = r] ELSE tcall[c]
<1>2. n \in TektonRecord
  BY <1>1, TektonFieldUpdates
<1>3. /\ n.op = tcall[c].op /\ n.step = tcall[c].step /\ n.phase = tcall[c].phase
      /\ n.waiter = tcall[c].waiter /\ n.seen = tcall[c].seen /\ n.answer = tcall[c].answer
      /\ n.final = tcall[c].final /\ n.timed_out = tcall[c].timed_out
      /\ n.response = IF tcall[c].phase = "sent" THEN r ELSE tcall[c].response
  BY <1>1 DEF TektonRecord
<1>4. tcall' = [tcall EXCEPT ![c] = n]
  BY <1>1
<1> HIDE DEF n
<1>5. tcall[c].phase = "sent" => tcall[c].step \in MutationSteps
  BY <1>1 DEF TektonCallInv, TektonMutationInv, TektonStepInv
<1>6. TektonStepInv(n)
  BY <1>1, <1>3, <1>5 DEF TektonCallInv, TektonStepInv
<1>7. TektonMutationInv(n, c \in inflight', c \in tektonApplied')
  BY <1>1, <1>3 DEF TektonCallInv, TektonMutationInv, TektonStepInv
<1>8. TektonSeenInv(n, c \in inflight', run')
  <2>1. TektonSeenInv(tcall[c], c \in inflight, run')
    BY <1>1, SeenLater DEF TektonCallInv
  <2> QED
    BY <1>3, <2>1 DEF TektonSeenInv
<1>9. /\ tektonPermits' \in Nat /\ waiters' \in Nat
      /\ tektonPermits' = (tektonPermits + Held(c)) - (IF n.phase = "sent" THEN 1 ELSE 0)
      /\ waiters' = (waiters + Slot(c)) - (IF n.waiter THEN 1 ELSE 0)
  BY <1>3 DEF TektonInv, SlotsInv, Held, Slot
<1> QED
  BY <1>2, <1>4, <1>6, <1>7, <1>8, <1>9, TektonStep

\* Carry keeps the invariant.
LEMMA CarryStep ==
  ASSUME TektonInv, NEW c \in TektonCalls, Carry(c)
  PROVE  TektonInv'
<1>1. PICK r \in {"2xx", "5xx"} :
        tcall' = IF tcall[c].phase = "sent" THEN [tcall EXCEPT ![c].response = r] ELSE tcall
  BY DEF Carry
<1>2. /\ c \in inflight /\ inflight' = inflight \ {c} /\ tektonApplied' = tektonApplied \cup {c}
      /\ UNCHANGED <<tektonPermits, waiters, catalog, offered>>
  BY DEF Carry
<1>3. run' \in SeenRun /\ (run' = run \/ run'.version = run.version + 1)
  <2>1. run \in SeenRun
    BY DEF TektonInv
  <2>2. run' = run \/ run' = [run EXCEPT !.version = @ + 1]
    BY DEF Carry
  <2> QED
    BY <2>1, <2>2 DEF SeenRun
<1> QED
  BY <1>1, <1>2, <1>3, ArrivalStep

\* Decline keeps the invariant.
LEMMA DeclineStep ==
  ASSUME TektonInv, NEW c \in TektonCalls, Decline(c)
  PROVE  TektonInv'
<1>1. PICK r \in {"4xx", "5xx"} :
        tcall' = IF tcall[c].phase = "sent" THEN [tcall EXCEPT ![c].response = r] ELSE tcall
  BY DEF Decline
<1>2. /\ c \in inflight /\ inflight' = inflight \ {c}
      /\ UNCHANGED <<tektonPermits, waiters, tektonApplied, run, catalog, offered>>
  BY DEF Decline, External
<1>3. c \notin tektonApplied /\ run \in SeenRun
  BY <1>2 DEF TektonInv, TektonCallInv, TektonMutationInv
<1> QED
  BY <1>1, <1>2, <1>3, ArrivalStep

\* MutationAnswered keeps the invariant.
LEMMA MutationAnsweredStep ==
  ASSUME TektonInv, NEW c \in TektonCalls, MutationAnswered(c)
  PROVE  TektonInv'
<1>1. PICK e \in ErrorOf(tcall[c].response) : Fail(c, e)
  BY DEF MutationAnswered
<1>2. /\ tcall[c] \in TektonRecord /\ TektonCallInv(c) /\ tcall[c].step \in MutationSteps
      /\ tcall[c].response \in {"2xx", "4xx", "5xx"} /\ UNCHANGED <<inflight, External>>
  BY DEF MutationAnswered, TektonInv, TektonRecord
<1>3. tcall[c].step \notin {"idle", "done"}
  BY <1>2, TektonNames
<1>4. /\ e \in TektonAnswers \ {"run"}
      /\ tcall[c].response # "4xx" => e \in {"accepted", "mutation_outcome_unknown"}
  BY <1>2, TektonNames DEF ErrorOf, Refusals
<1>5. c \in inflight \cup tektonApplied => e \in {"accepted", "mutation_outcome_unknown"}
  BY <1>2, <1>4 DEF TektonCallInv, TektonMutationInv
<1> QED
  BY <1>1, <1>2, <1>3, <1>4, <1>5, FailStep

\* MutationFails keeps the invariant.
LEMMA MutationFailsStep ==
  ASSUME TektonInv, NEW c \in TektonCalls, MutationFails(c)
  PROVE  TektonInv'
BY FailStep, TektonNames DEF MutationFails

\* Its run is read once more.
LEMMA ReadAgain ==
  ASSUME TektonInv, NEW c \in TektonCalls, NEW last \in BOOLEAN,
         TektonProceed(c, [tcall[c] EXCEPT !.step = "run", !.final = last, !.seen = NoRun]),
         tcall[c].op = "wait", tcall[c].step \in {"run", "catalog", "sleep"},
         UNCHANGED <<inflight, External>>
  PROVE  TektonInv'
<1> DEFINE changed == [tcall[c] EXCEPT !.step = "run", !.final = last, !.seen = NoRun]
<1>1. tcall[c] \in TektonRecord
  BY DEF TektonInv
<1>2. changed \in TektonRecord
  <2>1. [tcall[c] EXCEPT !.step = "run"] \in TektonRecord
    BY <1>1, TektonNames, TektonFieldUpdates
  <2>2. [tcall[c] EXCEPT !.step = "run", !.final = last] \in TektonRecord
    BY <2>1, TektonFieldUpdates
  <2> QED
    BY <2>2, TektonNames, TektonFieldUpdates
<1>3. /\ changed.op = tcall[c].op /\ changed.step = "run" /\ changed.waiter = tcall[c].waiter
      /\ changed.answer = tcall[c].answer /\ changed.response = tcall[c].response
  BY <1>1 DEF TektonRecord
<1>4. TektonProceed(c, changed)
  OBVIOUS
<1> HIDE DEF changed
<1>5. TektonSeenInv(changed, FALSE, run)
  BY <1>3 DEF TektonSeenInv
<1>6. tcall[c].step \notin MutationSteps \cup {"idle", "done"}
  BY TektonNames
<1> QED
  BY <1>2, <1>3, <1>4, <1>5, <1>6, GoesOn

\* Poll keeps the invariant.
LEMMA PollStep ==
  ASSUME TektonInv, NEW c \in TektonCalls, Poll(c)
  PROVE  TektonInv'
<1> DEFINE changed == [tcall[c] EXCEPT !.step = "run", !.seen = NoRun]
<1>1. /\ tcall[c] \in TektonRecord /\ TektonCallInv(c) /\ tcall[c].step = "sleep"
      /\ UNCHANGED <<inflight, External>>
  BY DEF TektonInv, Poll
<1>2. changed \in TektonRecord
  <2>1. [tcall[c] EXCEPT !.step = "run"] \in TektonRecord
    BY <1>1, TektonNames, TektonFieldUpdates
  <2> QED
    BY <2>1, TektonNames, TektonFieldUpdates
<1>3. /\ changed.op = tcall[c].op /\ changed.step = "run" /\ changed.waiter = tcall[c].waiter
      /\ changed.answer = tcall[c].answer /\ changed.response = tcall[c].response
  BY <1>1 DEF TektonRecord
<1>4. TektonProceed(c, changed)
  BY DEF Poll
<1> HIDE DEF changed
<1>5. tcall[c].op = "wait"
  BY <1>1 DEF TektonCallInv, TektonStepInv
<1>6. TektonSeenInv(changed, FALSE, run)
  BY <1>3, <1>5 DEF TektonSeenInv
<1>7. tcall[c].step \notin MutationSteps \cup {"idle", "done"}
  BY <1>1, TektonNames
<1> QED
  BY <1>1, <1>2, <1>3, <1>4, <1>5, <1>6, <1>7, GoesOn

\* TektonDeadline keeps the invariant.
LEMMA TektonDeadlineStep ==
  ASSUME TektonInv, NEW c \in TektonCalls, TektonDeadline(c)
  PROVE  TektonInv'
<1>1. /\ tcall[c].op = "wait" /\ tcall[c].step \in {"run", "catalog", "sleep"}
      /\ UNCHANGED <<inflight, External>>
  BY DEF TektonDeadline
<1>2. c \notin inflight \cup tektonApplied /\ tcall[c].step \notin {"idle", "done"}
  BY <1>1, NothingSent, TektonNames
<1>3. CASE tcall[c].repository = "none"
  BY <1>1, <1>2, <1>3, FailStep, TektonNames DEF TektonDeadline
<1>4. CASE tcall[c].repository # "none"
  BY <1>1, <1>4, ReadAgain DEF TektonDeadline
<1> QED
  BY <1>3, <1>4

\* FinalReadTimesOut keeps the invariant.
LEMMA FinalReadTimesOutStep ==
  ASSUME TektonInv, NEW c \in TektonCalls, FinalReadTimesOut(c)
  PROVE  TektonInv'
<1>1. tcall[c].step \in {"run", "catalog"} /\ UNCHANGED <<inflight, External>>
  BY DEF FinalReadTimesOut
<1>2. c \notin inflight \cup tektonApplied /\ tcall[c].step \notin {"idle", "done"}
  BY <1>1, NothingSent, TektonNames
<1> QED
  BY <1>1, <1>2, FailStep, TektonNames DEF FinalReadTimesOut

\* TektonCancelled keeps the invariant.
LEMMA TektonCancelledStep ==
  ASSUME TektonInv, NEW c \in TektonCalls, TektonCancelled(c)
  PROVE  TektonInv'
<1>1. tcall[c].step \notin {"idle", "done"} /\ UNCHANGED <<inflight, External>>
  BY DEF TektonCancelled
<1>2. CASE tcall[c].op \in Mutations
  BY <1>1, <1>2, FailStep, TektonNames DEF TektonCancelled
<1>3. CASE tcall[c].op \notin Mutations
  <2>1. TektonCallInv(c) /\ tcall[c] \in TektonRecord
    BY DEF TektonInv
  <2>2. tcall[c].step \notin MutationSteps
    BY <1>3, <2>1, TektonNames DEF TektonCallInv, TektonStepInv, Mutations
  <2>3. c \notin inflight \cup tektonApplied
    BY <1>1, <2>2, NothingSent
  <2> QED
    BY <1>1, <1>3, <2>3, FailStep, TektonNames DEF TektonCancelled
<1> QED
  BY <1>2, <1>3

\* What goes on outside: the run gets a later version, the rest is not tied to a call.
LEMMA OutsideStep ==
  ASSUME TektonInv, RunChanges \/ CatalogChanges \/ WorkflowChanges
  PROVE  TektonInv'
<1>1. UNCHANGED <<tektonPermits, waiters, tcall, inflight, tektonApplied>>
  BY DEF RunChanges, CatalogChanges, WorkflowChanges
<1>2. run' \in SeenRun /\ (run' = run \/ run'.version = run.version + 1)
  <2>1. run \in SeenRun
    BY DEF TektonInv
  <2>2. CASE RunChanges
    <3>1. PICK s \in TektonStatuses \cup {"absent"} :
            run' = [status |-> s, version |-> run.version + 1]
      BY <2>2 DEF RunChanges, TektonStatuses
    <3> QED
      BY <2>1, <3>1 DEF SeenRun
  <2>3. CASE CatalogChanges \/ WorkflowChanges
    BY <2>1, <2>3 DEF CatalogChanges, WorkflowChanges
  <2> QED
    BY <2>2, <2>3
<1>3. catalog' \in Repositories \cup {"none"} /\ offered' \in BOOLEAN
  BY DEF RunChanges, CatalogChanges, WorkflowChanges, TektonInv
<1>4. SlotsInv'
  BY <1>1 DEF TektonInv, SlotsInv, Sending, Waiting
<1>5. ASSUME NEW c \in TektonCalls PROVE TektonCallInv(c)'
  <2>1. TektonCallInv(c) /\ run \in SeenRun
    BY DEF TektonInv
  <2>2. TektonSeenInv(tcall[c], c \in inflight, run')
    BY <1>2, <2>1, SeenLater DEF TektonCallInv
  <2> QED
    BY <1>1, <2>1, <2>2 DEF TektonCallInv
<1> QED
  BY <1>1, <1>2, <1>3, <1>4, <1>5 DEF TektonInv

-----------------------------------------------------------------------------
(* The invariant.                                                          *)

\* No call has begun, every permit is free.
LEMMA TektonInit1 == TektonInit => TektonInv
<1> SUFFICES ASSUME TektonInit PROVE TektonInv
  OBVIOUS
<1>1. TektonFresh \in TektonRecord
  BY TektonNames DEF TektonFresh, TektonRecord
<1>2. tcall \in [TektonCalls -> TektonRecord] /\ \A c \in TektonCalls : tcall[c] = TektonFresh
  BY <1>1 DEF TektonInit
<1>3. run \in SeenRun
  BY DEF TektonInit, NoRun, SeenRun, TektonStatuses
<1>4. /\ TektonFresh.op = "none" /\ TektonFresh.step = "idle" /\ TektonFresh.phase = "ready"
      /\ TektonFresh.waiter = FALSE /\ TektonFresh.answer = "none"
      /\ TektonFresh.final = FALSE /\ TektonFresh.response = "none"
  BY DEF TektonFresh
<1>5. SlotsInv
  <2>1. Sending = {} /\ Waiting = {}
    BY <1>2, <1>4 DEF Sending, Waiting
  <2> QED
    BY <2>1, FS_EmptySet, SlotsAssumption DEF SlotsInv, TektonInit
<1>6. ASSUME NEW c \in TektonCalls PROVE TektonCallInv(c)
  <2>1. TektonStepInv(TektonFresh)
    BY <1>4 DEF TektonStepInv, MutationSteps
  <2>2. c \notin inflight /\ c \notin tektonApplied
    BY DEF TektonInit
  <2> QED
    BY <1>1, <1>2, <1>4, <2>1, <2>2 DEF TektonCallInv, TektonMutationInv, TektonSeenInv
<1> QED
  BY <1>2, <1>3, <1>5, <1>6 DEF TektonInit, TektonInv

\* The steps that one call takes by itself.
CallSteps(c) ==
  TektonBegin(c) \/ RefuseInput(c) \/ Ends(c) \/ TektonDeadline(c) \/ TektonCancelled(c)

\* Every step of the Tekton client keeps its invariant.
LEMMA TektonNext1 == TektonInv /\ [TektonNext]_tektonVars => TektonInv'
<1> SUFFICES ASSUME TektonInv, [TektonNext]_tektonVars PROVE TektonInv'
  OBVIOUS
<1>1. CASE UNCHANGED tektonVars
  <2>1. SlotsInv'
    BY <1>1 DEF tektonVars, TektonInv, SlotsInv, Sending, Waiting
  <2>2. ASSUME NEW c \in TektonCalls PROVE TektonCallInv(c)'
    BY <1>1 DEF tektonVars, TektonInv, TektonCallInv
  <2> QED
    BY <1>1, <2>1, <2>2 DEF tektonVars, TektonInv
<1>2. ASSUME NEW c \in TektonCalls, Ends(c) PROVE TektonInv'
  BY <1>2, TokenUnreadableStep, TektonSendStep, ReadFailsStep, ReadRunStep, ReadCatalogStep,
     ReadWorkflowsStep, MutationAnsweredStep, MutationFailsStep, PollStep, FinalReadTimesOutStep
     DEF Ends
<1>3. ASSUME NEW c \in TektonCalls, CallSteps(c) PROVE TektonInv'
  BY <1>2, <1>3, TektonBeginStep, RefuseInputStep, TektonDeadlineStep, TektonCancelledStep
     DEF CallSteps
<1>4. ASSUME NEW c \in TektonCalls, Carry(c) \/ Decline(c) PROVE TektonInv'
  BY <1>4, CarryStep, DeclineStep
<1>5. CASE RunChanges \/ CatalogChanges \/ WorkflowChanges
  BY <1>5, OutsideStep
<1> QED
  BY <1>1, <1>3, <1>4, <1>5 DEF TektonNext, CallSteps

\* The invariant holds in every reachable state.
LEMMA TektonInvHolds == TektonSpec => []TektonInv
<1>1. TektonInit => TektonInv
  BY TektonInit1
<1>2. TektonInv /\ [TektonNext]_tektonVars => TektonInv'
  BY TektonNext1
<1> QED
  BY <1>1, <1>2, PTL DEF TektonSpec

-----------------------------------------------------------------------------
(* The permits and slots, and the answers.                                 *)

\* Every permit is free or with a request on its way, every slot free or with a wait that is
\* not over, however answers, timeouts, deadlines and cancellations mix
\* (client.rs:340-384, 946-1008).
THEOREM TektonResourcesHold == TektonSpec => []TektonResourcesAccounted
<1>1. TektonInv => TektonResourcesAccounted
  BY DEF TektonInv, SlotsInv, Sending, Waiting, TektonResourcesAccounted, TektonCallInv,
         TektonStepInv
<1> QED
  BY <1>1, TektonInvHolds, PTL

\* A caller who is told of a definite error can rely on it: the mutation was not carried out
\* and is not on its way (client.rs:946-1008, mcp.rs:780-823).
THEOREM TektonErrorsHold == TektonSpec => []TektonDefiniteErrorNotApplied
<1>1. TektonInv => TektonDefiniteErrorNotApplied
  BY DEF TektonInv, TektonDefiniteErrorNotApplied, TektonCallInv, TektonMutationInv, MutationSteps
<1> QED
  BY <1>1, TektonInvHolds, PTL

\* A wait that does not say it timed out has seen the run finish (client.rs:340-384).
THEOREM WaitAnswersHold == TektonSpec => []WaitAnswers
<1>1. TektonInv => WaitAnswers
  BY DEF TektonInv, WaitAnswers, TektonCallInv, TektonStepInv
<1> QED
  BY <1>1, TektonInvHolds, PTL

-----------------------------------------------------------------------------
(* Acting on what was read.                                                *)

\* Only its own arrival applies a mutation.
LEMMA AppliedByCarry ==
  ASSUME NEW c \in TektonCalls, c \in tektonApplied' \ tektonApplied, TektonNext
  PROVE  Carry(c)
<1>1. ASSUME NEW d \in TektonCalls, CallSteps(d) PROVE UNCHANGED tektonApplied
  BY <1>1 DEF CallSteps, Ends, TektonBegin, RefuseInput, TokenUnreadable, TektonSend, ReadFails,
              ReadRun, ReadCatalog, ReadWorkflows, MutationAnswered, MutationFails, Poll,
              FinalReadTimesOut, TektonDeadline, TektonCancelled, External
<1>2. ASSUME NEW d \in TektonCalls, Decline(d) PROVE UNCHANGED tektonApplied
  BY <1>2 DEF Decline, External
<1>3. ~(RunChanges \/ CatalogChanges \/ WorkflowChanges)
  BY DEF RunChanges, CatalogChanges, WorkflowChanges
<1>4. ASSUME NEW d \in TektonCalls, Carry(d) PROVE d = c
  BY <1>4 DEF Carry
<1> QED
  BY <1>1, <1>2, <1>3, <1>4 DEF TektonNext, CallSteps

\* A cancellation that is applied hits the run at the version that was read.
LEMMA TektonCancelStep == TektonInv /\ [TektonNext]_tektonVars =>
  \A c \in TektonCalls : c \in tektonApplied' \ tektonApplied /\ tcall[c].op = "cancel" =>
    run.status = "running" /\ run.version = tcall[c].seen.version
<1> SUFFICES ASSUME TektonInv, [TektonNext]_tektonVars, NEW c \in TektonCalls,
                    c \in tektonApplied' \ tektonApplied, tcall[c].op = "cancel"
             PROVE  run.status = "running" /\ run.version = tcall[c].seen.version
  OBVIOUS
<1>1. Carry(c)
  BY AppliedByCarry DEF tektonVars
<1>2. c \in inflight /\ run.version = tcall[c].seen.version
  BY <1>1 DEF Carry, CancelPrecondition
<1> QED
  BY <1>2 DEF TektonInv, TektonCallInv, TektonSeenInv

\* What a step does to the answer of the call that takes it.
LEMMA FailAnswer ==
  ASSUME TektonInv, NEW c \in TektonCalls, NEW e \in TektonAnswers, Fail(c, e)
  PROVE  tcall'[c].answer = e
<1>1. tcall \in [TektonCalls -> TektonRecord] /\ tcall[c] \in TektonRecord
  BY DEF TektonInv
<1>2. [tcall[c] EXCEPT !.answer = e] \in TektonRecord
  BY <1>1, TektonFieldUpdates
<1>3. Over([tcall[c] EXCEPT !.answer = e]).answer = e
  BY <1>1, <1>2, OverFacts DEF TektonRecord
<1> QED
  BY <1>1, <1>3 DEF Fail, TektonFinish

\* A call that goes on has the answer it was given.
LEMMA ProceedAnswer ==
  ASSUME TektonInv, NEW c \in TektonCalls, NEW changed \in TektonRecord, TektonProceed(c, changed)
  PROVE  tcall'[c].answer = changed.answer
<1>1. tcall'[c] = [changed EXCEPT !.phase = "ready"]
  BY DEF TektonInv, TektonProceed
<1> QED
  BY <1>1 DEF TektonRecord

\* Only what a wait reads in the catalog lets it answer with the run.
LEMMA AnswersAtCatalog ==
  ASSUME TektonInv, NEW c \in TektonCalls, tcall[c].op = "wait", tcall[c].step # "done",
         tcall'[c].answer = "run", TektonNext
  PROVE  ReadCatalog(c) /\ Continue(c, catalog)
<1>1. /\ tcall \in [TektonCalls -> TektonRecord] /\ tcall[c] \in TektonRecord
      /\ tcall[c].answer = "none" /\ tcall[c].step \notin {"idle", "done"}
  BY DEF TektonInv, TektonCallInv, TektonStepInv
<1>2. \A e \in TektonAnswers : Fail(c, e) => e = "run"
  BY FailAnswer
<1>3. ASSUME NEW d \in TektonCalls, d # c, CallSteps(d) \/ Carry(d) \/ Decline(d)
      PROVE  tcall'[c] = tcall[c]
  <2>1. \A k : TektonFinish(d, k) \/ TektonProceed(d, k) => tcall'[c] = tcall[c]
    BY <1>1, <1>3 DEF TektonFinish, TektonProceed
  <2>2. \A e : Fail(d, e) => tcall'[c] = tcall[c]
    BY <2>1 DEF Fail
  <2>3. TektonBegin(d) => tcall'[c] = tcall[c]
    BY <1>1, <1>3, <2>1 DEF TektonBegin
  <2>4. Carry(d) \/ Decline(d) \/ TektonSend(d) => tcall'[c] = tcall[c]
    BY <1>1, <1>3, <2>2 DEF Carry, Decline, TektonSend
  <2>5. ReadCatalog(d) => tcall'[c] = tcall[c]
    <3>1. ASSUME ReadCatalog(d) PROVE tcall[d].op \in {"get", "wait", "dispatch", "rerun", "cancel"}
      BY <3>1 DEF ReadCatalog, TektonInv, TektonCallInv, TektonStepInv, TektonRecord
    <3>2. ASSUME NEW r, NEW k, k = [tcall[d] EXCEPT !.repository = r], k.op = tcall[d].op,
                 Continue(d, r), ReadCatalog(d)
          PROVE  tcall'[c] = tcall[c]
      BY <2>1, <2>2, <3>1, <3>2 DEF Continue
    <3>3. [tcall[d] EXCEPT !.repository = catalog].op = tcall[d].op
      BY DEF TektonInv, TektonRecord
    <3> QED
      BY <2>2, <3>2, <3>3 DEF ReadCatalog
  <2>6. ASSUME RefuseInput(d) \/ TokenUnreadable(d) \/ ReadFails(d) \/ ReadRun(d)
                 \/ ReadWorkflows(d) \/ MutationAnswered(d) \/ MutationFails(d) \/ Poll(d)
                 \/ FinalReadTimesOut(d) \/ TektonDeadline(d) \/ TektonCancelled(d)
        PROVE  tcall'[c] = tcall[c]
    BY <2>1, <2>2, <2>6 DEF RefuseInput, TokenUnreadable, ReadFails, ReadRun, ReadWorkflows,
       MutationAnswered, MutationFails, Poll, FinalReadTimesOut, TektonDeadline, TektonCancelled
  <2> QED
    BY <1>3, <2>3, <2>4, <2>5, <2>6 DEF CallSteps, Ends
<1>4. ASSUME NEW k \in TektonRecord, k.answer = "none" PROVE ~TektonProceed(c, k)
  BY <1>4, ProceedAnswer
<1>5. ~(TektonBegin(c) \/ RefuseInput(c))
  BY <1>1 DEF TektonBegin, RefuseInput
<1>6. ~(TokenUnreadable(c) \/ ReadFails(c) \/ MutationAnswered(c) \/ MutationFails(c)
          \/ FinalReadTimesOut(c) \/ TektonCancelled(c))
  <2>1. ~MutationAnswered(c)
    BY <1>1, <1>2, TektonNames
       DEF MutationAnswered, ErrorOf, Refusals, TektonRecord, TektonInv, TektonCallInv,
           TektonStepInv
  <2> QED
    BY <1>2, <2>1, TektonNames DEF TokenUnreadable, ReadFails, MutationFails, FinalReadTimesOut,
       TektonCancelled
<1>7. ~(TektonSend(c) \/ Carry(c) \/ Decline(c))
  <2>1. ~TektonSend(c)
    BY <1>1, <1>2, TektonNames DEF TektonSend, TektonRecord
  <2>2. ~(Carry(c) \/ Decline(c))
    BY <1>1 DEF Carry, Decline, TektonRecord
  <2> QED
    BY <2>1, <2>2
<1>8. ~(ReadRun(c) \/ ReadWorkflows(c) \/ Poll(c) \/ TektonDeadline(c))
  <2>1. ASSUME NEW t \in TektonSteps
        PROVE  ~TektonProceed(c, [tcall[c] EXCEPT !.step = t])
    <3>1. [tcall[c] EXCEPT !.step = t] \in TektonRecord
      BY <1>1, TektonFieldUpdates
    <3>2. [tcall[c] EXCEPT !.step = t].answer = "none"
      BY <1>1 DEF TektonRecord
    <3> QED
      BY <1>4, <3>1, <3>2
  <2>2. ASSUME NEW t \in TektonSteps, NEW s \in SeenRun
        PROVE  ~TektonProceed(c, [tcall[c] EXCEPT !.step = t, !.seen = s])
    <3>1. [tcall[c] EXCEPT !.step = t] \in TektonRecord
      BY <1>1, TektonFieldUpdates
    <3>2. [tcall[c] EXCEPT !.step = t, !.seen = s] \in TektonRecord
      BY <3>1, TektonFieldUpdates
    <3>3. [tcall[c] EXCEPT !.step = t, !.seen = s].answer = "none"
      BY <1>1 DEF TektonRecord
    <3> QED
      BY <1>4, <3>2, <3>3
  <2>3. ~TektonProceed(c, [tcall[c] EXCEPT !.step = "run", !.final = TRUE, !.seen = NoRun])
    <3>1. [tcall[c] EXCEPT !.step = "run"] \in TektonRecord
      BY <1>1, TektonNames, TektonFieldUpdates
    <3>2. [tcall[c] EXCEPT !.step = "run", !.final = TRUE] \in TektonRecord
      BY <3>1, TektonFieldUpdates
    <3>3. [tcall[c] EXCEPT !.step = "run", !.final = TRUE, !.seen = NoRun] \in TektonRecord
      BY <3>2, TektonNames, TektonFieldUpdates
    <3>4. [tcall[c] EXCEPT !.step = "run", !.final = TRUE, !.seen = NoRun].answer = "none"
      BY <1>1 DEF TektonRecord
    <3> QED
      BY <1>4, <3>3, <3>4
  <2>4. ~ReadRun(c)
    BY <1>2, <2>2, TektonNames DEF ReadRun, TektonInv
  <2>5. ~ReadWorkflows(c)
    BY <1>2, <2>1, TektonNames DEF ReadWorkflows
  <2>6. ~Poll(c)
    BY <2>2, TektonNames DEF Poll
  <2>7. ~TektonDeadline(c)
    BY <1>2, <2>3, TektonNames DEF TektonDeadline
  <2> QED
    BY <2>4, <2>5, <2>6, <2>7
<1>9. ~(RunChanges \/ CatalogChanges \/ WorkflowChanges)
  BY <1>1 DEF RunChanges, CatalogChanges, WorkflowChanges
<1>10. ReadCatalog(c)
  <2>1. PICK d \in TektonCalls : CallSteps(d) \/ Carry(d) \/ Decline(d)
    BY <1>9 DEF TektonNext, CallSteps
  <2>2. d = c
    BY <1>1, <1>3, <2>1
  <2> QED
    BY <1>5, <1>6, <1>7, <1>8, <2>1, <2>2 DEF CallSteps, Ends
<1> QED
  BY <1>2, <1>10, TektonNames DEF ReadCatalog

\* A wait that answers names the repository it began with.
LEMMA WaitStep == TektonInv /\ [TektonNext]_tektonVars =>
  \A c \in TektonCalls :
    tcall[c].op = "wait" /\ tcall[c].repository # "none" /\ tcall'[c].answer = "run"
      /\ tcall[c].step # "done"
    => catalog = tcall[c].repository
<1> SUFFICES ASSUME TektonInv, [TektonNext]_tektonVars, NEW c \in TektonCalls,
                    tcall[c].op = "wait", tcall[c].repository # "none",
                    tcall'[c].answer = "run", tcall[c].step # "done"
             PROVE  catalog = tcall[c].repository
  OBVIOUS
<1>1. CASE UNCHANGED tektonVars
  BY <1>1 DEF tektonVars, TektonInv, TektonCallInv, TektonStepInv
<1>2. CASE TektonNext
  <2>1. ReadCatalog(c)
    BY <1>2, AnswersAtCatalog
  <2>2. \A e \in TektonAnswers : Fail(c, e) => e = "run"
    BY FailAnswer
  <2> QED
    BY <2>1, <2>2, TektonNames DEF ReadCatalog
<1> QED
  BY <1>1, <1>2

\* A call does what it does with what it read: a cancellation reaches only the version of the
\* run that was found running, a wait answers only for the repository it began with
\* (client.rs:340-384, 538-560).
THEOREM ActsOnWhatWasReadHolds == TektonSpec => ActsOnWhatWasRead
<1>1. TektonInv /\ [TektonNext]_tektonVars =>
        [\A c \in TektonCalls : c \in tektonApplied' \ tektonApplied /\ tcall[c].op = "cancel" =>
           /\ run.status = "running"
           /\ run.version = tcall[c].seen.version]_tektonVars
  BY TektonCancelStep
<1>2. TektonInv /\ [TektonNext]_tektonVars =>
        [\A c \in TektonCalls :
           tcall[c].op = "wait" /\ tcall[c].repository # "none" /\ tcall'[c].answer = "run"
             /\ tcall[c].step # "done"
           => catalog = tcall[c].repository]_tektonVars
  BY WaitStep
<1>3. TektonSpec => CancelHitsTheRunSeen
  BY <1>1, TektonInvHolds, PTL DEF TektonSpec, CancelHitsTheRunSeen
<1>4. TektonSpec => WaitKeepsRepository
  BY <1>2, TektonInvHolds, PTL DEF TektonSpec, WaitKeepsRepository
<1> QED
  BY <1>3, <1>4 DEF ActsOnWhatWasRead

-----------------------------------------------------------------------------
(***************************************************************************)
(* The Grafana client, and the four clients together.                      *)
(*                                                                         *)
(* GrafanaInv says of each call how its step, its span, its guard and its  *)
(* answer go together, and of a silence what became of its request; the    *)
(* permits and the metrics are the sizes of sets of calls, so a step of    *)
(* one call changes each by what that call contributes.                    *)
(***************************************************************************)

GrafanaSteps == {"idle", "begun", "permit", "ready", "sent", "body", "returned", "done"}
GrafanaAnswers ==
  (GrafanaOutcomes \ {"cancelled"}) \cup {"none", "render_timeout", "request_cancelled"}
SpanOutcomes ==
  {"none", "open", "success", "cancelled", "http_error", "transport_error", "response_error"}
GrafanaRecord ==
  [action : Actions, step : GrafanaSteps, response : GrafanaStatuses \cup {"none"},
   http : SpanOutcomes, finished : BOOLEAN, answer : GrafanaAnswers]

\* How the span of a call stands to its step and to what its caller was told.
SpanInv(k) ==
  /\ k.step \in {"idle", "begun", "permit", "ready"} => k.http = "none"
  /\ k.step \in {"sent", "body"} => k.http = "open"
  /\ k.finished =>
       /\ k.http # "open"
       /\ k.answer = "success" => k.http = "success"
       /\ k.http = "cancelled" =>
            k.answer \in {"timeout", "render_timeout", "request_cancelled",
                          "mutation_outcome_unknown"}
       /\ k.answer \in {"timeout", "render_timeout", "request_cancelled"} => k.http = "cancelled"

\* The guard has finished when the call has returned, and not while it is on its way; only a
\* render stands between two permits, and no response comes before the request is sent.
GuardInv(k) ==
  /\ k.step \in {"idle", "begun", "permit", "ready", "sent", "body"} => ~k.finished
  /\ k.step = "returned" => k.finished
  /\ k.finished => k.answer # "none"
  /\ k.step = "permit" => k.action \in Renders
  /\ k.step \in {"idle", "begun", "permit", "ready"} => k.response = "none"

\* What is known of a silence whose request was sent.
SilenceInv(c) ==
  LET k == gcall[c] IN
  c \in sent \cup grafanaApplied =>
    /\ k.action = Silence /\ k.step \notin {"idle", "begun", "permit", "ready"}
    /\ c \in sent /\ k.step = "sent" => k.response = "none"
    /\ c \in sent => c \notin grafanaApplied
    /\ k.step = "sent" => k.response \in {"none", "200", "2xx", "4xx", "5xx"}
    /\ k.step \in {"returned", "done"} => k.answer \in {"success", "mutation_outcome_unknown"}

\* The sets of calls whose sizes the permits and the metrics are.
GlobalHolders == {c \in GrafanaCalls : HasGlobal(c)}
RenderHolders == {c \in GrafanaCalls : HasRender(c)}
OnTheirWay(a) ==
  {c \in GrafanaCalls : gcall[c].action = a /\ gcall[c].step \notin {"idle", "returned", "done"}}
CancelledOrDone(a) == {c \in Counted(a, Unsettled) : gcall[c].step = "done"}

PermitInv ==
  /\ grafanaPermits \in Nat /\ renderPermits \in Nat
  /\ IsFiniteSet(GlobalHolders) /\ IsFiniteSet(RenderHolders)
  /\ GrafanaPermitsAccounted

MetricsInv ==
  /\ inFlight \in [Actions -> Nat] /\ requests \in [Actions -> [GrafanaOutcomes -> Nat]]
  /\ MetricsAccounted
  /\ \A a \in Actions :
       /\ IsFiniteSet(OnTheirWay(a)) /\ IsFiniteSet(CancelledOrDone(a))
       /\ IsFiniteSet(Counted(a, Unsettled))
       /\ \A o \in GrafanaOutcomes : IsFiniteSet(Counted(a, {o}))

GrafanaInv ==
  /\ gcall \in [GrafanaCalls -> GrafanaRecord]
  /\ \A c \in GrafanaCalls : SpanInv(gcall[c]) /\ GuardInv(gcall[c]) /\ SilenceInv(c)
  /\ PermitInv /\ MetricsInv

-----------------------------------------------------------------------------
(* One call.                                                               *)

\* A call stays a call when one of its fields changes.
LEMMA GrafanaFieldUpdates ==
  ASSUME NEW k \in GrafanaRecord
  PROVE  /\ \A v \in Actions : [k EXCEPT !.action = v] \in GrafanaRecord
         /\ \A v \in GrafanaSteps : [k EXCEPT !.step = v] \in GrafanaRecord
         /\ \A v \in GrafanaStatuses \cup {"none"} : [k EXCEPT !.response = v] \in GrafanaRecord
         /\ \A v \in SpanOutcomes : [k EXCEPT !.http = v] \in GrafanaRecord
         /\ \A v \in BOOLEAN : [k EXCEPT !.finished = v] \in GrafanaRecord
         /\ \A v \in GrafanaAnswers : [k EXCEPT !.answer = v] \in GrafanaRecord
BY DEF GrafanaRecord

\* A set that gains or loses at most one call.
LEMMA SizeStep ==
  ASSUME NEW S, NEW T, NEW c, IsFiniteSet(S), T \ {c} = S \ {c}
  PROVE  /\ IsFiniteSet(T) /\ Cardinality(S) \in Nat /\ Cardinality(T) \in Nat
         /\ Cardinality(T) = (Cardinality(S) + (IF c \in T THEN 1 ELSE 0))
                               - (IF c \in S THEN 1 ELSE 0)
<1>1. Cardinality(S) \in Nat
  BY FS_CardinalityType
<1>2. CASE c \in T
  <2>1. T = S \cup {c}
    BY <1>2
  <2>2. /\ IsFiniteSet(S \cup {c})
        /\ Cardinality(S \cup {c}) = IF c \in S THEN Cardinality(S) ELSE Cardinality(S) + 1
    BY FS_AddElement
  <2> QED
    BY <1>1, <1>2, <2>1, <2>2
<1>3. CASE c \notin T
  <2>1. T = S \ {c}
    BY <1>3
  <2>2. /\ IsFiniteSet(S \ {c}) /\ Cardinality(S \ {c}) \in Nat
        /\ Cardinality(S \ {c}) = IF c \in S THEN Cardinality(S) - 1 ELSE Cardinality(S)
    BY FS_RemoveElement, FS_CardinalityType
  <2> QED
    BY <1>1, <1>3, <2>1, <2>2
<1> QED
  BY <1>2, <1>3

\* What a call contributes to the sets whose sizes are counted.
OnItsWay(k) == k.step \notin {"idle", "returned", "done"}
Tells(k, outcomes) == k.finished /\ RequestOutcome(k.answer) \in outcomes
NeedsGlobal(k) == k.step \in {"permit", "ready", "sent", "body"}
NeedsRender(k) == k.action \in Renders /\ k.step \in {"ready", "sent", "body"}

\* How those sets change in a step of one call.
LEMMA SetSteps ==
  ASSUME gcall \in [GrafanaCalls -> GrafanaRecord], NEW c \in GrafanaCalls, NEW n,
         gcall' = [gcall EXCEPT ![c] = n]
  PROVE  /\ /\ GlobalHolders' \ {c} = GlobalHolders \ {c}
            /\ c \in GlobalHolders <=> NeedsGlobal(gcall[c])
            /\ c \in GlobalHolders' <=> NeedsGlobal(n)
         /\ /\ RenderHolders' \ {c} = RenderHolders \ {c}
            /\ c \in RenderHolders <=> NeedsRender(gcall[c])
            /\ c \in RenderHolders' <=> NeedsRender(n)
         /\ \A a \in Actions :
              /\ OnTheirWay(a)' \ {c} = OnTheirWay(a) \ {c}
              /\ c \in OnTheirWay(a) <=> gcall[c].action = a /\ OnItsWay(gcall[c])
              /\ c \in OnTheirWay(a)' <=> n.action = a /\ OnItsWay(n)
         /\ \A a \in Actions :
              /\ CancelledOrDone(a)' \ {c} = CancelledOrDone(a) \ {c}
              /\ c \in CancelledOrDone(a) <=>
                   gcall[c].action = a /\ Tells(gcall[c], Unsettled) /\ gcall[c].step = "done"
              /\ c \in CancelledOrDone(a)' <=>
                   n.action = a /\ Tells(n, Unsettled) /\ n.step = "done"
         /\ \A a \in Actions : \A O :
              /\ Counted(a, O)' \ {c} = Counted(a, O) \ {c}
              /\ c \in Counted(a, O) <=> gcall[c].action = a /\ Tells(gcall[c], O)
              /\ c \in Counted(a, O)' <=> n.action = a /\ Tells(n, O)
<1>1. gcall'[c] = n /\ \A d \in GrafanaCalls \ {c} : gcall'[d] = gcall[d]
  OBVIOUS
<1>2. /\ GlobalHolders' \ {c} = GlobalHolders \ {c}
      /\ c \in GlobalHolders <=> NeedsGlobal(gcall[c])
      /\ c \in GlobalHolders' <=> NeedsGlobal(n)
  BY <1>1 DEF GlobalHolders, HasGlobal, NeedsGlobal
<1>3. /\ RenderHolders' \ {c} = RenderHolders \ {c}
      /\ c \in RenderHolders <=> NeedsRender(gcall[c])
      /\ c \in RenderHolders' <=> NeedsRender(n)
  BY <1>1 DEF RenderHolders, HasRender, NeedsRender
<1>4. ASSUME NEW a \in Actions
      PROVE  /\ OnTheirWay(a)' \ {c} = OnTheirWay(a) \ {c}
             /\ c \in OnTheirWay(a) <=> gcall[c].action = a /\ OnItsWay(gcall[c])
             /\ c \in OnTheirWay(a)' <=> n.action = a /\ OnItsWay(n)
  BY <1>1 DEF OnTheirWay, OnItsWay
<1>5. ASSUME NEW a \in Actions
      PROVE  /\ CancelledOrDone(a)' \ {c} = CancelledOrDone(a) \ {c}
             /\ c \in CancelledOrDone(a) <=>
                  gcall[c].action = a /\ Tells(gcall[c], Unsettled) /\ gcall[c].step = "done"
             /\ c \in CancelledOrDone(a)' <=>
                  n.action = a /\ Tells(n, Unsettled) /\ n.step = "done"
  BY <1>1 DEF CancelledOrDone, Counted, Tells
<1>6. ASSUME NEW a \in Actions, NEW O
      PROVE  /\ Counted(a, O)' \ {c} = Counted(a, O) \ {c}
             /\ c \in Counted(a, O) <=> gcall[c].action = a /\ Tells(gcall[c], O)
             /\ c \in Counted(a, O)' <=> n.action = a /\ Tells(n, O)
  BY <1>1 DEF Counted, Tells
<1> QED
  BY <1>2, <1>3, <1>4, <1>5, <1>6

\* A step of one call that keeps GrafanaInv of the call, the permits and the metrics.
LEMMA GrafanaStep ==
  ASSUME GrafanaInv, NEW c \in GrafanaCalls, NEW n \in GrafanaRecord,
         gcall' = [gcall EXCEPT ![c] = n], SpanInv(n), GuardInv(n), SilenceInv(c)',
         \A d \in GrafanaCalls \ {c} : /\ d \in sent' => d \in sent
                                       /\ d \in grafanaApplied' => d \in grafanaApplied,
         grafanaPermits' \in Nat, renderPermits' \in Nat,
         grafanaPermits' = (grafanaPermits + (IF NeedsGlobal(gcall[c]) THEN 1 ELSE 0))
                             - (IF NeedsGlobal(n) THEN 1 ELSE 0),
         renderPermits' = (renderPermits + (IF NeedsRender(gcall[c]) THEN 1 ELSE 0))
                            - (IF NeedsRender(n) THEN 1 ELSE 0),
         MetricsInv'
  PROVE  GrafanaInv'
<1>1. /\ gcall' \in [GrafanaCalls -> GrafanaRecord] /\ gcall'[c] = n
      /\ \A d \in GrafanaCalls \ {c} : gcall'[d] = gcall[d]
  BY DEF GrafanaInv
<1>2. ASSUME NEW d \in GrafanaCalls
      PROVE  SpanInv(gcall[d])' /\ GuardInv(gcall[d])' /\ SilenceInv(d)'
  <2>1. CASE d = c
    BY <1>1, <2>1 DEF SpanInv, GuardInv
  <2>2. CASE d # c
    <3>1. gcall'[d] = gcall[d] /\ SpanInv(gcall[d]) /\ GuardInv(gcall[d]) /\ SilenceInv(d)
      BY <1>1, <2>2 DEF GrafanaInv
    <3>2. SpanInv(gcall[d])' /\ GuardInv(gcall[d])'
      BY <3>1 DEF SpanInv, GuardInv
    <3>3. SilenceInv(d)'
      BY <2>2, <3>1 DEF SilenceInv
    <3> QED
      BY <3>2, <3>3
  <2> QED
    BY <2>1, <2>2
<1>3. PermitInv'
  <2>1. PermitInv /\ gcall \in [GrafanaCalls -> GrafanaRecord]
    BY DEF GrafanaInv
  <2>2. /\ GlobalHolders' \ {c} = GlobalHolders \ {c}
        /\ c \in GlobalHolders <=> NeedsGlobal(gcall[c])
        /\ c \in GlobalHolders' <=> NeedsGlobal(n)
        /\ RenderHolders' \ {c} = RenderHolders \ {c}
        /\ c \in RenderHolders <=> NeedsRender(gcall[c])
        /\ c \in RenderHolders' <=> NeedsRender(n)
    BY <2>1, SetSteps
  <2>3. /\ IsFiniteSet(GlobalHolders') /\ Cardinality(GlobalHolders) \in Nat
        /\ Cardinality(GlobalHolders') \in Nat
        /\ Cardinality(GlobalHolders') =
             (Cardinality(GlobalHolders) + (IF NeedsGlobal(n) THEN 1 ELSE 0))
               - (IF NeedsGlobal(gcall[c]) THEN 1 ELSE 0)
    <3>1. IsFiniteSet(GlobalHolders)
      BY <2>1 DEF PermitInv
    <3>2. /\ IsFiniteSet(GlobalHolders') /\ Cardinality(GlobalHolders) \in Nat
          /\ Cardinality(GlobalHolders') \in Nat
          /\ Cardinality(GlobalHolders') =
               (Cardinality(GlobalHolders) + (IF c \in GlobalHolders' THEN 1 ELSE 0))
                 - (IF c \in GlobalHolders THEN 1 ELSE 0)
      BY <2>2, <3>1, SizeStep
    <3> QED
      BY <2>2, <3>2
  <2>4. /\ IsFiniteSet(RenderHolders') /\ Cardinality(RenderHolders) \in Nat
        /\ Cardinality(RenderHolders') \in Nat
        /\ Cardinality(RenderHolders') =
             (Cardinality(RenderHolders) + (IF NeedsRender(n) THEN 1 ELSE 0))
               - (IF NeedsRender(gcall[c]) THEN 1 ELSE 0)
    <3>1. IsFiniteSet(RenderHolders)
      BY <2>1 DEF PermitInv
    <3>2. /\ IsFiniteSet(RenderHolders') /\ Cardinality(RenderHolders) \in Nat
          /\ Cardinality(RenderHolders') \in Nat
          /\ Cardinality(RenderHolders') =
               (Cardinality(RenderHolders) + (IF c \in RenderHolders' THEN 1 ELSE 0))
                 - (IF c \in RenderHolders THEN 1 ELSE 0)
      BY <2>2, <3>1, SizeStep
    <3> QED
      BY <2>2, <3>2
  <2>5. /\ grafanaPermits \in Nat /\ renderPermits \in Nat
        /\ grafanaPermits + Cardinality(GlobalHolders) = GrafanaPermits
        /\ renderPermits + Cardinality(RenderHolders) = RenderPermits
    BY <2>1 DEF PermitInv, GrafanaPermitsAccounted, GlobalHolders, RenderHolders
  <2>6. /\ grafanaPermits' + Cardinality(GlobalHolders') = GrafanaPermits
        /\ renderPermits' + Cardinality(RenderHolders') = RenderPermits
    BY <2>3, <2>4, <2>5
  <2> QED
    BY <2>3, <2>4, <2>6 DEF PermitInv, GrafanaPermitsAccounted, GlobalHolders, RenderHolders
<1> QED
  BY <1>1, <1>2, <1>3 DEF GrafanaInv

-----------------------------------------------------------------------------
(* The metrics.                                                            *)

\* The sizes of the sets of calls that the metrics count, in a step of one call.
LEMMA OnTheirWaySize ==
  ASSUME gcall \in [GrafanaCalls -> GrafanaRecord], MetricsInv,
         NEW c \in GrafanaCalls, NEW n, gcall' = [gcall EXCEPT ![c] = n], NEW a \in Actions
  PROVE  /\ IsFiniteSet(OnTheirWay(a)') /\ Cardinality(OnTheirWay(a)') \in Nat
         /\ Cardinality(OnTheirWay(a)) \in Nat
         /\ Cardinality(OnTheirWay(a)') =
              (Cardinality(OnTheirWay(a)) + (IF n.action = a /\ OnItsWay(n) THEN 1 ELSE 0))
                - (IF gcall[c].action = a /\ OnItsWay(gcall[c]) THEN 1 ELSE 0)
<1>1. /\ OnTheirWay(a)' \ {c} = OnTheirWay(a) \ {c}
      /\ c \in OnTheirWay(a) <=> gcall[c].action = a /\ OnItsWay(gcall[c])
      /\ c \in OnTheirWay(a)' <=> n.action = a /\ OnItsWay(n)
      /\ IsFiniteSet(OnTheirWay(a))
  BY SetSteps DEF MetricsInv
<1>2. /\ IsFiniteSet(OnTheirWay(a)') /\ Cardinality(OnTheirWay(a)') \in Nat
      /\ Cardinality(OnTheirWay(a)) \in Nat
      /\ Cardinality(OnTheirWay(a)') =
           (Cardinality(OnTheirWay(a)) + (IF c \in OnTheirWay(a)' THEN 1 ELSE 0))
             - (IF c \in OnTheirWay(a) THEN 1 ELSE 0)
  BY <1>1, SizeStep
<1> QED
  BY <1>1, <1>2

\* How the number of cancelled calls of an action changes with one call.
LEMMA CancelledSize ==
  ASSUME gcall \in [GrafanaCalls -> GrafanaRecord], MetricsInv,
         NEW c \in GrafanaCalls, NEW n, gcall' = [gcall EXCEPT ![c] = n], NEW a \in Actions
  PROVE  /\ IsFiniteSet(CancelledOrDone(a)') /\ Cardinality(CancelledOrDone(a)') \in Nat
         /\ Cardinality(CancelledOrDone(a)) \in Nat
         /\ Cardinality(CancelledOrDone(a)') =
              (Cardinality(CancelledOrDone(a)) +
                 (IF n.action = a /\ Tells(n, Unsettled) /\ n.step = "done" THEN 1 ELSE 0))
                - (IF /\ gcall[c].action = a /\ Tells(gcall[c], Unsettled)
                      /\ gcall[c].step = "done" THEN 1 ELSE 0)
<1>1. /\ CancelledOrDone(a)' \ {c} = CancelledOrDone(a) \ {c}
      /\ c \in CancelledOrDone(a) <=>
           gcall[c].action = a /\ Tells(gcall[c], Unsettled) /\ gcall[c].step = "done"
      /\ c \in CancelledOrDone(a)' <=> n.action = a /\ Tells(n, Unsettled) /\ n.step = "done"
      /\ IsFiniteSet(CancelledOrDone(a))
  BY SetSteps DEF MetricsInv
<1>2. /\ IsFiniteSet(CancelledOrDone(a)') /\ Cardinality(CancelledOrDone(a)') \in Nat
      /\ Cardinality(CancelledOrDone(a)) \in Nat
      /\ Cardinality(CancelledOrDone(a)') =
           (Cardinality(CancelledOrDone(a)) + (IF c \in CancelledOrDone(a)' THEN 1 ELSE 0))
             - (IF c \in CancelledOrDone(a) THEN 1 ELSE 0)
  BY <1>1, SizeStep
<1> QED
  BY <1>1, <1>2

CountedSets == {Unsettled} \cup {{o} : o \in GrafanaOutcomes}

\* How the number of calls of an action with an outcome changes with one call.
LEMMA CountedSize ==
  ASSUME gcall \in [GrafanaCalls -> GrafanaRecord], MetricsInv,
         NEW c \in GrafanaCalls, NEW n, gcall' = [gcall EXCEPT ![c] = n], NEW a \in Actions,
         NEW O \in CountedSets
  PROVE  /\ IsFiniteSet(Counted(a, O)') /\ Cardinality(Counted(a, O)') \in Nat
         /\ Cardinality(Counted(a, O)) \in Nat
         /\ Cardinality(Counted(a, O)') =
              (Cardinality(Counted(a, O)) + (IF n.action = a /\ Tells(n, O) THEN 1 ELSE 0))
                - (IF gcall[c].action = a /\ Tells(gcall[c], O) THEN 1 ELSE 0)
<1>1. /\ Counted(a, O)' \ {c} = Counted(a, O) \ {c}
      /\ c \in Counted(a, O) <=> gcall[c].action = a /\ Tells(gcall[c], O)
      /\ c \in Counted(a, O)' <=> n.action = a /\ Tells(n, O)
  BY SetSteps
<1>2. IsFiniteSet(Counted(a, O))
  BY DEF MetricsInv, CountedSets
<1>3. /\ IsFiniteSet(Counted(a, O)') /\ Cardinality(Counted(a, O)') \in Nat
      /\ Cardinality(Counted(a, O)) \in Nat
      /\ Cardinality(Counted(a, O)') =
           (Cardinality(Counted(a, O)) + (IF c \in Counted(a, O)' THEN 1 ELSE 0))
             - (IF c \in Counted(a, O) THEN 1 ELSE 0)
  BY <1>1, <1>2, SizeStep
<1> QED
  BY <1>1, <1>3

\* The outcomes that callers are told as they are counted.
Settled == GrafanaOutcomes \ {"cancelled", "mutation_outcome_unknown"}

\* MetricsInv, of one action at a time and in terms of the sets of calls.
ActionInv(a) ==
  /\ inFlight[a] = Cardinality(OnTheirWay(a))
  /\ \A o \in Settled : requests[a][o] = Cardinality(Counted(a, {o}))
  /\ requests[a]["cancelled"] + requests[a]["mutation_outcome_unknown"]
       = Cardinality(Counted(a, Unsettled))
  /\ requests[a]["cancelled"] <= Cardinality(CancelledOrDone(a))

\* The metrics of all actions are those of each.
LEMMA MetricsOfActions ==
  ASSUME MetricsInv
  PROVE  \A a \in Actions : ActionInv(a)
BY DEF MetricsInv, MetricsAccounted, ActionInv, OnTheirWay, CancelledOrDone, Settled

\* And back, after a step of one call.
LEMMA ActionsToMetrics ==
  ASSUME GrafanaInv, NEW c \in GrafanaCalls, NEW n, gcall' = [gcall EXCEPT ![c] = n],
         inFlight' \in [Actions -> Nat], requests' \in [Actions -> [GrafanaOutcomes -> Nat]],
         \A a \in Actions : ActionInv(a)'
  PROVE  MetricsInv'
<1>1. gcall \in [GrafanaCalls -> GrafanaRecord] /\ MetricsInv
  BY DEF GrafanaInv
<1>2. ASSUME NEW a \in Actions
      PROVE  /\ IsFiniteSet(OnTheirWay(a))' /\ IsFiniteSet(CancelledOrDone(a))'
             /\ IsFiniteSet(Counted(a, Unsettled))'
             /\ \A o \in GrafanaOutcomes : IsFiniteSet(Counted(a, {o}))'
  <2>1. IsFiniteSet(OnTheirWay(a)') /\ IsFiniteSet(CancelledOrDone(a)')
    BY <1>1, OnTheirWaySize, CancelledSize
  <2>2. \A O \in CountedSets : IsFiniteSet(Counted(a, O)')
    BY <1>1, CountedSize
  <2> QED
    BY <2>1, <2>2 DEF CountedSets
<1>3. MetricsAccounted'
  BY DEF MetricsAccounted, ActionInv, OnTheirWay, CancelledOrDone, Settled
<1> QED
  BY <1>2, <1>3 DEF MetricsInv

\* A step that counts nothing.
LEMMA MetricsQuiet ==
  ASSUME GrafanaInv, NEW c \in GrafanaCalls, NEW n, gcall' = [gcall EXCEPT ![c] = n],
         UNCHANGED <<inFlight, requests>>, OnItsWay(n) <=> OnItsWay(gcall[c]),
         n.finished <=> gcall[c].finished, gcall[c].step = "done" => n.step = "done",
         gcall[c].finished => n.answer = gcall[c].answer,
         n.action = gcall[c].action \/ (~OnItsWay(n) /\ ~n.finished)
  PROVE  MetricsInv'
<1>1. /\ gcall \in [GrafanaCalls -> GrafanaRecord] /\ MetricsInv
      /\ inFlight \in [Actions -> Nat] /\ requests \in [Actions -> [GrafanaOutcomes -> Nat]]
  BY DEF GrafanaInv, MetricsInv
<1>2. ASSUME NEW a \in Actions PROVE ActionInv(a)'
  <2>1. ActionInv(a)
    BY <1>1, MetricsOfActions
  <2>2. Cardinality(OnTheirWay(a)') = Cardinality(OnTheirWay(a))
    <3>1. n.action = a /\ OnItsWay(n) <=> gcall[c].action = a /\ OnItsWay(gcall[c])
      OBVIOUS
    <3>2. /\ Cardinality(OnTheirWay(a)) \in Nat
          /\ Cardinality(OnTheirWay(a)') =
               (Cardinality(OnTheirWay(a)) + (IF n.action = a /\ OnItsWay(n) THEN 1 ELSE 0))
                 - (IF gcall[c].action = a /\ OnItsWay(gcall[c]) THEN 1 ELSE 0)
      BY <1>1, OnTheirWaySize
    <3> QED
      BY <3>1, <3>2
  <2>3. ASSUME NEW O \in CountedSets
        PROVE  Cardinality(Counted(a, O)') = Cardinality(Counted(a, O))
    <3>1. n.action = a /\ Tells(n, O) <=> gcall[c].action = a /\ Tells(gcall[c], O)
      BY DEF Tells
    <3>2. /\ Cardinality(Counted(a, O)) \in Nat
          /\ Cardinality(Counted(a, O)') =
               (Cardinality(Counted(a, O)) + (IF n.action = a /\ Tells(n, O) THEN 1 ELSE 0))
                 - (IF gcall[c].action = a /\ Tells(gcall[c], O) THEN 1 ELSE 0)
      BY <1>1, <2>3, CountedSize
    <3> QED
      BY <3>1, <3>2
  <2>4. /\ Cardinality(CancelledOrDone(a)') >= Cardinality(CancelledOrDone(a))
        /\ Cardinality(CancelledOrDone(a)') \in Nat /\ Cardinality(CancelledOrDone(a)) \in Nat
    <3>1. /\ Cardinality(CancelledOrDone(a)) \in Nat /\ Cardinality(CancelledOrDone(a)') \in Nat
          /\ Cardinality(CancelledOrDone(a)') =
               (Cardinality(CancelledOrDone(a)) +
                  (IF n.action = a /\ Tells(n, Unsettled) /\ n.step = "done" THEN 1 ELSE 0))
                 - (IF /\ gcall[c].action = a /\ Tells(gcall[c], Unsettled)
                       /\ gcall[c].step = "done" THEN 1 ELSE 0)
      BY <1>1, CancelledSize
    <3>2. gcall[c].action = a /\ Tells(gcall[c], Unsettled) /\ gcall[c].step = "done"
            => n.action = a /\ Tells(n, Unsettled) /\ n.step = "done"
      BY DEF Tells
    <3> QED
      BY <3>1, <3>2
  <2>5. requests[a]["cancelled"] \in Nat
    BY <1>1 DEF GrafanaOutcomes
  <2>6. \A o \in Settled : Cardinality(Counted(a, {o})') = Cardinality(Counted(a, {o}))
    BY <2>3 DEF Settled, CountedSets
  <2>7. Cardinality(Counted(a, Unsettled)') = Cardinality(Counted(a, Unsettled))
    BY <2>3 DEF CountedSets
  <2> QED
    BY <2>1, <2>2, <2>4, <2>5, <2>6, <2>7 DEF ActionInv
<1> QED
  BY <1>1, <1>2, ActionsToMetrics

\* A call begins: the gauge goes up.
LEMMA MetricsBegin ==
  ASSUME GrafanaInv, NEW c \in GrafanaCalls, NEW n, gcall' = [gcall EXCEPT ![c] = n],
         NEW b \in Actions, inFlight' = [inFlight EXCEPT ![b] = @ + 1], UNCHANGED requests,
         gcall[c].step = "idle", n.action = b, n.step = "begun",
         ~n.finished, ~gcall[c].finished
  PROVE  MetricsInv'
<1>1. /\ gcall \in [GrafanaCalls -> GrafanaRecord] /\ MetricsInv
      /\ inFlight \in [Actions -> Nat] /\ requests \in [Actions -> [GrafanaOutcomes -> Nat]]
  BY DEF GrafanaInv, MetricsInv
<1>2. inFlight' \in [Actions -> Nat]
  BY <1>1
<1>3. ASSUME NEW a \in Actions PROVE ActionInv(a)'
  <2>1. ActionInv(a)
    BY <1>1, MetricsOfActions
  <2>2. Cardinality(OnTheirWay(a)') = inFlight'[a]
    <3>1. OnItsWay(n) /\ ~OnItsWay(gcall[c])
      BY DEF OnItsWay
    <3>2. /\ Cardinality(OnTheirWay(a)) \in Nat
          /\ Cardinality(OnTheirWay(a)') =
               (Cardinality(OnTheirWay(a)) + (IF n.action = a /\ OnItsWay(n) THEN 1 ELSE 0))
                 - (IF gcall[c].action = a /\ OnItsWay(gcall[c]) THEN 1 ELSE 0)
      BY <1>1, OnTheirWaySize
    <3>3. inFlight'[a] = inFlight[a] + (IF b = a THEN 1 ELSE 0)
      BY <1>1
    <3> QED
      BY <2>1, <3>1, <3>2, <3>3 DEF ActionInv
  <2>3. ASSUME NEW O \in CountedSets
        PROVE  Cardinality(Counted(a, O)') = Cardinality(Counted(a, O))
    <3>1. ~Tells(n, O) /\ ~Tells(gcall[c], O)
      BY DEF Tells
    <3>2. /\ Cardinality(Counted(a, O)) \in Nat
          /\ Cardinality(Counted(a, O)') =
               (Cardinality(Counted(a, O)) + (IF n.action = a /\ Tells(n, O) THEN 1 ELSE 0))
                 - (IF gcall[c].action = a /\ Tells(gcall[c], O) THEN 1 ELSE 0)
      BY <1>1, <2>3, CountedSize
    <3> QED
      BY <3>1, <3>2
  <2>4. Cardinality(CancelledOrDone(a)') = Cardinality(CancelledOrDone(a))
    <3>1. ~Tells(n, Unsettled) /\ ~Tells(gcall[c], Unsettled)
      BY DEF Tells
    <3>2. /\ Cardinality(CancelledOrDone(a)) \in Nat
          /\ Cardinality(CancelledOrDone(a)') =
               (Cardinality(CancelledOrDone(a)) +
                  (IF n.action = a /\ Tells(n, Unsettled) /\ n.step = "done" THEN 1 ELSE 0))
                 - (IF /\ gcall[c].action = a /\ Tells(gcall[c], Unsettled)
                       /\ gcall[c].step = "done" THEN 1 ELSE 0)
      BY <1>1, CancelledSize
    <3> QED
      BY <3>1, <3>2
  <2>5. \A o \in Settled : Cardinality(Counted(a, {o})') = Cardinality(Counted(a, {o}))
    BY <2>3 DEF Settled, CountedSets
  <2>6. Cardinality(Counted(a, Unsettled)') = Cardinality(Counted(a, Unsettled))
    BY <2>3 DEF CountedSets
  <2> QED
    BY <2>1, <2>2, <2>4, <2>5, <2>6 DEF ActionInv
<1> QED
  BY <1>1, <1>2, <1>3, ActionsToMetrics

\* A call ends: the gauge goes down, and the call is counted as its caller was told, or as
\* cancelled.
LEMMA MetricsEnd ==
  ASSUME GrafanaInv, NEW c \in GrafanaCalls, NEW n, gcall' = [gcall EXCEPT ![c] = n],
         NEW told \in GrafanaOutcomes, MetricsFinish(c, told),
         OnItsWay(gcall[c]), ~gcall[c].finished, gcall[c].action \in Actions,
         n.action = gcall[c].action, n.step \in {"returned", "done"}, n.finished,
         \A o \in Settled : told = o <=> RequestOutcome(n.answer) = o,
         told \in {"cancelled", "mutation_outcome_unknown"} <=>
           RequestOutcome(n.answer) \in Unsettled,
         told = "cancelled" => n.step = "done"
  PROVE  MetricsInv'
<1> DEFINE b == gcall[c].action
<1>1. /\ gcall \in [GrafanaCalls -> GrafanaRecord] /\ MetricsInv
      /\ inFlight \in [Actions -> Nat] /\ requests \in [Actions -> [GrafanaOutcomes -> Nat]]
  BY DEF GrafanaInv, MetricsInv
<1>2. /\ inFlight' = [inFlight EXCEPT ![b] = @ - 1]
      /\ requests' = [requests EXCEPT ![b][told] = @ + 1]
      /\ b \in Actions
  BY DEF MetricsFinish
<1>3. /\ \A a \in Actions : inFlight'[a] = inFlight[a] - (IF b = a THEN 1 ELSE 0)
      /\ requests' \in [Actions -> [GrafanaOutcomes -> Nat]]
      /\ \A a \in Actions, o \in GrafanaOutcomes :
           requests'[a][o] = requests[a][o] + (IF b = a /\ told = o THEN 1 ELSE 0)
  BY <1>1, <1>2
<1> HIDE DEF b
<1>4. ASSUME NEW a \in Actions PROVE ActionInv(a)' /\ inFlight'[a] \in Nat
  <2>1. ActionInv(a)
    BY <1>1, MetricsOfActions
  <2>2. Cardinality(OnTheirWay(a)') = inFlight'[a] /\ inFlight'[a] \in Nat
    <3>1. ~OnItsWay(n)
      BY DEF OnItsWay
    <3>2. /\ Cardinality(OnTheirWay(a)) \in Nat /\ Cardinality(OnTheirWay(a)') \in Nat
          /\ Cardinality(OnTheirWay(a)') =
               (Cardinality(OnTheirWay(a)) + (IF n.action = a /\ OnItsWay(n) THEN 1 ELSE 0))
                 - (IF gcall[c].action = a /\ OnItsWay(gcall[c]) THEN 1 ELSE 0)
      BY <1>1, OnTheirWaySize
    <3> QED
      BY <1>3, <2>1, <3>1, <3>2 DEF ActionInv, b
  <2>3. ASSUME NEW O \in CountedSets
        PROVE  /\ Cardinality(Counted(a, O)) \in Nat
               /\ Cardinality(Counted(a, O)') = Cardinality(Counted(a, O)) +
                    (IF b = a /\ RequestOutcome(n.answer) \in O THEN 1 ELSE 0)
    <3>1. (Tells(n, O) <=> RequestOutcome(n.answer) \in O) /\ ~Tells(gcall[c], O)
      BY DEF Tells
    <3>2. /\ Cardinality(Counted(a, O)) \in Nat
          /\ Cardinality(Counted(a, O)') =
               (Cardinality(Counted(a, O)) + (IF n.action = a /\ Tells(n, O) THEN 1 ELSE 0))
                 - (IF gcall[c].action = a /\ Tells(gcall[c], O) THEN 1 ELSE 0)
      BY <1>1, <2>3, CountedSize
    <3> QED
      BY <3>1, <3>2 DEF b
  <2>4. ASSUME NEW o \in Settled PROVE requests'[a][o] = Cardinality(Counted(a, {o})')
    <3>1. /\ Cardinality(Counted(a, {o})) \in Nat
          /\ Cardinality(Counted(a, {o})') = Cardinality(Counted(a, {o})) +
               (IF b = a /\ RequestOutcome(n.answer) \in {o} THEN 1 ELSE 0)
      BY <2>3 DEF Settled, CountedSets
    <3>2. requests'[a][o] = requests[a][o] + (IF b = a /\ told = o THEN 1 ELSE 0)
      BY <1>3 DEF Settled
    <3>3. told = o <=> RequestOutcome(n.answer) \in {o}
      OBVIOUS
    <3>4. requests[a][o] = Cardinality(Counted(a, {o}))
      BY <2>1 DEF ActionInv
    <3> QED
      BY <3>1, <3>2, <3>3, <3>4
  <2>5. requests'[a]["cancelled"] + requests'[a]["mutation_outcome_unknown"]
          = Cardinality(Counted(a, Unsettled)')
    <3>1. /\ Cardinality(Counted(a, Unsettled)) \in Nat
          /\ Cardinality(Counted(a, Unsettled)') = Cardinality(Counted(a, Unsettled)) +
               (IF b = a /\ RequestOutcome(n.answer) \in Unsettled THEN 1 ELSE 0)
      BY <2>3 DEF CountedSets
    <3>2. /\ requests[a]["cancelled"] \in Nat /\ requests[a]["mutation_outcome_unknown"] \in Nat
          /\ requests'[a]["cancelled"] =
               requests[a]["cancelled"] + (IF b = a /\ told = "cancelled" THEN 1 ELSE 0)
          /\ requests'[a]["mutation_outcome_unknown"] =
               requests[a]["mutation_outcome_unknown"] +
                 (IF b = a /\ told = "mutation_outcome_unknown" THEN 1 ELSE 0)
      BY <1>1, <1>3 DEF GrafanaOutcomes
    <3>3. requests[a]["cancelled"] + requests[a]["mutation_outcome_unknown"]
            = Cardinality(Counted(a, Unsettled))
      BY <2>1 DEF ActionInv
    <3> QED
      BY <3>1, <3>2, <3>3
  <2>6. requests'[a]["cancelled"] <= Cardinality(CancelledOrDone(a)')
    <3>1. /\ ~Tells(gcall[c], Unsettled)
          /\ Tells(n, Unsettled) <=> RequestOutcome(n.answer) \in Unsettled
      BY DEF Tells
    <3>2. /\ Cardinality(CancelledOrDone(a)) \in Nat /\ Cardinality(CancelledOrDone(a)') \in Nat
          /\ Cardinality(CancelledOrDone(a)') =
               (Cardinality(CancelledOrDone(a)) +
                  (IF n.action = a /\ Tells(n, Unsettled) /\ n.step = "done" THEN 1 ELSE 0))
                 - (IF /\ gcall[c].action = a /\ Tells(gcall[c], Unsettled)
                       /\ gcall[c].step = "done" THEN 1 ELSE 0)
      BY <1>1, CancelledSize
    <3>3. /\ requests[a]["cancelled"] \in Nat
          /\ requests'[a]["cancelled"] =
               requests[a]["cancelled"] + (IF b = a /\ told = "cancelled" THEN 1 ELSE 0)
      BY <1>1, <1>3 DEF GrafanaOutcomes
    <3>4. requests[a]["cancelled"] <= Cardinality(CancelledOrDone(a))
      BY <2>1 DEF ActionInv
    <3> QED
      BY <3>1, <3>2, <3>3, <3>4 DEF b
  <2> QED
    BY <2>2, <2>4, <2>5, <2>6 DEF ActionInv
<1>5. inFlight' \in [Actions -> Nat]
  BY <1>1, <1>2, <1>4
<1> QED
  BY <1>1, <1>3, <1>4, <1>5, ActionsToMetrics

-----------------------------------------------------------------------------
(* How a call ends.                                                        *)

\* Return, when the answer is one that a call on its way may be given.
LEMMA ReturnStep ==
  ASSUME GrafanaInv, NEW c \in GrafanaCalls,
         NEW answer \in GrafanaAnswers \ {"none", "request_cancelled"},
         NEW http \in SpanOutcomes \ {"open"}, Return(c, answer, http),
         gcall[c].step \in {"begun", "permit", "ready", "sent", "body"},
         answer = "success" => http = "success",
         http = "cancelled" =>
           answer \in {"timeout", "render_timeout", "mutation_outcome_unknown"},
         answer \in {"timeout", "render_timeout"} => http = "cancelled",
         c \in sent \cup grafanaApplied => answer \in {"success", "mutation_outcome_unknown"}
  PROVE  GrafanaInv'
<1> DEFINE k == gcall[c]
           n == [k EXCEPT !.step = "returned", !.answer = answer, !.http = http,
                          !.finished = TRUE, !.response = "none"]
<1>1. /\ gcall \in [GrafanaCalls -> GrafanaRecord] /\ k \in GrafanaRecord
      /\ SpanInv(k) /\ GuardInv(k) /\ SilenceInv(c)
      /\ grafanaPermits \in Nat /\ renderPermits \in Nat
  BY DEF GrafanaInv, PermitInv
<1>2. gcall' = [gcall EXCEPT ![c] = n] /\ UNCHANGED <<sent, grafanaApplied>>
  BY <1>1 DEF Return
<1>3. n \in GrafanaRecord
  <2>1. [k EXCEPT !.step = "returned"] \in GrafanaRecord
    BY <1>1, GrafanaFieldUpdates DEF GrafanaSteps
  <2>2. [k EXCEPT !.step = "returned", !.answer = answer] \in GrafanaRecord
    BY <2>1, GrafanaFieldUpdates
  <2>3. [k EXCEPT !.step = "returned", !.answer = answer, !.http = http] \in GrafanaRecord
    BY <2>2, GrafanaFieldUpdates
  <2>4. [k EXCEPT !.step = "returned", !.answer = answer, !.http = http, !.finished = TRUE]
          \in GrafanaRecord
    BY <2>3, GrafanaFieldUpdates
  <2> QED
    BY <2>4, GrafanaFieldUpdates
<1>4. /\ n.step = "returned" /\ n.answer = answer /\ n.http = http /\ n.finished
      /\ n.response = "none" /\ n.action = k.action
  BY <1>1 DEF GrafanaRecord
<1> HIDE DEF n
<1>5. SpanInv(n) /\ GuardInv(n)
  BY <1>4 DEF SpanInv, GuardInv
<1>6. gcall'[c] = n
  BY <1>1, <1>2
<1>7. SilenceInv(c)'
  BY <1>1, <1>2, <1>4, <1>6 DEF SilenceInv
<1>8. /\ grafanaPermits' = (grafanaPermits + (IF NeedsGlobal(k) THEN 1 ELSE 0))
                             - (IF NeedsGlobal(n) THEN 1 ELSE 0)
      /\ renderPermits' = (renderPermits + (IF NeedsRender(k) THEN 1 ELSE 0))
                            - (IF NeedsRender(n) THEN 1 ELSE 0)
      /\ grafanaPermits' \in Nat /\ renderPermits' \in Nat
  BY <1>1, <1>4 DEF Return, Release, HasGlobal, HasRender, NeedsGlobal, NeedsRender
<1>9. MetricsInv'
  <2>1. RequestOutcome(answer) \in GrafanaOutcomes \ {"cancelled"}
    BY DEF RequestOutcome, GrafanaAnswers, GrafanaOutcomes
  <2>2. /\ OnItsWay(k) /\ ~k.finished /\ k.action \in Actions
        /\ MetricsFinish(c, RequestOutcome(answer))
    BY <1>1 DEF OnItsWay, GuardInv, GrafanaRecord, Return
  <2>3. RequestOutcome(answer) \in {"cancelled", "mutation_outcome_unknown"} <=>
          RequestOutcome(answer) \in Unsettled
    BY <2>1 DEF Unsettled, RequestOutcome, GrafanaOutcomes
  <2> QED
    BY <1>2, <1>4, <2>1, <2>2, <2>3, MetricsEnd
<1> HIDE DEF k
<1> QED
  BY <1>2, <1>3, <1>5, <1>7, <1>8, <1>9, GrafanaStep DEF k

\* A step that counts nothing, and that moves permits as the call's step says.
LEMMA QuietStep ==
  ASSUME GrafanaInv, NEW c \in GrafanaCalls, NEW n \in GrafanaRecord,
         gcall' = [gcall EXCEPT ![c] = n], SpanInv(n), GuardInv(n), SilenceInv(c)',
         \A d \in GrafanaCalls \ {c} : /\ d \in sent' => d \in sent
                                       /\ d \in grafanaApplied' => d \in grafanaApplied,
         grafanaPermits' \in Nat, renderPermits' \in Nat,
         grafanaPermits' = (grafanaPermits + (IF NeedsGlobal(gcall[c]) THEN 1 ELSE 0))
                             - (IF NeedsGlobal(n) THEN 1 ELSE 0),
         renderPermits' = (renderPermits + (IF NeedsRender(gcall[c]) THEN 1 ELSE 0))
                            - (IF NeedsRender(n) THEN 1 ELSE 0),
         UNCHANGED <<inFlight, requests>>, OnItsWay(n) <=> OnItsWay(gcall[c]),
         n.finished <=> gcall[c].finished, gcall[c].step = "done" => n.step = "done",
         gcall[c].finished => n.answer = gcall[c].answer,
         n.action = gcall[c].action \/ (~OnItsWay(n) /\ ~n.finished)
  PROVE  GrafanaInv'
<1>1. MetricsInv'
  BY MetricsQuiet
<1> QED
  BY <1>1, GrafanaStep

\* Enter keeps the invariant.
LEMMA EnterKeepsInv ==
  ASSUME GrafanaInv, NEW c \in GrafanaCalls, NEW a \in Actions, Enter(c, a)
  PROVE  GrafanaInv'
<1> DEFINE k == gcall[c]
<1>1. /\ gcall \in [GrafanaCalls -> GrafanaRecord] /\ k \in GrafanaRecord
      /\ SpanInv(k) /\ GuardInv(k) /\ SilenceInv(c) /\ k.step = "idle"
      /\ grafanaPermits \in Nat /\ renderPermits \in Nat
      /\ UNCHANGED <<grafanaPermits, renderPermits, requests, sent, grafanaApplied>>
  BY DEF GrafanaInv, PermitInv, Enter
<1>2. /\ c \notin sent \cup grafanaApplied /\ ~k.finished /\ k.http = "none"
      /\ k.response = "none"
  BY <1>1 DEF SilenceInv, GuardInv, SpanInv
<1>3. CASE /\ gcall' = [gcall EXCEPT ![c].action = a, ![c].step = "begun"]
           /\ inFlight' = [inFlight EXCEPT ![a] = @ + 1]
  <2> DEFINE n == [k EXCEPT !.action = a, !.step = "begun"]
  <2>1. gcall' = [gcall EXCEPT ![c] = n]
    BY <1>1, <1>3
  <2>2. n \in GrafanaRecord
    <3>1. [k EXCEPT !.action = a] \in GrafanaRecord
      BY <1>1, GrafanaFieldUpdates
    <3> QED
      BY <3>1, GrafanaFieldUpdates DEF GrafanaSteps
  <2>3. /\ n.action = a /\ n.step = "begun" /\ n.finished = k.finished /\ n.http = k.http
        /\ n.response = k.response
    BY <1>1 DEF GrafanaRecord
  <2> HIDE DEF n
  <2>4. SpanInv(n) /\ GuardInv(n)
    BY <1>2, <2>3 DEF SpanInv, GuardInv
  <2>5. SilenceInv(c)'
    BY <1>1, <1>2 DEF SilenceInv
  <2>6. ~NeedsGlobal(k) /\ ~NeedsRender(k) /\ ~NeedsGlobal(n) /\ ~NeedsRender(n)
    BY <1>1, <2>3 DEF NeedsGlobal, NeedsRender
  <2>7. MetricsInv'
    BY <1>1, <1>2, <1>3, <2>1, <2>3, MetricsBegin
  <2>8. /\ grafanaPermits' \in Nat /\ renderPermits' \in Nat
        /\ grafanaPermits' = (grafanaPermits + (IF NeedsGlobal(gcall[c]) THEN 1 ELSE 0))
                               - (IF NeedsGlobal(n) THEN 1 ELSE 0)
        /\ renderPermits' = (renderPermits + (IF NeedsRender(gcall[c]) THEN 1 ELSE 0))
                              - (IF NeedsRender(n) THEN 1 ELSE 0)
    BY <1>1, <2>6
  <2>9. UNCHANGED <<sent, grafanaApplied>>
    BY <1>1
  <2> QED
    BY <2>1, <2>2, <2>4, <2>5, <2>7, <2>8, <2>9, GrafanaStep
<1>4. ASSUME NEW e \in {"invalid_arguments", CancelAnswer(a)}, UNCHANGED inFlight,
             gcall' = [gcall EXCEPT ![c].action = a, ![c].step = "done", ![c].answer = e]
      PROVE  GrafanaInv'
  <2> DEFINE n == [k EXCEPT !.action = a, !.step = "done", !.answer = e]
  <2>1. gcall' = [gcall EXCEPT ![c] = n]
    BY <1>1, <1>4
  <2>2. n \in GrafanaRecord
    <3>1. [k EXCEPT !.action = a] \in GrafanaRecord
      BY <1>1, GrafanaFieldUpdates
    <3>2. [k EXCEPT !.action = a, !.step = "done"] \in GrafanaRecord
      BY <3>1, GrafanaFieldUpdates DEF GrafanaSteps
    <3>3. e \in GrafanaAnswers
      BY DEF CancelAnswer, GrafanaAnswers, GrafanaOutcomes
    <3> QED
      BY <3>2, <3>3, GrafanaFieldUpdates
  <2>3. /\ n.action = a /\ n.step = "done" /\ n.finished = k.finished /\ n.http = k.http
    BY <1>1 DEF GrafanaRecord
  <2> HIDE DEF n
  <2>4. SpanInv(n) /\ GuardInv(n)
    BY <1>2, <2>3 DEF SpanInv, GuardInv
  <2>5. SilenceInv(c)'
    BY <1>1, <1>2 DEF SilenceInv
  <2>6. /\ ~NeedsGlobal(k) /\ ~NeedsRender(k) /\ ~NeedsGlobal(n) /\ ~NeedsRender(n)
        /\ ~OnItsWay(n) /\ ~OnItsWay(k)
    BY <1>1, <2>3 DEF NeedsGlobal, NeedsRender, OnItsWay
  <2>7. /\ grafanaPermits' \in Nat /\ renderPermits' \in Nat
        /\ grafanaPermits' = (grafanaPermits + (IF NeedsGlobal(gcall[c]) THEN 1 ELSE 0))
                               - (IF NeedsGlobal(n) THEN 1 ELSE 0)
        /\ renderPermits' = (renderPermits + (IF NeedsRender(gcall[c]) THEN 1 ELSE 0))
                              - (IF NeedsRender(n) THEN 1 ELSE 0)
    BY <1>1, <2>6
  <2>8. /\ UNCHANGED <<inFlight, requests, sent, grafanaApplied>> 
        /\ n.finished <=> k.finished
        /\ OnItsWay(n) <=> OnItsWay(k)
        /\ k.step # "done" /\ ~k.finished /\ ~OnItsWay(n) /\ ~n.finished
    BY <1>1, <1>2, <1>4, <2>3, <2>6
  <2> QED
    BY <2>1, <2>2, <2>4, <2>5, <2>7, <2>8, QuietStep
<1> QED
  BY <1>3, <1>4 DEF Enter

\* A step from one place on the way to a later one, without an answer.
LEMMA OnwardStep ==
  ASSUME GrafanaInv, NEW c \in GrafanaCalls,
         gcall[c].step \in {"begun", "permit", "ready"}, NEW s \in {"permit", "ready"},
         s = "permit" => gcall[c].action \in Renders,
         gcall' = [gcall EXCEPT ![c].step = s],
         UNCHANGED <<inFlight, requests, sent, grafanaApplied>>,
         grafanaPermits' \in Nat, renderPermits' \in Nat,
         grafanaPermits' = (grafanaPermits + (IF NeedsGlobal(gcall[c]) THEN 1 ELSE 0)) - 1,
         renderPermits' = (renderPermits + (IF NeedsRender(gcall[c]) THEN 1 ELSE 0))
                            - (IF gcall[c].action \in Renders /\ s = "ready" THEN 1 ELSE 0)
  PROVE  GrafanaInv'
<1> DEFINE k == gcall[c]
           n == [k EXCEPT !.step = s]
<1>1. /\ gcall \in [GrafanaCalls -> GrafanaRecord] /\ k \in GrafanaRecord
      /\ SpanInv(k) /\ GuardInv(k) /\ SilenceInv(c)
  BY DEF GrafanaInv
<1>2. /\ c \notin sent \cup grafanaApplied /\ ~k.finished /\ k.http = "none"
      /\ k.response = "none"
  BY <1>1 DEF SilenceInv, GuardInv, SpanInv
<1>3. gcall' = [gcall EXCEPT ![c] = n]
  BY <1>1
<1>4. n \in GrafanaRecord
  BY <1>1, GrafanaFieldUpdates DEF GrafanaSteps
<1>5. /\ n.action = k.action /\ n.step = s /\ n.finished = k.finished /\ n.http = k.http
      /\ n.answer = k.answer /\ n.response = k.response
  BY <1>1 DEF GrafanaRecord
<1> HIDE DEF n
<1>6. SpanInv(n) /\ GuardInv(n)
  BY <1>2, <1>5 DEF SpanInv, GuardInv
<1>7. SilenceInv(c)'
  BY <1>1, <1>2 DEF SilenceInv
<1>8. /\ NeedsGlobal(n) /\ OnItsWay(n) /\ OnItsWay(k)
      /\ NeedsRender(n) <=> k.action \in Renders /\ s = "ready"
  BY <1>5 DEF NeedsGlobal, NeedsRender, OnItsWay
<1> HIDE DEF k
<1> QED
  BY <1>2, <1>3, <1>4, <1>5, <1>6, <1>7, <1>8, QuietStep DEF k

\* TakePermit keeps the invariant.
LEMMA TakePermitKeepsInv ==
  ASSUME GrafanaInv, NEW c \in GrafanaCalls, TakePermit(c)
  PROVE  GrafanaInv'
<1>1. /\ gcall[c] \in GrafanaRecord /\ SilenceInv(c) /\ gcall[c].step = "begun"
      /\ grafanaPermits \in Nat /\ renderPermits \in Nat
  BY DEF GrafanaInv, PermitInv, TakePermit
<1>2. c \notin sent \cup grafanaApplied /\ ~NeedsGlobal(gcall[c]) /\ ~NeedsRender(gcall[c])
  BY <1>1 DEF SilenceInv, NeedsGlobal, NeedsRender
<1>3. CASE Return(c, "capacity_exhausted", "none")
  <2>1. /\ "capacity_exhausted" \in GrafanaAnswers \ {"none", "request_cancelled"}
        /\ "none" \in SpanOutcomes \ {"open"}
    BY DEF GrafanaAnswers, GrafanaOutcomes, SpanOutcomes
  <2> QED
    BY <1>1, <1>2, <1>3, <2>1, ReturnStep
<1>4. CASE ~Return(c, "capacity_exhausted", "none")
  <2> DEFINE s == IF gcall[c].action \in Renders THEN "permit" ELSE "ready"
  <2>1. /\ grafanaPermits # 0 /\ grafanaPermits' = grafanaPermits - 1
        /\ gcall' = [gcall EXCEPT ![c].step = s]
        /\ UNCHANGED <<renderPermits, inFlight, requests, sent, grafanaApplied>>
    BY <1>4 DEF TakePermit
  <2>2. /\ s \in {"permit", "ready"}
        /\ s = "permit" => gcall[c].action \in Renders
        /\ ~(gcall[c].action \in Renders /\ s = "ready")
    OBVIOUS
  <2> HIDE DEF s
  <2>3. /\ grafanaPermits' \in Nat /\ renderPermits' \in Nat
        /\ grafanaPermits' = (grafanaPermits + (IF NeedsGlobal(gcall[c]) THEN 1 ELSE 0)) - 1
        /\ renderPermits' = (renderPermits + (IF NeedsRender(gcall[c]) THEN 1 ELSE 0))
                              - (IF gcall[c].action \in Renders /\ s = "ready" THEN 1 ELSE 0)
    BY <1>1, <1>2, <2>1, <2>2
  <2> QED
    BY <1>1, <2>1, <2>2, <2>3, OnwardStep
<1> QED
  BY <1>3, <1>4

\* TakeRenderPermit keeps the invariant.
LEMMA TakeRenderPermitKeepsInv ==
  ASSUME GrafanaInv, NEW c \in GrafanaCalls, TakeRenderPermit(c)
  PROVE  GrafanaInv'
<1>1. /\ gcall[c] \in GrafanaRecord /\ SilenceInv(c) /\ gcall[c].step = "permit"
      /\ gcall[c].action \in Renders /\ grafanaPermits \in Nat /\ renderPermits \in Nat
  BY DEF GrafanaInv, PermitInv, GuardInv, TakeRenderPermit
<1>2. c \notin sent \cup grafanaApplied /\ NeedsGlobal(gcall[c]) /\ ~NeedsRender(gcall[c])
  BY <1>1 DEF SilenceInv, NeedsGlobal, NeedsRender
<1>3. CASE Return(c, "capacity_exhausted", "none")
  <2>1. /\ "capacity_exhausted" \in GrafanaAnswers \ {"none", "request_cancelled"}
        /\ "none" \in SpanOutcomes \ {"open"}
    BY DEF GrafanaAnswers, GrafanaOutcomes, SpanOutcomes
  <2> QED
    BY <1>1, <1>2, <1>3, <2>1, ReturnStep
<1>4. CASE ~Return(c, "capacity_exhausted", "none")
  <2>1. /\ renderPermits # 0 /\ renderPermits' = renderPermits - 1
        /\ gcall' = [gcall EXCEPT ![c].step = "ready"]
        /\ UNCHANGED <<grafanaPermits, inFlight, requests, sent, grafanaApplied>>
    BY <1>4 DEF TakeRenderPermit
  <2>2. /\ grafanaPermits' \in Nat /\ renderPermits' \in Nat
        /\ grafanaPermits' = (grafanaPermits + (IF NeedsGlobal(gcall[c]) THEN 1 ELSE 0)) - 1
        /\ renderPermits' = (renderPermits + (IF NeedsRender(gcall[c]) THEN 1 ELSE 0))
                              - (IF gcall[c].action \in Renders /\ "ready" = "ready" THEN 1 ELSE 0)
    BY <1>1, <1>2, <2>1
  <2> QED
    BY <1>1, <2>1, <2>2, OnwardStep
<1> QED
  BY <1>3, <1>4

\* A request is sent.
LEMMA SentStep ==
  ASSUME GrafanaInv, NEW c \in GrafanaCalls, gcall[c].step = "ready", Sendable(c),
         sent' = IF gcall[c].action = Silence THEN sent \cup {c} ELSE sent,
         UNCHANGED <<grafanaPermits, renderPermits, inFlight, requests, grafanaApplied>>
  PROVE  GrafanaInv'
<1> DEFINE k == gcall[c]
           n == [k EXCEPT !.step = "sent", !.http = "open"]
<1>1. /\ gcall \in [GrafanaCalls -> GrafanaRecord] /\ k \in GrafanaRecord
      /\ SpanInv(k) /\ GuardInv(k) /\ SilenceInv(c)
      /\ grafanaPermits \in Nat /\ renderPermits \in Nat
  BY DEF GrafanaInv, PermitInv
<1>2. c \notin sent \cup grafanaApplied /\ ~k.finished
  BY <1>1 DEF SilenceInv, GuardInv
<1>3. gcall' = [gcall EXCEPT ![c] = n]
  BY <1>1 DEF Sendable
<1>4. n \in GrafanaRecord
  <2>1. [k EXCEPT !.step = "sent"] \in GrafanaRecord
    BY <1>1, GrafanaFieldUpdates DEF GrafanaSteps
  <2> QED
    BY <2>1, GrafanaFieldUpdates DEF SpanOutcomes
<1>5. /\ n.action = k.action /\ n.step = "sent" /\ n.finished = k.finished /\ n.http = "open"
      /\ n.answer = k.answer /\ n.response = k.response
  BY <1>1 DEF GrafanaRecord
<1>6. k.step \notin {"sent", "body", "returned", "done"} => k.response = "none"
  BY <1>1 DEF GuardInv
<1> HIDE DEF n
<1>7. SpanInv(n) /\ GuardInv(n)
  BY <1>2, <1>5 DEF SpanInv, GuardInv
<1>8. gcall'[c] = n
  BY <1>1, <1>3
<1>9. SilenceInv(c)'
  BY <1>1, <1>2, <1>5, <1>6, <1>8 DEF SilenceInv
<1>10. /\ NeedsGlobal(k) /\ NeedsGlobal(n) /\ (NeedsRender(n) <=> NeedsRender(k))
       /\ OnItsWay(k) /\ OnItsWay(n) /\ k.step # "done"
  BY <1>5 DEF NeedsGlobal, NeedsRender, OnItsWay
<1>11. /\ grafanaPermits' \in Nat /\ renderPermits' \in Nat
       /\ grafanaPermits' = (grafanaPermits + (IF NeedsGlobal(gcall[c]) THEN 1 ELSE 0))
                              - (IF NeedsGlobal(n) THEN 1 ELSE 0)
       /\ renderPermits' = (renderPermits + (IF NeedsRender(gcall[c]) THEN 1 ELSE 0))
                             - (IF NeedsRender(n) THEN 1 ELSE 0)
  BY <1>1, <1>10
<1> HIDE DEF k
<1> QED
  BY <1>3, <1>4, <1>5, <1>7, <1>9, <1>10, <1>11, QuietStep DEF k

\* A request is sent with every permit it needs.
LEMMA SendKeepsInv ==
  ASSUME GrafanaInv, NEW c \in GrafanaCalls, GrafanaSend(c) \/ SendRender(c)
  PROVE  GrafanaInv'
<1>1. SilenceInv(c) /\ gcall[c].step = "ready"
  BY DEF GrafanaInv, GrafanaSend, SendRender
<1>2. CASE Return(c, "invalid_arguments", "none")
  <2>1. /\ "invalid_arguments" \in GrafanaAnswers \ {"none", "request_cancelled"}
        /\ "none" \in SpanOutcomes \ {"open"}
    BY DEF GrafanaAnswers, GrafanaOutcomes, SpanOutcomes
  <2>2. c \notin sent \cup grafanaApplied
    BY <1>1 DEF SilenceInv
  <2> QED
    BY <1>1, <1>2, <2>1, <2>2, ReturnStep
<1>3. CASE ~Return(c, "invalid_arguments", "none")
  <2>1. /\ Sendable(c) /\ sent' = IF gcall[c].action = Silence THEN sent \cup {c} ELSE sent
        /\ UNCHANGED <<grafanaPermits, renderPermits, inFlight, requests, grafanaApplied>>
    BY <1>3, ActionsAssumption DEF GrafanaSend, SendRender
  <2> QED
    BY <1>1, <2>1, SentStep
<1> QED
  BY <1>2, <1>3

-----------------------------------------------------------------------------
(* What Grafana does, and what is read of it.                              *)

\* A response arrives at a call that still waits for one; of a silence, once its request has
\* been handled.
LEMMA GrafanaReceiveStep ==
  ASSUME GrafanaInv, NEW c \in GrafanaCalls, NEW s \in GrafanaStatuses, GrafanaReceive(c, s),
         \A d \in GrafanaCalls \ {c} : /\ d \in sent' => d \in sent
                                       /\ d \in grafanaApplied' => d \in grafanaApplied,
         c \notin sent',
         \/ c \notin grafanaApplied'
         \/ c \in sent /\ s \in {"200", "2xx", "4xx", "5xx"},
         UNCHANGED <<grafanaPermits, renderPermits, inFlight, requests>>
  PROVE  GrafanaInv'
<1> DEFINE k == gcall[c]
           n == IF k.step = "sent" THEN [k EXCEPT !.response = s] ELSE k
<1>1. /\ gcall \in [GrafanaCalls -> GrafanaRecord] /\ k \in GrafanaRecord
      /\ SpanInv(k) /\ GuardInv(k) /\ SilenceInv(c)
      /\ grafanaPermits \in Nat /\ renderPermits \in Nat
  BY DEF GrafanaInv, PermitInv
<1>2. gcall' = [gcall EXCEPT ![c] = n]
  <2>1. CASE k.step = "sent"
    BY <1>1, <2>1 DEF GrafanaReceive
  <2>2. CASE k.step # "sent"
    <3>1. gcall' = gcall /\ n = gcall[c]
      BY <2>2 DEF GrafanaReceive
    <3> QED
      BY <1>1, <3>1
  <2> QED
    BY <2>1, <2>2
<1>3. n \in GrafanaRecord
  BY <1>1, GrafanaFieldUpdates
<1>4. /\ n.action = k.action /\ n.step = k.step /\ n.finished = k.finished /\ n.http = k.http
      /\ n.answer = k.answer
  BY <1>1 DEF GrafanaRecord
<1>5. n.response = IF k.step = "sent" THEN s ELSE k.response
  BY <1>1 DEF GrafanaRecord
<1> HIDE DEF n
<1>6. SpanInv(n) /\ GuardInv(n)
  BY <1>1, <1>4, <1>5 DEF SpanInv, GuardInv
<1>7. gcall'[c] = n
  BY <1>1, <1>2
<1>8. SilenceInv(c)'
  BY <1>1, <1>4, <1>5, <1>7 DEF SilenceInv
<1>9. /\ NeedsGlobal(n) <=> NeedsGlobal(k)
      /\ NeedsRender(n) <=> NeedsRender(k)
      /\ OnItsWay(n) <=> OnItsWay(k)
  BY <1>4 DEF NeedsGlobal, NeedsRender, OnItsWay
<1>10. /\ grafanaPermits' \in Nat /\ renderPermits' \in Nat
       /\ grafanaPermits' = (grafanaPermits + (IF NeedsGlobal(gcall[c]) THEN 1 ELSE 0))
                              - (IF NeedsGlobal(n) THEN 1 ELSE 0)
       /\ renderPermits' = (renderPermits + (IF NeedsRender(gcall[c]) THEN 1 ELSE 0))
                             - (IF NeedsRender(n) THEN 1 ELSE 0)
  BY <1>1, <1>9
<1> HIDE DEF k
<1> QED
  BY <1>2, <1>3, <1>4, <1>6, <1>8, <1>9, <1>10, QuietStep DEF k

\* Grafana acts on a request: only the request and the silence change.
LEMMA GrafanaActsKeepsInv ==
  ASSUME GrafanaInv, NEW c \in GrafanaCalls, AnswerRead(c) \/ Create(c) \/ GrafanaRefuse(c)
  PROVE  GrafanaInv'
<1>1. SilenceInv(c)
  BY DEF GrafanaInv
<1>2. CASE AnswerRead(c)
  <2>1. c \notin sent \cup grafanaApplied
    BY <1>1, <1>2 DEF SilenceInv, AnswerRead
  <2>2. PICK s \in GrafanaStatuses : GrafanaReceive(c, s)
    BY <1>2 DEF AnswerRead
  <2>3. UNCHANGED <<grafanaPermits, renderPermits, inFlight, requests, sent, grafanaApplied>>
    BY <1>2 DEF AnswerRead
  <2>4. /\ \A d \in GrafanaCalls \ {c} : /\ d \in sent' => d \in sent
                                         /\ d \in grafanaApplied' => d \in grafanaApplied
        /\ c \notin sent' /\ c \notin grafanaApplied'
    BY <2>1, <2>3
  <2> QED
    BY <2>2, <2>3, <2>4, GrafanaReceiveStep
<1>3. CASE Create(c)
  <2>1. PICK s \in {"200", "2xx", "4xx", "5xx"} : GrafanaReceive(c, s)
    BY <1>3 DEF Create
  <2>2. /\ c \in sent /\ sent' = sent \ {c} /\ grafanaApplied' = grafanaApplied \cup {c}
        /\ UNCHANGED <<grafanaPermits, renderPermits, inFlight, requests>>
    BY <1>3 DEF Create
  <2>3. s \in GrafanaStatuses
    BY DEF GrafanaStatuses
  <2>4. /\ \A d \in GrafanaCalls \ {c} : /\ d \in sent' => d \in sent
                                         /\ d \in grafanaApplied' => d \in grafanaApplied
        /\ c \notin sent'
    BY <2>2
  <2> QED
    BY <2>1, <2>2, <2>3, <2>4, GrafanaReceiveStep
<1>4. CASE GrafanaRefuse(c)
  <2>1. PICK s \in {"400", "401", "4xx", "5xx"} : GrafanaReceive(c, s)
    BY <1>4 DEF GrafanaRefuse
  <2>2. /\ c \in sent /\ sent' = sent \ {c}
        /\ UNCHANGED <<grafanaPermits, renderPermits, inFlight, requests, grafanaApplied>>
    BY <1>4 DEF GrafanaRefuse
  <2>3. s \in GrafanaStatuses /\ c \notin grafanaApplied
    BY <1>1, <2>2 DEF GrafanaStatuses, SilenceInv
  <2>4. /\ \A d \in GrafanaCalls \ {c} : /\ d \in sent' => d \in sent
                                         /\ d \in grafanaApplied' => d \in grafanaApplied
        /\ c \notin sent'
    BY <2>2
  <2> QED
    BY <2>1, <2>2, <2>3, <2>4, GrafanaReceiveStep
<1> QED
  BY <1>2, <1>3, <1>4

\* The status of an answer is read: the call goes on to the body or ends.
LEMMA StatusKeepsInv ==
  ASSUME GrafanaInv, NEW c \in GrafanaCalls, ReadStatus(c) \/ ReadRenderStatus(c)
  PROVE  GrafanaInv'
<1> DEFINE k == gcall[c]
<1>1. /\ gcall \in [GrafanaCalls -> GrafanaRecord] /\ k \in GrafanaRecord
      /\ SpanInv(k) /\ GuardInv(k) /\ SilenceInv(c) /\ k.step = "sent" /\ k.response # "none"
      /\ grafanaPermits \in Nat /\ renderPermits \in Nat
  BY DEF GrafanaInv, PermitInv, ReadStatus, ReadRenderStatus
<1>2. CASE GoOn(c)
  <2> DEFINE n == [k EXCEPT !.step = "body", !.response = "none"]
  <2>1. gcall' = [gcall EXCEPT ![c] = n]
    BY <1>1, <1>2 DEF GoOn
  <2>2. n \in GrafanaRecord
    <3>1. [k EXCEPT !.step = "body"] \in GrafanaRecord
      BY <1>1, GrafanaFieldUpdates DEF GrafanaSteps
    <3> QED
      BY <3>1, GrafanaFieldUpdates
  <2>3. /\ n.action = k.action /\ n.step = "body" /\ n.finished = k.finished /\ n.http = k.http
        /\ n.answer = k.answer /\ n.response = "none"
    BY <1>1 DEF GrafanaRecord
  <2> HIDE DEF n
  <2>4. SpanInv(n) /\ GuardInv(n)
    BY <1>1, <2>3 DEF SpanInv, GuardInv
  <2>5. gcall'[c] = n /\ UNCHANGED <<sent, grafanaApplied>>
    BY <1>1, <1>2, <2>1 DEF GoOn
  <2>6. SilenceInv(c)'
    BY <1>1, <2>3, <2>5 DEF SilenceInv
  <2>7. /\ NeedsGlobal(n) /\ NeedsGlobal(k)
        /\ NeedsRender(n) <=> NeedsRender(k)
        /\ OnItsWay(n) /\ OnItsWay(k)
    BY <1>1, <2>3 DEF NeedsGlobal, NeedsRender, OnItsWay
  <2>8. /\ grafanaPermits' \in Nat /\ renderPermits' \in Nat
        /\ grafanaPermits' = (grafanaPermits + (IF NeedsGlobal(gcall[c]) THEN 1 ELSE 0))
                               - (IF NeedsGlobal(n) THEN 1 ELSE 0)
        /\ renderPermits' = (renderPermits + (IF NeedsRender(gcall[c]) THEN 1 ELSE 0))
                              - (IF NeedsRender(n) THEN 1 ELSE 0)
        /\ UNCHANGED <<inFlight, requests>>
    BY <1>1, <1>2, <2>7 DEF GoOn
  <2> QED
    BY <1>1, <2>1, <2>2, <2>3, <2>4, <2>5, <2>6, <2>7, <2>8, QuietStep
<1>3. CASE ~GoOn(c) /\ ReadStatus(c)
  <2> DEFINE answer == CASE k.response = "401" -> "unauthorized"
                         [] k.response \in {"400", "4xx"} -> Rejected(c)
                         [] OTHER -> GrafanaOperationFailure(c)
  <2>1. Return(c, answer, "http_error") /\ k.response \notin {"200", "2xx"}
    BY <1>3 DEF ReadStatus
  <2>2. /\ answer \in GrafanaAnswers \ {"none", "request_cancelled"}
        /\ answer \notin {"success", "timeout", "render_timeout"}
    BY DEF GrafanaAnswers, GrafanaOutcomes, Rejected, GrafanaOperationFailure
  <2>3. c \in sent \cup grafanaApplied => answer = "mutation_outcome_unknown"
    BY <1>1, <2>1 DEF SilenceInv, Rejected, GrafanaOperationFailure
  <2>4. "http_error" \in SpanOutcomes \ {"open"}
    BY DEF SpanOutcomes
  <2> HIDE DEF answer
  <2> QED
    BY <1>1, <2>1, <2>2, <2>3, <2>4, ReturnStep
<1>4. CASE ~GoOn(c) /\ ReadRenderStatus(c)
  <2> DEFINE answer == CASE k.response = "401" -> "unauthorized"
                         [] k.response \in {"400", "4xx"} -> "render_rejected"
                         [] OTHER -> "upstream_unavailable"
  <2>1. Return(c, answer, "http_error") /\ k.action \in Renders
    BY <1>4 DEF ReadRenderStatus
  <2>2. /\ answer \in GrafanaAnswers \ {"none", "request_cancelled"}
        /\ answer \notin {"success", "timeout", "render_timeout"}
    BY DEF GrafanaAnswers, GrafanaOutcomes
  <2>3. c \notin sent \cup grafanaApplied
    BY <1>1, <2>1, ActionsAssumption DEF SilenceInv
  <2>4. "http_error" \in SpanOutcomes \ {"open"}
    BY DEF SpanOutcomes
  <2> HIDE DEF answer
  <2> QED
    BY <1>1, <2>1, <2>2, <2>3, <2>4, ReturnStep
<1> QED
  BY <1>2, <1>3, <1>4

\* The body of an answer is read: the call ends with a result or an error.
LEMMA BodyKeepsInv ==
  ASSUME GrafanaInv, NEW c \in GrafanaCalls, ReadJson(c) \/ ReadPng(c)
  PROVE  GrafanaInv'
<1>1. SilenceInv(c) /\ gcall[c].step = "body"
  BY DEF GrafanaInv, ReadJson, ReadPng
<1>2. CASE ReadJson(c)
  <2>1. PICK body \in {"large", "broken", "invalid", "valid"} :
          Return(c,
            CASE body = "valid" -> "success"
              [] body = "broken" -> GrafanaOperationFailure(c)
              [] OTHER -> IF gcall[c].action = Silence THEN "mutation_outcome_unknown"
                          ELSE "invalid_response",
            CASE body \in {"valid", "invalid"} -> "success"
              [] body = "broken" -> "transport_error"
              [] body = "large" -> "response_error")
    BY <1>2 DEF ReadJson
  <2> DEFINE answer == CASE body = "valid" -> "success"
                         [] body = "broken" -> GrafanaOperationFailure(c)
                         [] OTHER -> IF gcall[c].action = Silence
                                     THEN "mutation_outcome_unknown" ELSE "invalid_response"
             http == CASE body \in {"valid", "invalid"} -> "success"
                       [] body = "broken" -> "transport_error"
                       [] body = "large" -> "response_error"
  <2>2. /\ answer \in GrafanaAnswers \ {"none", "request_cancelled"}
        /\ answer \notin {"timeout", "render_timeout"}
        /\ http \in SpanOutcomes \ {"open"} /\ http # "cancelled"
        /\ answer = "success" => http = "success"
    BY DEF GrafanaAnswers, GrafanaOutcomes, SpanOutcomes, GrafanaOperationFailure
  <2>3. c \in sent \cup grafanaApplied => answer \in {"success", "mutation_outcome_unknown"}
    <3>1. c \in sent \cup grafanaApplied => gcall[c].action = Silence
      BY <1>1 DEF SilenceInv
    <3>2. gcall[c].action = Silence => answer \in {"success", "mutation_outcome_unknown"}
      BY DEF GrafanaOperationFailure
    <3> QED
      BY <3>1, <3>2
  <2>4. Return(c, answer, http)
    BY <2>1
  <2> HIDE DEF answer, http
  <2> QED
    BY <1>1, <2>2, <2>3, <2>4, ReturnStep
<1>3. CASE ReadPng(c)
  <2>1. c \notin sent \cup grafanaApplied
    BY <1>1, <1>3, ActionsAssumption DEF SilenceInv, ReadPng
  <2>2. /\ {"success", "render_invalid_response"} \subseteq
             GrafanaAnswers \ {"none", "request_cancelled"}
        /\ {"success", "response_error"} \subseteq SpanOutcomes \ {"open"}
    BY DEF GrafanaAnswers, GrafanaOutcomes, SpanOutcomes
  <2>3. CASE Return(c, "success", "success")
    BY <1>1, <2>1, <2>2, <2>3, ReturnStep
  <2>4. CASE Return(c, "render_invalid_response", "response_error")
    BY <1>1, <2>1, <2>2, <2>4, ReturnStep
  <2> QED
    BY <1>3, <2>3, <2>4 DEF ReadPng
<1> QED
  BY <1>2, <1>3

\* The request fails or times out: the call ends, whatever Grafana still does.
LEMMA GivingUpKeepsInv ==
  ASSUME GrafanaInv, NEW c \in GrafanaCalls, TransportFails(c) \/ Timeout(c) \/ RenderTimeout(c)
  PROVE  GrafanaInv'
<1>1. /\ SpanInv(gcall[c]) /\ SilenceInv(c) /\ gcall[c].step \in {"sent", "body"}
  BY DEF GrafanaInv, TransportFails, Timeout, RenderTimeout
<1>2. /\ SpanDropped(c) = "cancelled" /\ {"transport_error", "cancelled"} \subseteq SpanOutcomes
      /\ {"mutation_outcome_unknown", "upstream_unavailable", "timeout", "render_timeout"}
           \subseteq GrafanaAnswers
  BY <1>1 DEF SpanInv, SpanDropped, SpanOutcomes, GrafanaAnswers, GrafanaOutcomes
<1>3. CASE TransportFails(c)
  <2>1. /\ Return(c, GrafanaOperationFailure(c), "transport_error")
        /\ GrafanaOperationFailure(c) \in {"mutation_outcome_unknown", "upstream_unavailable"}
        /\ c \in sent \cup grafanaApplied =>
             GrafanaOperationFailure(c) = "mutation_outcome_unknown"
    BY <1>1, <1>3 DEF TransportFails, GrafanaOperationFailure, SilenceInv
  <2> QED
    BY <1>1, <1>2, <2>1, ReturnStep
<1>4. CASE Timeout(c)
  <2> DEFINE answer ==
        IF gcall[c].action = Silence THEN "mutation_outcome_unknown" ELSE "timeout"
  <2>1. /\ Return(c, answer, SpanDropped(c))
        /\ answer \in {"mutation_outcome_unknown", "timeout"}
        /\ c \in sent \cup grafanaApplied => answer = "mutation_outcome_unknown"
    BY <1>1, <1>4 DEF Timeout, SilenceInv
  <2> HIDE DEF answer
  <2> QED
    BY <1>1, <1>2, <2>1, ReturnStep
<1>5. CASE RenderTimeout(c)
  <2>1. Return(c, "render_timeout", SpanDropped(c)) /\ c \notin sent \cup grafanaApplied
    BY <1>1, <1>5, ActionsAssumption DEF RenderTimeout, SilenceInv
  <2> QED
    BY <1>1, <1>2, <2>1, ReturnStep
<1> QED
  BY <1>3, <1>4, <1>5

\* DropGuard keeps the invariant.
LEMMA DropGuardKeepsInv ==
  ASSUME GrafanaInv, NEW c \in GrafanaCalls, DropGuard(c)
  PROVE  GrafanaInv'
<1> DEFINE k == gcall[c]
           n == [k EXCEPT !.step = "done"]
<1>1. /\ gcall \in [GrafanaCalls -> GrafanaRecord] /\ k \in GrafanaRecord
      /\ SpanInv(k) /\ GuardInv(k) /\ SilenceInv(c) /\ k.step = "returned"
      /\ grafanaPermits \in Nat /\ renderPermits \in Nat
  BY DEF GrafanaInv, PermitInv, DropGuard
<1>2. k.finished
  BY <1>1 DEF GuardInv
<1>3. /\ gcall' = [gcall EXCEPT ![c] = n]
      /\ UNCHANGED <<grafanaPermits, renderPermits, inFlight, requests, sent, grafanaApplied>>
  BY <1>1, <1>2 DEF DropGuard, MetricsFinish
<1>4. n \in GrafanaRecord
  BY <1>1, GrafanaFieldUpdates DEF GrafanaSteps
<1>5. /\ n.action = k.action /\ n.step = "done" /\ n.finished = k.finished /\ n.http = k.http
      /\ n.answer = k.answer
  BY <1>1 DEF GrafanaRecord
<1> HIDE DEF n
<1>6. SpanInv(n) /\ GuardInv(n)
  BY <1>1, <1>5 DEF SpanInv, GuardInv
<1>7. gcall'[c] = n
  BY <1>1, <1>3
<1>8. SilenceInv(c)'
  BY <1>1, <1>3, <1>5, <1>7 DEF SilenceInv
<1>9. /\ ~NeedsGlobal(n) /\ ~NeedsGlobal(k) /\ ~NeedsRender(n) /\ ~NeedsRender(k)
      /\ ~OnItsWay(n) /\ ~OnItsWay(k)
  BY <1>1, <1>5 DEF NeedsGlobal, NeedsRender, OnItsWay
<1>10. /\ grafanaPermits' \in Nat /\ renderPermits' \in Nat
       /\ grafanaPermits' = (grafanaPermits + (IF NeedsGlobal(gcall[c]) THEN 1 ELSE 0))
                              - (IF NeedsGlobal(n) THEN 1 ELSE 0)
       /\ renderPermits' = (renderPermits + (IF NeedsRender(gcall[c]) THEN 1 ELSE 0))
                             - (IF NeedsRender(n) THEN 1 ELSE 0)
  BY <1>1, <1>3, <1>9
<1> HIDE DEF k
<1> QED
  BY <1>3, <1>4, <1>5, <1>6, <1>8, <1>9, <1>10, QuietStep DEF k

\* GrafanaCancelled keeps the invariant.
LEMMA GrafanaCancelledKeepsInv ==
  ASSUME GrafanaInv, NEW c \in GrafanaCalls, GrafanaCancelled(c)
  PROVE  GrafanaInv'
<1> DEFINE k == gcall[c]
           e == CancelAnswer(k.action)
           n == [k EXCEPT !.step = "done", !.finished = TRUE, !.response = "none",
                          !.http = SpanDropped(c), !.answer = e]
<1>1. /\ gcall \in [GrafanaCalls -> GrafanaRecord] /\ k \in GrafanaRecord
      /\ SpanInv(k) /\ GuardInv(k) /\ SilenceInv(c) /\ k.step \in {"sent", "body"}
      /\ grafanaPermits \in Nat /\ renderPermits \in Nat
  BY DEF GrafanaInv, PermitInv, GrafanaCancelled
<1>2. /\ gcall' = [gcall EXCEPT ![c] = n]
      /\ UNCHANGED <<sent, grafanaApplied>> /\ Release(c) /\ MetricsFinish(c, "cancelled")
  BY <1>1 DEF GrafanaCancelled
<1>3. /\ SpanDropped(c) = "cancelled" /\ e \in {"mutation_outcome_unknown", "request_cancelled"}
      /\ k.action = Silence => e = "mutation_outcome_unknown"
  BY <1>1 DEF SpanInv, SpanDropped, CancelAnswer
<1>4. n \in GrafanaRecord
  <2>1. [k EXCEPT !.step = "done"] \in GrafanaRecord
    BY <1>1, GrafanaFieldUpdates DEF GrafanaSteps
  <2>2. [k EXCEPT !.step = "done", !.finished = TRUE] \in GrafanaRecord
    BY <2>1, GrafanaFieldUpdates
  <2>3. [k EXCEPT !.step = "done", !.finished = TRUE, !.response = "none"] \in GrafanaRecord
    BY <2>2, GrafanaFieldUpdates
  <2>4. SpanDropped(c) \in SpanOutcomes /\ e \in GrafanaAnswers
    BY <1>3 DEF SpanOutcomes, GrafanaAnswers, GrafanaOutcomes
  <2>5. [k EXCEPT !.step = "done", !.finished = TRUE, !.response = "none",
                  !.http = SpanDropped(c)] \in GrafanaRecord
    BY <2>3, <2>4, GrafanaFieldUpdates
  <2> QED
    BY <2>4, <2>5, GrafanaFieldUpdates
<1>5. /\ n.action = k.action /\ n.step = "done" /\ n.finished /\ n.http = SpanDropped(c)
      /\ n.answer = e /\ n.response = "none"
  BY <1>1 DEF GrafanaRecord
<1> HIDE DEF n, e
<1>6. SpanInv(n) /\ GuardInv(n)
  BY <1>3, <1>5 DEF SpanInv, GuardInv
<1>7. gcall'[c] = n
  BY <1>1, <1>2
<1>8. SilenceInv(c)'
  BY <1>1, <1>2, <1>3, <1>5, <1>7 DEF SilenceInv
<1>9. /\ grafanaPermits' = (grafanaPermits + (IF NeedsGlobal(k) THEN 1 ELSE 0))
                             - (IF NeedsGlobal(n) THEN 1 ELSE 0)
      /\ renderPermits' = (renderPermits + (IF NeedsRender(k) THEN 1 ELSE 0))
                            - (IF NeedsRender(n) THEN 1 ELSE 0)
      /\ grafanaPermits' \in Nat /\ renderPermits' \in Nat
  BY <1>1, <1>2, <1>5 DEF Release, HasGlobal, HasRender, NeedsGlobal, NeedsRender
<1>10. MetricsInv'
  <2>1. OnItsWay(k) /\ ~k.finished /\ k.action \in Actions /\ "cancelled" \in GrafanaOutcomes
    BY <1>1 DEF OnItsWay, GuardInv, GrafanaRecord, GrafanaOutcomes
  <2>2. RequestOutcome(n.answer) \in Unsettled
    BY <1>3, <1>5 DEF RequestOutcome, Unsettled
  <2>3. \A o \in Settled : "cancelled" = o <=> RequestOutcome(n.answer) = o
    BY <1>3, <1>5 DEF Settled, RequestOutcome, GrafanaOutcomes
  <2> QED
    BY <1>2, <1>5, <2>1, <2>2, <2>3, MetricsEnd
<1> HIDE DEF k
<1> QED
  BY <1>2, <1>4, <1>6, <1>8, <1>9, <1>10, GrafanaStep DEF k

-----------------------------------------------------------------------------
(* The invariant.                                                          *)

\* No call has begun, nothing is counted.
LEMMA GrafanaInvInit ==
  ASSUME GrafanaInit
  PROVE  GrafanaInv
<1>1. GrafanaFresh \in GrafanaRecord
  BY DEF GrafanaFresh, GrafanaRecord, Actions, GrafanaSteps, GrafanaAnswers, SpanOutcomes
<1>2. /\ gcall \in [GrafanaCalls -> GrafanaRecord]
      /\ \A c \in GrafanaCalls : gcall[c] = GrafanaFresh
  BY <1>1 DEF GrafanaInit
<1>3. ASSUME NEW c \in GrafanaCalls
      PROVE  SpanInv(gcall[c]) /\ GuardInv(gcall[c]) /\ SilenceInv(c)
  BY <1>2 DEF GrafanaInit, GrafanaFresh, SpanInv, GuardInv, SilenceInv
<1>4. IsFiniteSet({}) /\ Cardinality({}) = 0
  BY FS_EmptySet
<1>5. PermitInv
  <2>1. GlobalHolders = {} /\ RenderHolders = {}
    BY <1>2 DEF GlobalHolders, RenderHolders, HasGlobal, HasRender, GrafanaFresh
  <2>2. GrafanaPermitsAccounted
    BY <1>4, <2>1, GrafanaPermitsAssumption
      DEF GrafanaPermitsAccounted, GlobalHolders, RenderHolders, GrafanaInit
  <2> QED
    BY <1>4, <2>1, <2>2, GrafanaPermitsAssumption DEF PermitInv, GrafanaInit
<1>6. MetricsInv
  <2>1. /\ inFlight = [a \in Actions |-> 0]
        /\ requests = [a \in Actions |-> [o \in GrafanaOutcomes |-> 0]]
    BY DEF GrafanaInit
  <2>2. inFlight \in [Actions -> Nat] /\ requests \in [Actions -> [GrafanaOutcomes -> Nat]]
    BY <2>1
  <2>3. ASSUME NEW a \in Actions
        PROVE  /\ OnTheirWay(a) = {} /\ CancelledOrDone(a) = {}
               /\ \A O : Counted(a, O) = {}
    BY <1>2 DEF OnTheirWay, CancelledOrDone, Counted, GrafanaFresh
  <2>4. ASSUME NEW a \in Actions PROVE ActionInv(a)
    <3>1. inFlight[a] = 0 /\ \A o \in GrafanaOutcomes : requests[a][o] = 0
      BY <2>1
    <3>2. requests[a]["cancelled"] = 0 /\ requests[a]["mutation_outcome_unknown"] = 0
      BY <3>1 DEF GrafanaOutcomes
    <3>3. /\ Cardinality(OnTheirWay(a)) = 0 /\ Cardinality(CancelledOrDone(a)) = 0
          /\ \A O : Cardinality(Counted(a, O)) = 0
      BY <1>4, <2>3
    <3> QED
      BY <3>1, <3>2, <3>3 DEF ActionInv, Settled
  <2>5. MetricsAccounted
    BY <2>4 DEF MetricsAccounted, ActionInv, OnTheirWay, CancelledOrDone, Settled
  <2> QED
    BY <1>4, <2>2, <2>3, <2>5 DEF MetricsInv
<1> QED
  BY <1>2, <1>3, <1>5, <1>6 DEF GrafanaInv

\* A step of another client changes nothing here.
LEMMA GrafanaInvUnchanged ==
  ASSUME GrafanaInv, UNCHANGED grafanaVars
  PROVE  GrafanaInv'
<1>1. ASSUME NEW c \in GrafanaCalls
      PROVE  (SpanInv(gcall[c]) /\ GuardInv(gcall[c]) /\ SilenceInv(c))'
  BY DEF GrafanaInv, grafanaVars, SpanInv, GuardInv, SilenceInv
<1>2. PermitInv'
  BY DEF GrafanaInv, grafanaVars, PermitInv, GrafanaPermitsAccounted, GlobalHolders,
         RenderHolders, HasGlobal, HasRender
<1>3. MetricsInv'
  <2>1. MetricsInv /\ UNCHANGED <<gcall, inFlight, requests>>
    BY DEF GrafanaInv, grafanaVars
  <2>2. ASSUME NEW a \in Actions
        PROVE  /\ OnTheirWay(a)' = OnTheirWay(a) /\ CancelledOrDone(a)' = CancelledOrDone(a)
               /\ \A O : Counted(a, O)' = Counted(a, O)
    BY <2>1 DEF OnTheirWay, CancelledOrDone, Counted
  <2>3. ASSUME NEW a \in Actions PROVE ActionInv(a)'
    <3>1. ActionInv(a)
      BY <2>1, MetricsOfActions
    <3> QED
      BY <2>1, <2>2, <3>1 DEF ActionInv
  <2>4. MetricsAccounted'
    BY <2>3 DEF MetricsAccounted, ActionInv, OnTheirWay, CancelledOrDone, Settled
  <2> QED
    BY <2>1, <2>2, <2>4 DEF MetricsInv
<1> QED
  BY <1>1, <1>2, <1>3 DEF GrafanaInv, grafanaVars

\* Every step of the Grafana client keeps its invariant.
LEMMA GrafanaInvNext ==
  ASSUME GrafanaInv, [GrafanaNext]_grafanaVars
  PROVE  GrafanaInv'
<1>1. CASE UNCHANGED grafanaVars
  BY <1>1, GrafanaInvUnchanged
<1>2. CASE GrafanaNext
  <2>1. PICK c \in GrafanaCalls :
          \/ BeginRead(c) \/ BeginRender(c) \/ BeginSilence(c) \/ GrafanaProceed(c)
          \/ ReadStatus(c) \/ ReadRenderStatus(c) \/ ReadJson(c) \/ ReadPng(c)
          \/ TransportFails(c) \/ GrafanaCancelled(c)
          \/ AnswerRead(c) \/ Create(c) \/ GrafanaRefuse(c)
    BY <1>2 DEF GrafanaNext
  <2>2. CASE BeginRead(c) \/ BeginRender(c) \/ BeginSilence(c)
    <3>1. \E a \in Actions : Enter(c, a)
      BY <2>2 DEF BeginRead, BeginRender, BeginSilence, Actions
    <3> QED
      BY <3>1, EnterKeepsInv
  <2>3. CASE TakePermit(c)
    BY <2>3, TakePermitKeepsInv
  <2>4. CASE TakeRenderPermit(c)
    BY <2>4, TakeRenderPermitKeepsInv
  <2>5. CASE GrafanaSend(c) \/ SendRender(c)
    BY <2>5, SendKeepsInv
  <2>6. CASE Timeout(c) \/ RenderTimeout(c) \/ TransportFails(c)
    BY <2>6, GivingUpKeepsInv
  <2>7. CASE DropGuard(c)
    BY <2>7, DropGuardKeepsInv
  <2>8. CASE ReadStatus(c) \/ ReadRenderStatus(c)
    BY <2>8, StatusKeepsInv
  <2>9. CASE ReadJson(c) \/ ReadPng(c)
    BY <2>9, BodyKeepsInv
  <2>10. CASE GrafanaCancelled(c)
    BY <2>10, GrafanaCancelledKeepsInv
  <2>11. CASE AnswerRead(c) \/ Create(c) \/ GrafanaRefuse(c)
    BY <2>11, GrafanaActsKeepsInv
  <2> QED
    BY <2>1, <2>2, <2>3, <2>4, <2>5, <2>6, <2>7, <2>8, <2>9, <2>10, <2>11 DEF GrafanaProceed
<1> QED
  BY <1>1, <1>2

-----------------------------------------------------------------------------
(* The theorems.                                                           *)

\* The invariant holds in every reachable state.
LEMMA GrafanaInvHolds == GrafanaSpec => []GrafanaInv
BY GrafanaInvInit, GrafanaInvNext, PTL DEF GrafanaSpec

\* What the invariant says of permits, telemetry and the silence.
LEMMA GrafanaInvShows ==
  ASSUME GrafanaInv
  PROVE  /\ GrafanaPermitsAccounted /\ TelemetryAccounted
         /\ GrafanaDefiniteErrorNotApplied /\ RetryIsSafe
<1>1. GrafanaPermitsAccounted /\ MetricsAccounted
  BY DEF GrafanaInv, PermitInv, MetricsInv
<1>2. SpanTellsTheEnd
  BY DEF GrafanaInv, SpanInv, SpanTellsTheEnd
<1>3. GrafanaDefiniteErrorNotApplied /\ RetryIsSafe
  BY DEF GrafanaInv, SilenceInv, GrafanaDefiniteErrorNotApplied, RetryIsSafe, Retryable
<1> QED
  BY <1>1, <1>2, <1>3 DEF TelemetryAccounted

\* Whatever mix of answers, timeouts and cancellations there was, a permit of Grafana is
\* free unless a call that was admitted holds it (client.rs:413-422, 523-527).
THEOREM GrafanaPermitsHold == GrafanaSpec => []GrafanaPermitsAccounted
BY GrafanaInvHolds, GrafanaInvShows, PTL

\* Gauge, counters and spans agree with what callers were told, however the call ended
\* (telemetry.rs:43-88, http_client.rs:48-83).
THEOREM TelemetryHolds == GrafanaSpec => []TelemetryAccounted
BY GrafanaInvHolds, GrafanaInvShows, PTL

\* A silence whose call reported a definite error, or an error that may be retried, was not
\* created and will not be (client.rs:494-601, error.rs:20-75).
THEOREM GrafanaErrorsHold == GrafanaSpec => [](GrafanaDefiniteErrorNotApplied /\ RetryIsSafe)
BY GrafanaInvHolds, GrafanaInvShows, PTL

-----------------------------------------------------------------------------
(* The four clients side by side: each behaves as it does alone.           *)

\* The clients of MCClients share no state: a behaviour of all is one of each.
LEMMA ClientsAlone == MCSpec => CephSpec /\ KubectlSpec /\ TektonSpec /\ GrafanaSpec
<1>1. MCInit => CephInit /\ KubectlInit /\ TektonInit /\ GrafanaInit
  BY DEF MCInit
<1>2. [MCNext]_mcVars => /\ [CephNext]_cephVars /\ [KubectlNext]_kubectlVars
                         /\ [TektonNext]_tektonVars /\ [GrafanaNext]_grafanaVars
  BY DEF MCNext, mcVars
<1> QED
  BY <1>1, <1>2, PTL DEF MCSpec, CephSpec, KubectlSpec, TektonSpec, GrafanaSpec

\* Every permit, slot and mutex of the four clients is where the calls under way say.
THEOREM PermitsHold == MCSpec => []PermitsAccounted
BY ClientsAlone, CephResourcesHold, KubectlPermitsHold, TektonResourcesHold, GrafanaPermitsHold,
   PTL DEF PermitsAccounted

\* An error that claims that nothing happened is true of every mutation of the four clients,
\* and stays true of requests that outlive their calls.
THEOREM DefiniteErrorsHold == MCSpec => []DefiniteErrorNotApplied
BY ClientsAlone, CephErrorsHold, MutationAnswersHold, TektonErrorsHold, GrafanaErrorsHold,
   PTL DEF DefiniteErrorNotApplied

=============================================================================
