----------------------------- MODULE CephClient -----------------------------
(***************************************************************************)
(* The Ceph Dashboard client (src/integrations/ceph/client.rs) under the   *)
(* deadline of CephCatalog (catalog.rs) and the MCP handlers that may drop *)
(* a call (mcp.rs).  Calls share one cached Dashboard token, the mutex     *)
(* around it, which is held across a login, and a bounded pool of request  *)
(* permits.                                                                *)
(*                                                                         *)
(* A call is a query, a mutation (mark, reweight, scrub) or a removal      *)
(* (destroy, purge), which queries safe-to-destroy before it mutates.  Its *)
(* current request is its `leg`.  The Dashboard is external: it may handle *)
(* a request late, after the client gave up on it.                         *)
(***************************************************************************)
EXTENDS Integers, FiniteSets

CONSTANTS
  CephCalls,
  CephPermits, \* Semaphore::new(4)
  MaxLogins,   \* bound on the tokens the Dashboard issues
  None

ASSUME CephPermitsAssumption == CephPermits \in Nat \ {0}
ASSUME LoginsAssumption == MaxLogins \in Nat

VARIABLES
  token,      \* the cached token: 0 for none, else the number of its login
  lock,       \* who holds the mutex around the token across an await
  cephPermits,    \* permits left
  logins,     \* external: tokens issued so far
  live,       \* external: tokens the Dashboard still accepts
  kind,       \* what the call does
  pc,         \* where the call is
  leg,        \* its current request: "query" or "mutation"
  sends,      \* requests sent for the current leg
  mine,       \* the token the call uses
  progress,   \* DispatchProgress: the mutation may have been sent
  wire,       \* external: the request on its way, or the response
  cephApplied,    \* external: times the Dashboard applied the mutation
  safe,       \* the answer of safe-to-destroy
  outcome     \* what the MCP tool returned

cephVars == <<token, lock, cephPermits, logins, live, kind, pc, leg, sends, mine,
              progress, wire, cephApplied, safe, outcome>>

Kinds == {"query", "mutation", "removal"}
\* "5xx" stands for every status that is neither a success nor a client error,
\* "accepted_no_task" for a success other than 200 that names no safe task.
Responses == {"ok", "unsafe", "accepted", "accepted_no_task", "bad_body",
              "too_large", "401", "403", "404", "4xx", "5xx"}

\* Errors of a mutation or a removal that say it did not happen.
CephDefinite == {"unauthorized", "mutation_rejected", "query_rejected", "not_found",
                 "capacity_exhausted", "unsafe_to_destroy", "timeout",
                 "upstream_unavailable", "invalid_response", "response_too_large"}
CephOutcomes == CephDefinite \cup {"ok", "mutation_outcome_unknown", "cancelled"}

ASSUME CephAbsenceAssumption == None \notin CephCalls \cup CephOutcomes

Upd(f, c, v) == [f EXCEPT ![c] = v]

CephInit ==
  /\ token = 0 /\ lock = None /\ cephPermits = CephPermits /\ logins = 0 /\ live = {}
  /\ kind = [c \in CephCalls |-> "query"]
  /\ pc = [c \in CephCalls |-> "idle"]
  /\ leg = [c \in CephCalls |-> "query"]
  /\ sends = [c \in CephCalls |-> 0]
  /\ mine = [c \in CephCalls |-> 0]
  /\ progress = [c \in CephCalls |-> FALSE]
  /\ wire = [c \in CephCalls |-> "none"]
  /\ cephApplied = [c \in CephCalls |-> 0]
  /\ safe = [c \in CephCalls |-> FALSE]
  /\ outcome = [c \in CephCalls |-> None]

-----------------------------------------------------------------------------
CephFinish(c, o) ==
  /\ pc' = Upd(pc, c, "done")
  /\ outcome' = Upd(outcome, c, o)

CephBegin(c, k) ==
  /\ pc[c] = "idle"
  /\ kind' = Upd(kind, c, k)
  /\ leg' = Upd(leg, c, IF k = "mutation" THEN "mutation" ELSE "query")
  /\ pc' = Upd(pc, c, "auth")
  /\ UNCHANGED <<token, lock, cephPermits, logins, live, sends, mine, progress,
                 wire, cephApplied, safe, outcome>>

\* authenticate, with the mutex free and a token in the cache.
UseCached(c) ==
  /\ pc[c] = "auth" /\ lock = None /\ token # 0
  /\ mine' = Upd(mine, c, token)
  /\ pc' = Upd(pc, c, "ready")
  /\ UNCHANGED <<token, lock, cephPermits, logins, live, kind, leg, sends,
                 progress, wire, cephApplied, safe, outcome>>

\* authenticate without a token: a permit, then the login under the mutex.
StartLogin(c) ==
  /\ pc[c] = "auth" /\ lock = None /\ token = 0
  /\ IF cephPermits = 0
     THEN CephFinish(c, "capacity_exhausted") /\ UNCHANGED <<lock, cephPermits>>
     ELSE /\ lock' = c /\ cephPermits' = cephPermits - 1
          /\ pc' = Upd(pc, c, "login") /\ UNCHANGED outcome
  /\ UNCHANGED <<token, logins, live, kind, leg, sends, mine, progress, wire,
                 cephApplied, safe>>

LoginSucceeds(c) ==
  /\ pc[c] = "login" /\ logins < MaxLogins
  /\ logins' = logins + 1 /\ live' = live \cup {logins + 1}
  /\ token' = logins + 1
  /\ mine' = Upd(mine, c, logins + 1)
  /\ lock' = None /\ cephPermits' = cephPermits + 1
  /\ pc' = Upd(pc, c, "ready")
  /\ UNCHANGED <<kind, leg, sends, progress, wire, cephApplied, safe, outcome>>

LoginErrors == {"unauthorized", "upstream_unavailable", "invalid_response",
                "response_too_large", "timeout"}

LoginFailsKeepingPermit(c) ==
  /\ pc[c] = "login"
  /\ \E e \in LoginErrors : CephFinish(c, e)
  /\ lock' = None
  /\ UNCHANGED <<token, cephPermits, logins, live, kind, leg, sends, mine, progress,
                 wire, cephApplied, safe>>

LoginFails(c) ==
  /\ pc[c] = "login"
  /\ \E e \in LoginErrors : CephFinish(c, e)
  /\ lock' = None /\ cephPermits' = cephPermits + 1
  /\ UNCHANGED <<token, logins, live, kind, leg, sends, mine, progress, wire,
                 cephApplied, safe>>

\* send up to its await: a permit, the progress mark, the request.
CephSend(c) ==
  /\ pc[c] = "ready"
  /\ IF cephPermits = 0
     THEN /\ CephFinish(c, "capacity_exhausted")
          /\ UNCHANGED <<cephPermits, sends, progress, wire>>
     ELSE /\ cephPermits' = cephPermits - 1
          /\ pc' = Upd(pc, c, "sent")
          /\ sends' = Upd(sends, c, sends[c] + 1)
          /\ progress' = Upd(progress, c, leg[c] = "mutation")
          /\ wire' = Upd(wire, c, "request")
          /\ UNCHANGED outcome
  /\ UNCHANGED <<token, lock, logins, live, kind, leg, mine, cephApplied, safe>>

-----------------------------------------------------------------------------
(* The client takes a response.                                            *)

\* The error of a failed leg, as failure(operation) and send choose it.
LegError(c, r) ==
  IF leg[c] = "mutation"
  THEN CASE r = "401" -> "unauthorized"
         [] r \in {"403", "4xx"} -> "mutation_rejected"
         [] r = "404" -> "not_found"
         [] OTHER -> "mutation_outcome_unknown"
  ELSE CASE r \in {"401", "403"} -> "unauthorized"
         [] r = "404" -> "not_found"
         [] r = "4xx" -> "query_rejected"
         [] r = "bad_body" -> "invalid_response"
         [] r = "too_large" -> "response_too_large"
         [] r = "timeout" -> "timeout"
         [] OTHER -> "upstream_unavailable"

TakeResponse(c) ==
  /\ pc[c] = "sent" /\ wire[c] \in Responses
  /\ cephPermits' = cephPermits + 1
  /\ wire' = Upd(wire, c, "none")

RetryAlways(c) ==
  /\ TakeResponse(c)
  /\ wire[c] \in {"401", "403", "5xx"} /\ sends[c] = 1
  /\ pc' = Upd(pc, c, "invalidate")
  /\ UNCHANGED <<token, lock, logins, live, kind, leg, sends, mine, progress,
                 cephApplied, safe, outcome>>

\* query: the first 401 or 403 leads to one more try with a fresh token.
Unauthorized(c) ==
  /\ TakeResponse(c)
  /\ leg[c] = "query" /\ wire[c] \in {"401", "403"} /\ sends[c] = 1
  /\ pc' = Upd(pc, c, "invalidate")
  /\ UNCHANGED <<token, lock, logins, live, kind, leg, sends, mine, progress,
                 cephApplied, safe, outcome>>

InvalidateAny(c) ==
  /\ pc[c] = "invalidate" /\ lock = None
  /\ token' = 0
  /\ pc' = Upd(pc, c, "auth")
  /\ UNCHANGED <<lock, cephPermits, logins, live, kind, leg, sends, mine, progress,
                 wire, cephApplied, safe, outcome>>

\* The cached token is cleared only if it is still the one that was refused.
Invalidate(c) ==
  /\ pc[c] = "invalidate" /\ lock = None
  /\ token' = IF token = mine[c] THEN 0 ELSE token
  /\ pc' = Upd(pc, c, "auth")
  /\ UNCHANGED <<lock, cephPermits, logins, live, kind, leg, sends, mine, progress,
                 wire, cephApplied, safe, outcome>>

CheckSafeLater(c) ==
  /\ TakeResponse(c)
  /\ leg[c] = "query" /\ kind[c] = "removal" /\ wire[c] \in {"ok", "unsafe"}
  /\ safe' = Upd(safe, c, wire[c] = "ok")
  /\ pc' = Upd(pc, c, "auth")
  /\ leg' = Upd(leg, c, "mutation")
  /\ sends' = Upd(sends, c, 0)
  /\ UNCHANGED <<token, lock, logins, live, kind, mine, progress, cephApplied, outcome>>

\* safe-to-destroy answered; require_safe goes on only if it said safe.
CheckSafe(c) ==
  /\ TakeResponse(c)
  /\ leg[c] = "query" /\ kind[c] = "removal" /\ wire[c] \in {"ok", "unsafe"}
  /\ safe' = Upd(safe, c, wire[c] = "ok")
  /\ IF wire[c] = "ok"
     THEN /\ pc' = Upd(pc, c, "auth")
          /\ leg' = Upd(leg, c, "mutation")
          /\ sends' = Upd(sends, c, 0)
          /\ UNCHANGED outcome
     ELSE CephFinish(c, "unsafe_to_destroy") /\ UNCHANGED <<leg, sends>>
  /\ UNCHANGED <<token, lock, logins, live, kind, mine, progress, cephApplied>>

\* The call ends with the response: mutation_result, or the result of query.
Complete(c) ==
  /\ TakeResponse(c)
  /\ ~(leg[c] = "query" /\ wire[c] \in {"401", "403"} /\ sends[c] = 1)
  /\ ~(leg[c] = "query" /\ kind[c] = "removal" /\ wire[c] \in {"ok", "unsafe"})
  /\ CephFinish(c, IF wire[c] \in {"ok", "unsafe", "accepted"} THEN "ok" ELSE LegError(c, wire[c]))
  /\ UNCHANGED <<token, lock, logins, live, kind, leg, sends, mine, progress,
                 cephApplied, safe>>

\* The connection broke, or the response was too large, or the inner timeout
\* of send ran out; the request may still be on its way.
SendFails(c) ==
  /\ pc[c] = "sent"
  /\ cephPermits' = cephPermits + 1
  /\ \E e \in {"transport", "timeout"} : CephFinish(c, LegError(c, e))
  /\ UNCHANGED <<token, lock, logins, live, kind, leg, sends, mine, progress,
                 wire, cephApplied, safe>>

-----------------------------------------------------------------------------
(* The call's future is dropped at one of its awaits: the permit and the   *)
(* mutex are released, and a request on its way stays on its way.          *)

Awaiting(c) == pc[c] \in {"auth", "login", "sent", "invalidate"}

DropCallReleasesAlways(c, o) ==
  /\ Awaiting(c)
  /\ CephFinish(c, o)
  /\ lock' = IF lock = c THEN None ELSE lock
  /\ cephPermits' = cephPermits + 1
  /\ UNCHANGED <<token, logins, live, kind, leg, sends, mine, progress, wire,
                 cephApplied, safe>>

DropCall(c, o) ==
  /\ Awaiting(c)
  /\ CephFinish(c, o)
  /\ lock' = IF lock = c THEN None ELSE lock
  /\ cephPermits' = IF pc[c] \in {"login", "sent"} THEN cephPermits + 1 ELSE cephPermits
  /\ UNCHANGED <<token, logins, live, kind, leg, sends, mine, progress, wire,
                 cephApplied, safe>>

DeadlineAlwaysTimeout(c) == DropCall(c, "timeout")

DeadlineOnlyInSend(c) ==
  /\ pc[c] = "sent"
  /\ DropCall(c, IF progress[c] THEN "mutation_outcome_unknown" ELSE "timeout")

\* The deadline of CephCatalog::execute and with_deadline.
CephDeadline(c) ==
  DropCall(c, IF progress[c] THEN "mutation_outcome_unknown" ELSE "timeout")

\* The MCP request is cancelled (dispatch_ceph_exec, dispatch_ceph_query).
CephCancel(c) ==
  DropCall(c, IF kind[c] = "query" THEN "cancelled" ELSE "mutation_outcome_unknown")

-----------------------------------------------------------------------------
(* External: the Dashboard.                                                *)

\* A 4xx answer means that nothing was done; a 5xx answer may come either way.
CephRefuse(c) ==
  /\ wire[c] = "request"
  /\ \/ mine[c] \notin live /\ wire' = Upd(wire, c, "401")
     \/ /\ mine[c] \in live
        /\ \E r \in {"403", "404", "4xx", "5xx"} : wire' = Upd(wire, c, r)
  /\ UNCHANGED <<token, lock, cephPermits, logins, live, kind, pc, leg, sends, mine,
                 progress, cephApplied, safe, outcome>>

Handle(c) ==
  /\ wire[c] = "request" /\ mine[c] \in live
  /\ IF leg[c] = "mutation"
     THEN /\ cephApplied' = Upd(cephApplied, c, cephApplied[c] + 1)
          /\ \E r \in {"ok", "accepted", "accepted_no_task", "bad_body", "too_large", "5xx"} :
               wire' = Upd(wire, c, r)
     ELSE /\ \E r \in {"ok", "bad_body", "too_large"} \cup
                       (IF kind[c] = "removal" THEN {"unsafe"} ELSE {}) :
               wire' = Upd(wire, c, r)
          /\ UNCHANGED cephApplied
  /\ UNCHANGED <<token, lock, cephPermits, logins, live, kind, pc, leg, sends, mine,
                 progress, safe, outcome>>

CephExpire(t) ==
  /\ t \in live
  /\ live' = live \ {t}
  /\ UNCHANGED <<token, lock, cephPermits, logins, kind, pc, leg, sends, mine,
                 progress, wire, cephApplied, safe, outcome>>

-----------------------------------------------------------------------------
ClientStep(c) ==
  \/ UseCached(c) \/ StartLogin(c) \/ LoginSucceeds(c) \/ LoginFails(c)
  \/ CephSend(c) \/ Unauthorized(c) \/ Invalidate(c) \/ CheckSafe(c)
  \/ Complete(c) \/ SendFails(c) \/ CephDeadline(c) \/ CephCancel(c)

CephNext ==
  \/ \E c \in CephCalls :
       \/ \E k \in Kinds : CephBegin(c, k)
       \/ ClientStep(c) \/ CephRefuse(c) \/ Handle(c)
  \/ \E t \in live : CephExpire(t)

\* The timer of the deadline fires, and the task it belongs to is polled; what
\* runs between two awaits runs to the next one.  Nothing is assumed of the
\* Dashboard or of the order in which the mutex is granted.
CephFairness == \A c \in CephCalls : WF_cephVars(CephDeadline(c)) /\ WF_cephVars(CephSend(c))

CephSpec == CephInit /\ [][CephNext]_cephVars /\ CephFairness

-----------------------------------------------------------------------------
(* Properties.                                                             *)

\* Every variable keeps its type.
CephTypeOK ==
  /\ token \in 0..MaxLogins /\ logins \in 0..MaxLogins /\ live \subseteq 1..MaxLogins
  /\ lock \in CephCalls \cup {None}
  /\ cephPermits \in 0..CephPermits
  /\ kind \in [CephCalls -> Kinds]
  /\ pc \in [CephCalls -> {"idle", "auth", "login", "ready", "sent", "invalidate", "done"}]
  /\ leg \in [CephCalls -> {"query", "mutation"}]
  /\ sends \in [CephCalls -> 0..2]
  /\ mine \in [CephCalls -> 0..MaxLogins]
  /\ progress \in [CephCalls -> BOOLEAN]
  /\ wire \in [CephCalls -> Responses \cup {"none", "request"}]
  /\ cephApplied \in [CephCalls -> Nat]
  /\ safe \in [CephCalls -> BOOLEAN]
  /\ outcome \in [CephCalls -> CephOutcomes \cup {None}]

\* "Input validation, ... capacity exhaustion before dispatch, and an explicit
\* Dashboard rejection produce a definite safe error": after a definite error
\* the Dashboard has not applied the mutation and holds no request of it that
\* it could still apply, whichever timeout, token or permit ended the call.
CephDefiniteErrorNotApplied ==
  \A c \in CephCalls :
    kind[c] # "query" /\ outcome[c] \in CephDefinite =>
      cephApplied[c] = 0 /\ ~(leg[c] = "mutation" /\ wire[c] = "request")

\* A mutation is sent once, so it is applied at most once, even when the token
\* it used turns out to be expired.
AppliedAtMostOnce == \A c \in CephCalls : cephApplied[c] <= 1

\* A destroy or purge is only sent after safe-to-destroy said so in this call.
RemovalOnlyIfSafe ==
  \A c \in CephCalls : kind[c] = "removal" /\ progress[c] => safe[c]

\* Every permit and the mutex are given back on every path: permits in use are
\* those of calls with a request or a login under way, and the holder of the
\* mutex is in its login.
CephResourcesAccounted ==
  /\ cephPermits = CephPermits - Cardinality({c \in CephCalls : pc[c] \in {"login", "sent"}})
  /\ \A c \in CephCalls : (lock = c) <=> (pc[c] = "login")

\* The retry of one call never throws away the token another call has just
\* obtained: a token leaves the cache only through a call that used that very
\* token and was refused.
OnlyRefusedTokenDropped ==
  [][token # 0 /\ token' # token =>
       \E c \in CephCalls : pc[c] = "invalidate" /\ mine[c] = token]_cephVars

\* "No action retries automatically" (docs/ceph/spec/common.md).
NoAutomaticRetry == \A c \in CephCalls : sends[c] <= 1

\* Every call ends, in spite of the mutex that is held across a login and of a
\* Dashboard that never answers.
CephCallEnds == \A c \in CephCalls : pc[c] # "idle" ~> pc[c] = "done"

\* A mutation of the Dashboard happens at most once, and a removal only after the check of
\* this call (client.rs:354-372, 447-457).
CephMutationsSafe == AppliedAtMostOnce /\ RemovalOnlyIfSafe
=============================================================================
