---------------------------- MODULE GrafanaClient ----------------------------
(***************************************************************************)
(* Calls of the Grafana tools (src/integrations/grafana/client.rs,         *)
(* telemetry.rs, http_client.rs and the handlers of mcp.rs).  All of them  *)
(* share a few permits; a render needs a second one.  Around a call live   *)
(* a metrics guard and, once a request is sent, a span guard, which settle *)
(* what is counted however the call ends.                                  *)
(*                                                                         *)
(* Grafana is external.  A silence that was sent may be created after its  *)
(* caller has left.  What the tools do with a response is in               *)
(* GrafanaResults.                                                         *)
(***************************************************************************)
EXTENDS Integers, FiniteSets

CONSTANTS
  GrafanaCalls,
  Reads,          \* actions that read, as the metrics name them
  Renders,        \* "dashboard" and "panel"
  Silence,        \* "silence.create", the only mutation
  GrafanaPermits, \* 4
  RenderPermits   \* 2

ASSUME GrafanaPermitsAssumption == GrafanaPermits \in Nat /\ RenderPermits \in Nat
ASSUME ActionsAssumption == Reads \cap Renders = {} /\ Silence \notin Reads \cup Renders

VARIABLES
  grafanaPermits, \* free permits
  renderPermits,  \* free render permits
  gcall,          \* per call: its action and how far it is
  inFlight,       \* metric: active requests per action
  requests,       \* metric: completed requests per action and outcome
  sent,           \* silences sent and not yet handled
  grafanaApplied  \* external: silences created

grafanaVars == <<grafanaPermits, renderPermits, gcall, inFlight, requests, sent, grafanaApplied>>

Actions == Reads \cup Renders \cup {Silence}

\* `http` is the outcome of the request's span, `finished` the flag of the metrics guard.
GrafanaFresh == [action |-> Silence, step |-> "idle", response |-> "none",
                 http |-> "none", finished |-> FALSE, answer |-> "none"]

GrafanaOutcomes == {"success", "invalid_arguments", "capacity_exhausted", "timeout",
                    "unauthorized", "query_rejected", "mutation_rejected",
                    "mutation_outcome_unknown", "upstream_unavailable", "invalid_response",
                    "render_rejected", "render_invalid_response", "cancelled"}

GrafanaInit ==
  /\ grafanaPermits = GrafanaPermits /\ renderPermits = RenderPermits
  /\ gcall = [c \in GrafanaCalls |-> GrafanaFresh]
  /\ inFlight = [a \in Actions |-> 0]
  /\ requests = [a \in Actions |-> [o \in GrafanaOutcomes |-> 0]]
  /\ sent = {} /\ grafanaApplied = {}
-----------------------------------------------------------------------------
\* request_outcome: a render's timeout is counted as a timeout.
RequestOutcome(answer) == IF answer = "render_timeout" THEN "timeout" ELSE answer

MetricsFinishAgain(c, outcome) ==
  LET a == gcall[c].action IN
  /\ inFlight' = [inFlight EXCEPT ![a] = @ - 1]
  /\ requests' = [requests EXCEPT ![a][outcome] = @ + 1]

\* GrafanaMetricsGuard::finish
MetricsFinish(c, outcome) ==
  LET a == gcall[c].action IN
  IF gcall[c].finished THEN UNCHANGED <<inFlight, requests>>
  ELSE /\ inFlight' = [inFlight EXCEPT ![a] = @ - 1]
       /\ requests' = [requests EXCEPT ![a][outcome] = @ + 1]

\* Where a call holds the permits it may hold.
HasGlobal(c) == gcall[c].step \in {"permit", "ready", "sent", "body"}
HasRender(c) == gcall[c].action \in Renders /\ gcall[c].step \in {"ready", "sent", "body"}

Release(c) ==
  /\ grafanaPermits' = grafanaPermits + (IF HasGlobal(c) THEN 1 ELSE 0)
  /\ renderPermits' = renderPermits + (IF HasRender(c) THEN 1 ELSE 0)

SpanDroppedOpen(c) == gcall[c].http

\* The span guard is dropped with the request, and says "cancelled" if nothing else was said.
SpanDropped(c) == IF gcall[c].http = "open" THEN "cancelled" ELSE gcall[c].http

\* run and render come to their end: permits go with the inner future, then the outcome
\* is counted.
Return(c, answer, http) ==
  /\ Release(c)
  /\ MetricsFinish(c, RequestOutcome(answer))
  /\ gcall' = [gcall EXCEPT ![c].step = "returned", ![c].answer = answer,
                  ![c].http = http, ![c].finished = TRUE, ![c].response = "none"]
  /\ UNCHANGED <<sent, grafanaApplied>>

\* The guard goes out of scope.
DropGuard(c) ==
  /\ gcall[c].step = "returned"
  /\ MetricsFinish(c, "cancelled")
  /\ gcall' = [gcall EXCEPT ![c].step = "done"]
  /\ UNCHANGED <<grafanaPermits, renderPermits, sent, grafanaApplied>>

CancelAnswer(a) == IF a = Silence THEN "mutation_outcome_unknown" ELSE "request_cancelled"

\* The MCP request is cancelled while the tool awaits its answer: everything is dropped.
GrafanaCancelled(c) ==
  /\ gcall[c].step \in {"sent", "body"}
  /\ Release(c)
  /\ MetricsFinish(c, "cancelled")
  /\ gcall' = [gcall EXCEPT ![c].step = "done", ![c].finished = TRUE, ![c].response = "none",
                  ![c].http = SpanDropped(c),
                  ![c].answer = CancelAnswer(gcall[c].action)]
  /\ UNCHANGED <<sent, grafanaApplied>>
-----------------------------------------------------------------------------
RetryableUnknown(answer) ==
  answer \in {"capacity_exhausted", "timeout", "render_timeout", "upstream_unavailable",
              "mutation_outcome_unknown"}

\* into_tool_error: the errors of which a client is told that it may try again.
Retryable(answer) ==
  answer \in {"capacity_exhausted", "timeout", "render_timeout", "upstream_unavailable"}

\* A handler of mcp.rs: it gets no further than itself if its arguments do not pass
\* validation, or if the request was cancelled already.
Enter(c, a) ==
  /\ gcall[c].step = "idle"
  /\ \/ /\ gcall' = [gcall EXCEPT ![c].action = a, ![c].step = "begun"]
        /\ inFlight' = [inFlight EXCEPT ![a] = @ + 1]
     \/ /\ \E e \in {"invalid_arguments", CancelAnswer(a)} :
             gcall' = [gcall EXCEPT ![c].action = a, ![c].step = "done", ![c].answer = e]
        /\ UNCHANGED inFlight
  /\ UNCHANGED <<grafanaPermits, renderPermits, requests, sent, grafanaApplied>>

BeginRead(c) == \E a \in Reads : Enter(c, a)
BeginRender(c) == \E a \in Renders : Enter(c, a)
BeginSilence(c) == Enter(c, Silence)

\* try_acquire_owned: no waiting.
TakePermit(c) ==
  /\ gcall[c].step = "begun"
  /\ IF grafanaPermits = 0 THEN Return(c, "capacity_exhausted", "none")
     ELSE /\ grafanaPermits' = grafanaPermits - 1
          /\ gcall' = [gcall EXCEPT ![c].step =
                          IF gcall[c].action \in Renders THEN "permit" ELSE "ready"]
          /\ UNCHANGED <<renderPermits, inFlight, requests, sent, grafanaApplied>>

TakeRenderPermitAlone(c) ==
  /\ gcall[c].step = "permit"
  /\ IF renderPermits = 0
     THEN /\ MetricsFinish(c, "capacity_exhausted")
          /\ gcall' = [gcall EXCEPT ![c].step = "returned", ![c].finished = TRUE,
                          ![c].answer = "capacity_exhausted"]
          /\ UNCHANGED <<grafanaPermits, renderPermits, sent, grafanaApplied>>
     ELSE /\ renderPermits' = renderPermits - 1
          /\ gcall' = [gcall EXCEPT ![c].step = "ready"]
          /\ UNCHANGED <<grafanaPermits, inFlight, requests, sent, grafanaApplied>>

\* render: a call that finds no render permit gives its permit back.
TakeRenderPermit(c) ==
  /\ gcall[c].step = "permit"
  /\ IF renderPermits = 0 THEN Return(c, "capacity_exhausted", "none")
     ELSE /\ renderPermits' = renderPermits - 1
          /\ gcall' = [gcall EXCEPT ![c].step = "ready"]
          /\ UNCHANGED <<grafanaPermits, inFlight, requests, sent, grafanaApplied>>

Sendable(c) == gcall' = [gcall EXCEPT ![c].step = "sent", ![c].http = "open"]

\* run: the request is sent, unless its URL got too long.
GrafanaSend(c) ==
  /\ gcall[c].step = "ready" /\ gcall[c].action \notin Renders
  /\ \/ Return(c, "invalid_arguments", "none")
     \/ /\ Sendable(c)
        /\ sent' = IF gcall[c].action = Silence THEN sent \cup {c} ELSE sent
        /\ UNCHANGED <<grafanaPermits, renderPermits, inFlight, requests, grafanaApplied>>

\* render: likewise, with the controls in the URL.
SendRender(c) ==
  /\ gcall[c].step = "ready" /\ gcall[c].action \in Renders
  /\ \/ Return(c, "invalid_arguments", "none")
     \/ /\ Sendable(c)
        /\ UNCHANGED <<grafanaPermits, renderPermits, inFlight, requests, sent, grafanaApplied>>
-----------------------------------------------------------------------------
\* "5xx" stands for 3xx as well: redirects are not followed.
GrafanaStatuses == {"200", "2xx", "400", "401", "4xx", "5xx"}

GrafanaReceive(c, status) ==
  gcall' = IF gcall[c].step = "sent" THEN [gcall EXCEPT ![c].response = status] ELSE gcall

\* External: a read or a render is answered.
AnswerRead(c) ==
  /\ gcall[c].step = "sent" /\ gcall[c].action # Silence /\ gcall[c].response = "none"
  /\ \E s \in GrafanaStatuses : GrafanaReceive(c, s)
  /\ UNCHANGED <<grafanaPermits, renderPermits, inFlight, requests, sent, grafanaApplied>>

\* External: the silence is created; whoever stands between may still report an error.
Create(c) ==
  /\ c \in sent /\ sent' = sent \ {c} /\ grafanaApplied' = grafanaApplied \cup {c}
  /\ \E s \in {"200", "2xx", "4xx", "5xx"} : GrafanaReceive(c, s)
  /\ UNCHANGED <<grafanaPermits, renderPermits, inFlight, requests>>

\* External: it is not.
GrafanaRefuse(c) ==
  /\ c \in sent /\ sent' = sent \ {c}
  /\ \E s \in {"400", "401", "4xx", "5xx"} : GrafanaReceive(c, s)
  /\ UNCHANGED <<grafanaPermits, renderPermits, inFlight, requests, grafanaApplied>>

GrafanaOperationFailure(c) ==
  IF gcall[c].action = Silence THEN "mutation_outcome_unknown" ELSE "upstream_unavailable"

RejectedEvery4xx(c) ==
  IF gcall[c].action = Silence THEN "mutation_rejected" ELSE "query_rejected"

\* A 4xx other than 401 and 403; of a silence only 400 is taken for a definite refusal.
Rejected(c) ==
  IF gcall[c].action # Silence THEN "query_rejected"
  ELSE IF gcall[c].response = "400" THEN "mutation_rejected"
  ELSE "mutation_outcome_unknown"

GoOn(c) ==
  /\ gcall' = [gcall EXCEPT ![c].step = "body", ![c].response = "none"]
  /\ UNCHANGED <<grafanaPermits, renderPermits, inFlight, requests, sent, grafanaApplied>>

\* run: the status of the response.
ReadStatus(c) ==
  LET s == gcall[c].response IN
  /\ gcall[c].step = "sent" /\ s # "none" /\ gcall[c].action \notin Renders
  /\ IF s \in {"200", "2xx"} THEN GoOn(c)
     ELSE Return(c, CASE s = "401" -> "unauthorized"
                      [] s \in {"400", "4xx"} -> Rejected(c)
                      [] OTHER -> GrafanaOperationFailure(c),
                 "http_error")

\* render: only 200 will do.
ReadRenderStatus(c) ==
  LET s == gcall[c].response IN
  /\ gcall[c].step = "sent" /\ s # "none" /\ gcall[c].action \in Renders
  /\ IF s = "200" THEN GoOn(c)
     ELSE Return(c, CASE s = "401" -> "unauthorized"
                      [] s \in {"400", "4xx"} -> "render_rejected"
                      [] OTHER -> "upstream_unavailable",
                 "http_error")

\* read_json, then the tool's normalisation: too large, broken off, not what it should be,
\* or fine.  It is parsed after the span was called a success.
ReadJson(c) ==
  /\ gcall[c].step = "body" /\ gcall[c].action \notin Renders
  /\ \E body \in {"large", "broken", "invalid", "valid"} :
       Return(c,
         CASE body = "valid" -> "success"
           [] body = "broken" -> GrafanaOperationFailure(c)
           [] OTHER -> IF gcall[c].action = Silence THEN "mutation_outcome_unknown"
                       ELSE "invalid_response",
         CASE body \in {"valid", "invalid"} -> "success"
           [] body = "broken" -> "transport_error"
           [] body = "large" -> "response_error")

\* read_png: its type, size and signature.
ReadPng(c) ==
  /\ gcall[c].step = "body" /\ gcall[c].action \in Renders
  /\ \/ Return(c, "success", "success")
     \/ Return(c, "render_invalid_response", "response_error")

TransportFails(c) ==
  /\ gcall[c].step = "sent"
  /\ Return(c, GrafanaOperationFailure(c), "transport_error")

TimeoutOfHeaders(c) ==
  /\ gcall[c].step = "sent" /\ gcall[c].action \notin Renders
  /\ Return(c, "timeout", SpanDropped(c))

\* The timeout covers the request and its whole response.
Timeout(c) ==
  /\ gcall[c].step \in {"sent", "body"} /\ gcall[c].action \notin Renders
  /\ Return(c, IF gcall[c].action = Silence THEN "mutation_outcome_unknown" ELSE "timeout",
            SpanDropped(c))

RenderTimeout(c) ==
  /\ gcall[c].step \in {"sent", "body"} /\ gcall[c].action \in Renders
  /\ Return(c, "render_timeout", SpanDropped(c))

\* What a call does without Grafana's help.
GrafanaProceed(c) ==
  \/ TakePermit(c) \/ TakeRenderPermit(c) \/ GrafanaSend(c) \/ SendRender(c)
  \/ Timeout(c) \/ RenderTimeout(c) \/ DropGuard(c)

GrafanaNext ==
  \E c \in GrafanaCalls :
    \/ BeginRead(c) \/ BeginRender(c) \/ BeginSilence(c) \/ GrafanaProceed(c)
    \/ ReadStatus(c) \/ ReadRenderStatus(c) \/ ReadJson(c) \/ ReadPng(c)
    \/ TransportFails(c) \/ GrafanaCancelled(c) \/ AnswerRead(c) \/ Create(c) \/ GrafanaRefuse(c)

\* The executor polls every call, and its timeout passes; nothing is asked of Grafana.
GrafanaFairness == \A c \in GrafanaCalls : WF_grafanaVars(GrafanaProceed(c))

GrafanaSpec == GrafanaInit /\ [][GrafanaNext]_grafanaVars /\ GrafanaFairness
-----------------------------------------------------------------------------
\* Whatever mix of answers, timeouts and cancellations there was, a permit is free unless
\* a call that was admitted holds it, and a render that was refused for want of a render
\* permit holds neither (client.rs:413-422, 523-527).
GrafanaPermitsAccounted ==
  /\ grafanaPermits + Cardinality({c \in GrafanaCalls : HasGlobal(c)}) = GrafanaPermits
  /\ renderPermits + Cardinality({c \in GrafanaCalls : HasRender(c)}) = RenderPermits

\* An error other than mutation_outcome_unknown means that the silence was not, and will
\* not be, created, though its request may outlive the call (client.rs:494-601,
\* mcp.rs:544-557).
GrafanaDefiniteErrorNotApplied ==
  \A c \in GrafanaCalls :
    /\ gcall[c].action = Silence /\ gcall[c].step \in {"returned", "done"}
    /\ gcall[c].answer \notin {"success", "mutation_outcome_unknown"}
    => c \notin grafanaApplied \cup sent

\* A client that retries what it was told it may retry never creates a second silence: the
\* first was not created, and will not be (error.rs:20-75).
RetryIsSafe ==
  \A c \in GrafanaCalls :
    gcall[c].action = Silence /\ gcall[c].step = "done" /\ Retryable(gcall[c].answer)
    => c \notin grafanaApplied \cup sent

Answered(c) == gcall[c].step \in {"returned", "done"}

\* The calls of an action that are counted, with one of the outcomes that callers were told.
Counted(a, outcomes) ==
  {c \in GrafanaCalls : gcall[c].action = a /\ gcall[c].finished
                        /\ RequestOutcome(gcall[c].answer) \in outcomes}

\* What a cancelled call is told, and what a silence may also be told that was not.
Unsettled == {"request_cancelled", "mutation_outcome_unknown"}

\* What is on the dashboards adds up: the gauge is the number of calls on their way, and
\* every call that passed validation is counted once, as what its caller was told, or as
\* cancelled (telemetry.rs:43-88).
MetricsAccounted ==
  \A a \in Actions :
    /\ inFlight[a] = Cardinality({c \in GrafanaCalls :
                       gcall[c].action = a /\ gcall[c].step \notin {"idle", "returned", "done"}})
    /\ \A o \in GrafanaOutcomes \ {"cancelled", "mutation_outcome_unknown"} :
         requests[a][o] = Cardinality(Counted(a, {o}))
    /\ requests[a]["cancelled"] + requests[a]["mutation_outcome_unknown"]
         = Cardinality(Counted(a, Unsettled))
    /\ requests[a]["cancelled"]
         <= Cardinality({c \in Counted(a, Unsettled) : gcall[c].step = "done"})

\* The span of a request is always told how it ended, "success" whenever the tool
\* succeeded, and "cancelled" only of a request nobody waited for to the end
\* (http_client.rs:48-83).
SpanTellsTheEnd ==
  \A c \in GrafanaCalls : Answered(c) /\ gcall[c].finished =>
    /\ gcall[c].http # "open"
    /\ gcall[c].answer = "success" => gcall[c].http = "success"
    /\ gcall[c].http = "cancelled" =>
          gcall[c].answer \in {"timeout", "render_timeout", "request_cancelled",
                               "mutation_outcome_unknown"}
    /\ gcall[c].answer \in {"timeout", "render_timeout", "request_cancelled"} =>
          gcall[c].http = "cancelled"

\* Every call ends, whatever Grafana does (client.rs:494-601).
GrafanaCallEnds == \A c \in GrafanaCalls : gcall[c].step # "idle" ~> gcall[c].step = "done"

\* Metrics and spans agree with what callers were told, however the call ended.
TelemetryAccounted == MetricsAccounted /\ SpanTellsTheEnd
=============================================================================
