---------------------------- MODULE GrafanaResults ----------------------------
(***************************************************************************)
(* What the Grafana tools make of a response that is JSON                  *)
(* (src/integrations/grafana/client.rs, from normalize_alert_rules         *)
(* to normalize_stats).  The entries of a response are read one by one, as *)
(* the loops do.  The lists differ in which entries they select, in which  *)
(* they validate, and in what the limit counts.                            *)
(***************************************************************************)
EXTENDS Integers, SequencesExt, Ascending

CONSTANTS
  GrafanaTools,   \* subset of the tools below
  GrafanaLimits,  \* limits asked for
  LabelMaps,      \* label maps, as sets of entries; "url" is one that names or holds a URL
  MaxMapEntries,  \* 64
  GrafanaMaxEntries,     \* bound on the entries of a list
  MaxLines        \* bound on the streams and lines of a response

ASSUME GrafanaLimitsAssumption == GrafanaLimits \subseteq Nat \ {0} /\ MaxMapEntries \in Nat
ASSUME ToolsAssumption ==
  GrafanaTools \subseteq {"alert_rules", "recording_rules", "alert_instances", "silences",
                          "dashboards", "traces", "series", "streams"}

VARIABLES
  tool, limit,
  filter,      \* state a list of silences is restricted to, or "any"
  gsource,     \* the entries read so far
  selected,    \* indices of the entries kept so far
  lines,       \* streams: the lines kept so far, as <<entry, line>>
  remaining,   \* streams: how many more may be kept
  grafanaVerdict,     \* "reading", "ok" or "invalid_response"
  result       \* what is returned: entry and its labels

grafanaVars == <<tool, limit, filter, gsource, selected, lines, remaining, grafanaVerdict, result>>

Rules == {"alert_rules", "recording_rules"}

GrafanaInit ==
  /\ tool \in GrafanaTools /\ limit \in GrafanaLimits
  /\ filter \in IF tool = "silences" THEN {"any", "active"} ELSE {"any"}
  /\ gsource = <<>> /\ selected = <<>> /\ lines = <<>> /\ result = <<>>
  /\ remaining = limit
  /\ grafanaVerdict = "reading"

\* The entries a response may hold.  `class` is the kind of a rule, from its "record", or
\* the state of a silence; `fields` says whether everything else is as it should be.
GrafanaClasses ==
  CASE tool \in Rules -> {"alert", "recording", "other"}
    [] tool = "silences" -> {"active", "expired", "other"}
    [] OTHER -> {"entry"}

HasLabels == tool \in Rules \cup {"alert_instances"}

GrafanaEntries == [class : GrafanaClasses, labels : IF HasLabels THEN LabelMaps ELSE {{}},
                   fields : BOOLEAN, lines : {<<>>}]
-----------------------------------------------------------------------------
SafeStringMapUnfiltered(m) == m

\* safe_string_map: entries that look like a URL are left out, after everything was checked.
SafeStringMap(m) == m \ {"url", "missing"}
ValidMap(m) == Cardinality(m) <= MaxMapEntries /\ "missing" \notin m

\* recording_rule_labels: here the labels may be missing.
ValidLabels(e) ==
  ValidMap(e.labels) \/ (tool = "recording_rules" /\ e.labels = {"missing"})

Wanted(e) ==
  CASE tool = "alert_rules" -> e.class = "alert"
    [] tool = "recording_rules" -> e.class = "recording"
    [] tool = "silences" -> filter \in {"any", e.class}
    [] OTHER -> TRUE

Normalizes(e) == e.fields /\ ValidLabels(e) /\ e.class # "other"

Fail == grafanaVerdict' = "invalid_response" /\ UNCHANGED selected

KeepLimited(i) ==
  selected' = IF Len(selected) < limit THEN Append(selected, i) ELSE selected

\* select_rules: every rule must have a kind; whether it is well formed is only asked of
\* those that were selected.
SelectRule(e, i) ==
  IF e.class = "other" THEN Fail
  ELSE /\ IF Wanted(e) THEN KeepLimited(i) ELSE UNCHANGED selected
       /\ UNCHANGED grafanaVerdict

NormalizeAlertInstance(e, i) ==
  IF ~Normalizes(e) THEN Fail
  ELSE /\ selected' = (IF i <= limit THEN Append(selected, i) ELSE selected)
       /\ UNCHANGED grafanaVerdict

NormalizeSilenceLazily(e, i) ==
  IF ~Wanted(e) THEN UNCHANGED <<selected, grafanaVerdict>>
  ELSE IF ~Normalizes(e) THEN Fail
  ELSE KeepLimited(i) /\ UNCHANGED grafanaVerdict

NormalizeSilenceTooEager(e, i) ==
  IF ~Normalizes(e) THEN Fail
  ELSE /\ selected' = IF Wanted(e) /\ i <= limit THEN Append(selected, i) ELSE selected
       /\ UNCHANGED grafanaVerdict

\* normalize_silences: filter first, then the limit; but all of them are checked.
NormalizeSilence(e, i) ==
  IF ~Normalizes(e) THEN Fail
  ELSE /\ IF Wanted(e) THEN KeepLimited(i) ELSE UNCHANGED selected
       /\ UNCHANGED grafanaVerdict

\* normalize_dashboards cuts at the end.
NormalizeDashboard(e, i) ==
  IF ~Normalizes(e) THEN Fail
  ELSE selected' = Append(selected, i) /\ UNCHANGED grafanaVerdict

\* normalize_traceql copies what there is, up to the limit.
TakeTrace(i) == KeepLimited(i) /\ UNCHANGED grafanaVerdict

\* normalize_series, normalize_vector: nothing is left out.
NormalizeSeries(e, i) == NormalizeDashboard(e, i)

\* One entry of a list.
ReadEntry ==
  /\ grafanaVerdict = "reading" /\ tool # "streams" /\ Len(gsource) < GrafanaMaxEntries
  /\ \E e \in GrafanaEntries :
       LET i == Len(gsource) + 1 IN
       /\ gsource' = Append(gsource, e)
       /\ CASE tool \in Rules -> SelectRule(e, i)
            [] tool = "alert_instances" -> NormalizeAlertInstance(e, i)
            [] tool = "silences" -> NormalizeSilence(e, i)
            [] tool = "dashboards" -> NormalizeDashboard(e, i)
            [] tool = "traces" -> TakeTrace(i)
            [] tool = "series" -> NormalizeSeries(e, i)
  /\ UNCHANGED <<tool, limit, filter, lines, remaining, result>>
-----------------------------------------------------------------------------
GrafanaSize == Len(gsource) + FoldSeq(LAMBDA e, n : Len(e.lines) + n, 0, gsource)

\* normalize_streams: the next stream.
ReadStream ==
  /\ grafanaVerdict = "reading" /\ tool = "streams" /\ GrafanaSize < MaxLines
  /\ \E e \in GrafanaEntries :
       /\ gsource' = Append(gsource, e)
       /\ IF e.fields THEN UNCHANGED grafanaVerdict ELSE grafanaVerdict' = "invalid_response"
  /\ UNCHANGED <<tool, limit, filter, selected, lines, remaining, result>>

KeepLinePerStream(ok) ==
  IF ~ok THEN grafanaVerdict' = "invalid_response" /\ UNCHANGED <<lines, remaining>>
  ELSE /\ lines' = IF Len(gsource[Len(gsource)].lines) < limit
                   THEN Append(lines, <<Len(gsource), Len(gsource[Len(gsource)].lines) + 1>>)
                   ELSE lines
       /\ UNCHANGED <<grafanaVerdict, remaining>>

\* The limit is shared by all streams; a line past it is still checked.
KeepLine(ok) ==
  IF ~ok THEN grafanaVerdict' = "invalid_response" /\ UNCHANGED <<lines, remaining>>
  ELSE /\ IF remaining > 0
          THEN /\ lines' = Append(lines, <<Len(gsource), Len(gsource[Len(gsource)].lines) + 1>>)
               /\ remaining' = remaining - 1
          ELSE UNCHANGED <<lines, remaining>>
       /\ UNCHANGED grafanaVerdict

\* The next line of the stream that is being read.
ReadLine ==
  /\ grafanaVerdict = "reading" /\ tool = "streams" /\ gsource # <<>> /\ GrafanaSize < MaxLines
  /\ \E ok \in BOOLEAN :
       /\ gsource' = [gsource EXCEPT ![Len(gsource)].lines = Append(@, ok)]
       /\ KeepLine(ok)
  /\ UNCHANGED <<tool, limit, filter, selected, result>>
-----------------------------------------------------------------------------
Truncated(s, n) == SubSeq(s, 1, IF n < Len(s) THEN n ELSE Len(s))
Returned(i) == [at |-> i, labels |-> SafeStringMap(gsource[i].labels)]

StreamsKept == InOrder({i \in 1..Len(gsource) : \E k \in 1..Len(lines) : lines[k][1] = i})

\* The response has been read: what was selected is normalised, and returned.  A stream of
\* which no line was kept is left out.
GrafanaEnd ==
  /\ grafanaVerdict = "reading"
  /\ IF tool \in Rules /\ \E i \in Range(selected) : ~Normalizes(gsource[i])
     THEN grafanaVerdict' = "invalid_response" /\ UNCHANGED result
     ELSE /\ grafanaVerdict' = "ok"
          /\ result' = LET kept == IF tool = "streams" THEN StreamsKept
                                   ELSE IF tool = "dashboards"
                                        THEN Truncated(selected, limit) ELSE selected
                       IN  [k \in 1..Len(kept) |-> Returned(kept[k])]
  /\ UNCHANGED <<tool, limit, filter, gsource, selected, lines, remaining>>

GrafanaNext == ReadEntry \/ ReadStream \/ ReadLine \/ GrafanaEnd

GrafanaSpec == GrafanaInit /\ [][GrafanaNext]_grafanaVars
-----------------------------------------------------------------------------
GrafanaIndices == [i \in 1..Len(gsource) |-> i]

\* A list returns the first entries it was asked for, as many as the limit allows, in
\* Grafana's order: kinds and states are sorted out before the limit counts
\* (client.rs:817-924, 1071-1103, 1321-1336).
FirstWantedReturned ==
  grafanaVerdict = "ok" /\ tool # "streams" =>
           LET wanted == InOrder({i \in 1..Len(gsource) : Wanted(gsource[i])})
           IN  [k \in 1..Len(result) |-> result[k].at]
                 = IF tool = "series" THEN GrafanaIndices ELSE Truncated(wanted, limit)

\* The entries a refusal may be about: of rules, one without a kind, or one of those selected.
Suspects ==
  CASE tool \in Rules ->
         {i \in 1..Len(gsource) : gsource[i].class = "other"}
           \cup (IF grafanaVerdict = "ok" THEN {result[k].at : k \in 1..Len(result)}
                 ELSE Range(selected))
    [] tool = "traces" -> {}
    [] OTHER -> 1..Len(gsource)

BadLine(e) == \E k \in 1..Len(e.lines) : ~e.lines[k]

\* One bad entry spoils the response, also if it would not have been returned: of rules,
\* one without a kind, or a malformed one among those selected; of traces, none
\* (client.rs:817-924; docs/grafana-query/spec/list-silences.md).
MalformedSpoils ==
  grafanaVerdict # "reading" =>
    (grafanaVerdict = "invalid_response"
       <=> \E i \in Suspects : ~Normalizes(gsource[i]) \/ BadLine(gsource[i]))

\* No label or annotation that names or holds a URL is returned, and nothing else is lost
\* (client.rs:1022-1069).
UrlsLeftOut ==
  grafanaVerdict = "ok" =>
           \A k \in 1..Len(result) :
             result[k].labels = {l \in gsource[result[k].at].labels : l \notin {"url", "missing"}}

\* The lines of the response, and their order.
Lines == UNION {{<<i, k>> : k \in 1..Len(gsource[i].lines)} : i \in 1..Len(gsource)}
Before(p, q) == p[1] < q[1] \/ (p[1] = q[1] /\ p[2] < q[2])

\* Log lines are counted over all streams: the first ones of the response are kept, in
\* order, none is left out before the limit, and a stream is returned only with a line
\* (client.rs:1382-1406).
LinesBounded ==
  grafanaVerdict = "ok" /\ tool = "streams" =>
           /\ Range(lines) \subseteq Lines /\ Len(lines) <= limit
           /\ \A j, k \in 1..Len(lines) : j < k => Before(lines[j], lines[k])
           /\ \A l \in Lines \ Range(lines) :
                Len(lines) = limit /\ \A k \in 1..Len(lines) : Before(lines[k], l)
           /\ {result[k].at : k \in 1..Len(result)} = {lines[k][1] : k \in 1..Len(lines)}

\* A list has the entries, labels and lines it should have, and is refused when it should be.
GrafanaListsExact == FirstWantedReturned /\ MalformedSpoils /\ UrlsLeftOut /\ LinesBounded
=============================================================================
