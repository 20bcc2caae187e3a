---------------------------- MODULE GrafanaInputs ----------------------------
(***************************************************************************)
(* Validation of the time ranges and of the step that the Grafana tools    *)
(* are called with (src/integrations/grafana/actions).  A step or a        *)
(* relative range is read part by part in words of limited size, an        *)
(* absolute range is checked in nanoseconds and sent in the unit its       *)
(* datasource wants.  Texts are left out, and so is what is checked of     *)
(* them alone: emptiness, length, alphabet.                                *)
(***************************************************************************)
EXTENDS Integers, SequencesExt

CONSTANTS
  InputTools,   \* subset of {"logql", "promql", "traceql", "profiles", "render"}
  Times,        \* instants, in ticks (nanoseconds)
  Amounts,      \* numbers that may stand before a unit
  MaxWord,      \* 2^64 - 1
  Units,        \* units of a Prometheus duration, shortest first
  UnitTicks,    \* ticks of each unit
  Tick,         \* ticks of the unit a tool's range is sent in
  MaxRange,     \* per tool, the longest range accepted, in ticks
  MaxPoints,    \* 11_000
  MaxParts      \* bound on the parts of a step

ASSUME InputToolsAssumption ==
  InputTools \subseteq {"logql", "promql", "traceql", "profiles", "render"}
ASSUME WordAssumption ==
  MaxWord \in Nat /\ MaxPoints \in Nat /\ Amounts \subseteq Nat /\ Times \subseteq Nat
ASSUME UnitsAssumption ==
  /\ Len(Units) \in Nat
  /\ \A i \in 1..Len(Units) : UnitTicks[Units[i]] \in Nat \ {0}
  /\ \A i, j \in 1..Len(Units) : i < j => UnitTicks[Units[i]] < UnitTicks[Units[j]]
  /\ \A t \in InputTools :
       Tick[t] \in Nat \ {0} /\ MaxRange[t] \in Nat /\ MaxRange[t] % Tick[t] = 0

VARIABLES
  inputTool,
  given,     \* which of the optional fields are there
  start, end,
  parts,     \* of the step or the relative range: amounts and units read so far
  inputTotal,     \* their sum
  rank,      \* rank of the last unit
  query      \* what came of it

inputVars == <<inputTool, given, start, end, parts, inputTotal, rank, query>>

Pending == [verdict |-> "pending", mode |-> "none", start |-> 0, end |-> 0, step |-> 0]
Invalid == [Pending EXCEPT !.verdict = "invalid_arguments"]

Fields ==
  CASE inputTool = "logql" -> {"start", "end", "time", "direction"}
    [] inputTool = "promql" -> {"start", "end", "step", "time"}
    [] inputTool = "traceql" -> {"start", "end"}
    [] inputTool = "profiles" -> {}
    [] inputTool = "render" -> {"start", "end", "relative"}

InputInit ==
  /\ inputTool \in InputTools /\ given \in SUBSET Fields
  /\ start \in Times /\ end \in Times
  /\ parts = <<>> /\ inputTotal = 0 /\ rank = Len(Units) + 1
  /\ query = Pending
-----------------------------------------------------------------------------
Rank(u) == CHOOSE i \in 1..Len(Units) : Units[i] = u

\* prometheus_duration_nanos: units strictly decrease, and neither the product nor the sum
\* may overflow.
AddPart(amount, u) ==
  LET product == amount * UnitTicks[u] IN
  IF Rank(u) >= rank \/ product > MaxWord \/ inputTotal + product > MaxWord
  THEN query' = Invalid /\ UNCHANGED inputTotal
  ELSE inputTotal' = inputTotal + product /\ UNCHANGED query

\* One part of a step.  What is not an amount and a unit ends it.
ReadStepPart ==
  /\ inputTool = "promql" /\ "step" \in given /\ query = Pending /\ Len(parts) < MaxParts
  /\ \/ \E amount \in Amounts, i \in 1..Len(Units) :
          LET u == Units[i] IN
          /\ AddPart(amount, u)
          /\ parts' = Append(parts, <<amount, u>>)
          /\ rank' = i
     \/ query' = Invalid /\ UNCHANGED <<parts, inputTotal, rank>>
  /\ UNCHANGED <<inputTool, given, start, end>>

RelativeTicksWrapping(amount, u) == (amount * UnitTicks[u]) % (MaxWord + 1)

\* checked_mul, where an overflow is as good as nothing.
RelativeTicks(amount, u) ==
  IF amount * UnitTicks[u] > MaxWord THEN 0 ELSE amount * UnitTicks[u]

\* validate_range of a render: "now-" and one part, up to now.
ReadRelative ==
  /\ inputTool = "render" /\ "relative" \in given /\ query = Pending
  /\ \E amount \in Amounts, i \in 2..Len(Units) :
       LET ticks == RelativeTicks(amount, Units[i]) IN
       /\ parts' = <<<<amount, Units[i]>>>>
       /\ query' = IF ticks \in 1..MaxRange[inputTool]
                   THEN [Pending EXCEPT !.verdict = "valid", !.mode = "relative"]
                   ELSE Invalid
  /\ UNCHANGED <<inputTool, given, start, end, inputTotal, rank>>
-----------------------------------------------------------------------------
\* valid_range
ValidRange == end >= start /\ end - start <= MaxRange[inputTool]

PointsWithoutLast(range, step) == range \div step

\* How many points a range query is taken to return.
Points(range, step) == range \div step + 1

\* timestamp, timestamp_millis: rounded down to the unit in which it is sent.
Sent(t) == t \div Tick[inputTool]

RangeQuery ==
  [verdict |-> "valid", mode |-> "range", start |-> Sent(start), end |-> Sent(end),
   step |-> inputTotal]

InstantQuery == [Pending EXCEPT !.verdict = "valid", !.mode = "instant"]

ValidateLogql ==
  CASE {"start", "end"} \subseteq given ->
         IF "time" \in given \/ ~ValidRange THEN Invalid ELSE RangeQuery
    [] given \cap {"start", "end"} = {} -> IF "direction" \in given THEN Invalid ELSE InstantQuery
    [] OTHER -> Invalid

ValidatePromql ==
  CASE {"start", "end", "step"} \subseteq given ->
         IF inputTotal = 0 \/ ~ValidRange \/ "time" \in given THEN Invalid
         ELSE IF Points(end - start, inputTotal) > MaxPoints THEN Invalid
         ELSE RangeQuery
    [] given \cap {"start", "end", "step"} = {} -> InstantQuery
    [] OTHER -> Invalid

ValidateTraceql ==
  CASE given = {"start", "end"} -> IF ValidRange THEN RangeQuery ELSE Invalid
    [] given = {} -> InstantQuery
    [] OTHER -> Invalid

ValidateProfiles == IF ValidRange THEN RangeQuery ELSE Invalid

\* Without a range, the last six hours.
ValidateRender ==
  CASE given = {} -> [Pending EXCEPT !.verdict = "valid", !.mode = "default"]
    [] given = {"start", "end"} -> IF ValidRange THEN RangeQuery ELSE Invalid
    [] OTHER -> Invalid

Validate ==
  /\ query = Pending /\ ~(inputTool = "render" /\ "relative" \in given)
  /\ query' = CASE inputTool = "logql" -> ValidateLogql
                [] inputTool = "promql" -> ValidatePromql
                [] inputTool = "traceql" -> ValidateTraceql
                [] inputTool = "profiles" -> ValidateProfiles
                [] inputTool = "render" -> ValidateRender
  /\ UNCHANGED <<inputTool, given, start, end, parts, inputTotal, rank>>

InputNext == ReadStepPart \/ ReadRelative \/ Validate

InputSpec == InputInit /\ [][InputNext]_inputVars
-----------------------------------------------------------------------------
\* What the parts say, in numbers that have no bound.
Meant == SumFunction([i \in 1..Len(parts) |-> parts[i][1] * UnitTicks[parts[i][2]]])

\* A range query that was accepted returns no more points than the limit: the instants
\* from start to end, both included, at the step its text means (promql.rs:42-52).
PointsBounded ==
  query.verdict = "valid" /\ inputTool = "promql" /\ query.mode = "range" =>
    /\ Meant > 0
    /\ Cardinality({k \in 0..(end - start) : start + k * Meant <= end}) <= MaxPoints

\* However it was given, a range that was accepted is one as it is sent: it does not end
\* before it starts, and is not longer than the tool allows, neither for an overflow nor
\* for the rounding of its ends (actions/mod.rs:137-145, render.rs:227-280).
SpanBounded ==
  query.verdict = "valid" =>
    /\ query.mode = "relative" => Meant \in 1..MaxRange[inputTool]
    /\ query.mode = "range" =>
         /\ query.start <= query.end
         /\ (query.end - query.start) * Tick[inputTool] <= MaxRange[inputTool]

\* No query that was accepted is larger than the tool allows, in points or in its range.
QueriesBounded == PointsBounded /\ SpanBounded
=============================================================================
