--------------------------- MODULE GrafanaDashboard ---------------------------
(***************************************************************************)
(* dashboard.get: the nested panels of a dashboard are flattened           *)
(* (src/integrations/grafana/client.rs, normalize_dashboard and            *)
(* flatten_panels).  The recursion is a stack of the panels still to be    *)
(* visited at each depth.                                                  *)
(***************************************************************************)
EXTENDS Integers, SequencesExt, Ascending

CONSTANTS
  Panels,        \* the most panels a dashboard may have here
  MaxPanels,     \* 500
  MaxDepth,      \* 64
  MaxVariables,  \* 100
  Variables      \* numbers of variables a dashboard may have here

ASSUME BoundsAssumption ==
  {Panels, MaxPanels, MaxDepth, MaxVariables} \subseteq Nat /\ Variables \subseteq Nat

VARIABLES
  count,      \* panels of the dashboard
  parent,     \* the panel (or 0) in which a panel is nested; panels are numbered so that
              \* siblings are in order
  rows,       \* panels that have a list of panels, if only an empty one
  malformed,  \* panels without a valid id, title or type
  variables,  \* number of variables
  stack,      \* per depth, the panels still to come
  output,     \* panels emitted
  dashboardVerdict

dashboardVars == <<count, parent, rows, malformed, variables, stack, output, dashboardVerdict>>

Children(p) == InOrder({i \in 1..count : parent[i] = p})

\* The response is an object of the expected shape, up to its panels.
DashboardInit ==
  /\ count \in 0..Panels
  /\ parent \in {f \in [1..count -> 0..Panels] : \A p \in 1..count : f[p] < p}
  /\ \E leaf \in 0..count : rows = ({parent[p] : p \in 1..count} \cup {leaf}) \ {0}
  /\ \E bad \in 0..count : malformed = {bad} \ {0}
  /\ variables \in Variables
  /\ stack = <<>> /\ output = <<>> /\ dashboardVerdict = "reading"

\* normalize_dashboard, up to the panels.
ReadVariables ==
  /\ dashboardVerdict = "reading"
  /\ IF variables > MaxVariables
     THEN dashboardVerdict' = "invalid_response" /\ UNCHANGED stack
     ELSE dashboardVerdict' = "flattening" /\ stack' = <<Children(0)>>
  /\ UNCHANGED <<count, parent, rows, malformed, variables, output>>

Reject == dashboardVerdict' = "invalid_response" /\ UNCHANGED <<stack, output>>

FullTooLate == Len(output) > MaxPanels

\* The check before a panel is visited.
Full == Len(output) >= MaxPanels

DescendLater(rest, p) == <<rest \o Children(p)>>

\* The panels within a panel come before its next sibling; they make a level of their own
\* also if there are none.
Descend(rest, p) == IF p \in rows THEN <<rest, Children(p)>> ELSE <<rest>>

\* The next panel at the deepest level.
Visit ==
  /\ dashboardVerdict = "flattening" /\ stack # <<>> /\ Last(stack) # <<>>
  /\ LET p == Head(Last(stack))
         below == Descend(Tail(Last(stack)), p)
     IN  IF Full \/ p \in malformed THEN Reject
         ELSE /\ output' = Append(output, p)
              /\ stack' = Front(stack) \o below
              /\ dashboardVerdict' = IF Len(stack') > MaxDepth + 1
                                     THEN "invalid_response" ELSE dashboardVerdict
  /\ UNCHANGED <<count, parent, rows, malformed, variables>>

\* The panels at this depth have all been visited.
Ascend ==
  /\ dashboardVerdict = "flattening" /\ stack # <<>> /\ Last(stack) = <<>>
  /\ stack' = Front(stack)
  /\ UNCHANGED <<count, parent, rows, malformed, variables, output, dashboardVerdict>>

\* All the panels: the rest of the dashboard is checked, and the size of what is returned.
Complete ==
  /\ dashboardVerdict = "flattening" /\ stack = <<>>
  /\ dashboardVerdict' \in {"ok", "oversized"}
  /\ UNCHANGED <<count, parent, rows, malformed, variables, stack, output>>

DashboardNext == ReadVariables \/ Visit \/ Ascend \/ Complete

DashboardSpec == DashboardInit /\ [][DashboardNext]_dashboardVars
-----------------------------------------------------------------------------
Ancestor[p \in 0..Panels] ==
  IF p = 0 \/ p > count THEN {} ELSE {parent[p]} \cup Ancestor[parent[p]]

Position(p) == CHOOSE k \in 1..Len(output) : output[k] = p

\* The inventory is whole and in the order in which the dashboard shows its panels: every
\* panel once, a row before its panels, its panels before the next row (client.rs:1183-1217).
PanelsInOrder ==
  dashboardVerdict = "ok" =>
             /\ Len(output) = count /\ Range(output) = 1..count
             /\ \A p \in 1..count, q \in 1..count :
                  /\ p \in Ancestor[q] => Position(p) < Position(q)
                  /\ parent[p] = parent[q] /\ p < q =>
                       \A r \in 1..count : r = p \/ p \in Ancestor[r] => Position(r) < Position(q)

\* Nothing is returned of a dashboard that is malformed or beyond a limit anywhere, and no
\* other is refused for it: there are so many panels, variables, and lists of panels within
\* each other (docs/grafana-query/spec/get-dashboard.md).
LimitsExact ==
  LET within == /\ count <= MaxPanels /\ malformed = {} /\ variables <= MaxVariables
                /\ \A p \in rows : Cardinality(Ancestor[p]) <= MaxDepth
  IN  /\ dashboardVerdict \in {"ok", "oversized"} => within
      /\ dashboardVerdict = "invalid_response" => ~within

\* A dashboard's inventory is whole and in order, or refused for a limit that it breaks.
InventoryExact == PanelsInOrder /\ LimitsExact
=============================================================================
