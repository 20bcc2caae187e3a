------------------------------ MODULE MCServer ------------------------------
(* The server: servers that start together and agree on a signing key, with    *)
(* pools of one and two connections, each of which may start twice; or one     *)
(* server from its start to its end, with requests that have a reporter or     *)
(* not, and a signal at any point of a request and of a cleanup.  A behaviour  *)
(* is one of either.                                                           *)
EXTENDS SigningKeys, ServiceLifecycle

VARIABLE part
mcVars == <<part, vars, lifeVars>>

\* A server that has ended, for the behaviours in which its life plays no role.
Ended ==
  /\ phase = "exited" /\ shutdown = TRUE /\ cleanup = "stopped"
  /\ profiler = "off" /\ meter = "off" /\ tracer = "off"
  /\ req = [r \in Requests |-> NoRequest]
  /\ activeRequests = 0 /\ completed = 0

MCInit ==
  \/ part = "keys" /\ Init /\ Ended
  \/ part = "life" /\ LifeInit /\ Init /\ size = [s \in Servers |-> 2]

MCNext ==
  /\ UNCHANGED part
  /\ \/ part = "keys" /\ Next /\ UNCHANGED lifeVars
     \/ part = "life" /\ LifeNext /\ UNCHANGED vars

MCSpec == MCInit /\ [][MCNext]_mcVars /\ Fairness /\ LifeFairness
=============================================================================
