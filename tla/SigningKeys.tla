------------------------------ MODULE SigningKeys ------------------------------
(***************************************************************************)
(* How server processes that start at the same time agree on the OAuth     *)
(* signing key (src/oauth.rs, initialize and initialize_signing_key).      *)
(* They share a PostgreSQL database.  Each holds an advisory lock in a     *)
(* transaction on one connection of its pool and does the work on other    *)
(* connections, outside that transaction: a key that was stored stays      *)
(* stored when the process dies before the commit.                         *)
(***************************************************************************)
EXTENDS Integers, FiniteSets

CONSTANTS
  Servers,
  PoolSizes,   \* max_connections, 1 to 32 by the configuration
  MaxStarts,   \* bound on the starts of a server
  None

ASSUME PoolSizesAssumption == PoolSizes \subseteq Nat \ {0}
ASSUME StartsAssumption == MaxStarts \in Nat \ {0}
ASSUME NoneAssumption == None \notin Servers

VARIABLES
  lock,     \* external: who holds the advisory lock
  made,     \* external: keys stored so far
  active,   \* external: the keys that are active
  pc, size,
  conns,    \* connections of the pool that are in use
  mine,     \* the key this start has generated
  starts

vars == <<lock, made, active, pc, size, conns, mine, starts>>

Locked == {"inspect", "generate", "activate", "validate", "commit"}
Starting == {"prepare", "begin", "lock"} \cup Locked

Init ==
  /\ lock = None /\ made = 0 /\ active = {}
  /\ pc = [s \in Servers |-> "down"]
  /\ size \in [Servers -> PoolSizes]
  /\ conns = [s \in Servers |-> 0]
  /\ mine = [s \in Servers |-> 0]
  /\ starts = [s \in Servers |-> 0]

Goto(s, p) == pc' = [pc EXCEPT ![s] = p]
-----------------------------------------------------------------------------
Start(s) ==
  /\ pc[s] \in {"down", "failed"} /\ starts[s] < MaxStarts
  /\ starts' = [starts EXCEPT ![s] = @ + 1]
  /\ mine' = [mine EXCEPT ![s] = 0]
  /\ Goto(s, "prepare")
  /\ UNCHANGED <<lock, made, active, size, conns>>

\* The stores, the keyring, OIDC discovery and the policies are in place.
Prepare(s) ==
  /\ pc[s] = "prepare"
  /\ Goto(s, "begin")
  /\ UNCHANGED <<lock, made, active, size, conns, mine, starts>>

\* pool.begin
BeginTransaction(s) ==
  /\ pc[s] = "begin" /\ conns[s] < size[s]
  /\ conns' = [conns EXCEPT ![s] = @ + 1]
  /\ Goto(s, "lock")
  /\ UNCHANGED <<lock, made, active, size, mine, starts>>

LockWithoutWaiting(s) ==
  /\ pc[s] = "lock"
  /\ lock' = s
  /\ Goto(s, "inspect")
  /\ UNCHANGED <<made, active, size, conns, mine, starts>>

\* pg_advisory_xact_lock waits.
Lock(s) ==
  /\ pc[s] = "lock" /\ lock = None
  /\ lock' = s
  /\ Goto(s, "inspect")
  /\ UNCHANGED <<made, active, size, conns, mine, starts>>

SpareAlways(s) == TRUE

\* What the store and the server do takes another connection and gives it back.
Spare(s) == conns[s] < size[s]

InspectOnce(s) ==
  /\ pc[s] = "inspect" /\ Spare(s)
  /\ Goto(s, IF mine[s] = 0 THEN "generate" ELSE "validate")
  /\ UNCHANGED <<lock, made, active, size, conns, mine, starts>>

Inspect(s) ==
  /\ pc[s] = "inspect" /\ Spare(s)
  /\ Goto(s, IF active = {} THEN "generate" ELSE "validate")
  /\ UNCHANGED <<lock, made, active, size, conns, mine, starts>>

\* generate_signing_key_candidate: the key is active at once, or a candidate.
Generate(s) ==
  /\ pc[s] = "generate" /\ Spare(s)
  /\ made' = made + 1
  /\ mine' = [mine EXCEPT ![s] = made + 1]
  /\ \/ active' = active \cup {made + 1} /\ Goto(s, "validate")
     \/ active' = active /\ Goto(s, "activate")
  /\ UNCHANGED <<lock, size, conns, starts>>

Activate(s) ==
  /\ pc[s] = "activate" /\ Spare(s)
  /\ active' = active \cup {mine[s]}
  /\ Goto(s, "validate")
  /\ UNCHANGED <<lock, made, size, conns, mine, starts>>

ValidateNothing(s) ==
  /\ pc[s] \in {"validate", "activate"}
  /\ Goto(s, "commit")
  /\ UNCHANGED <<lock, made, active, size, conns, mine, starts>>

\* validate_signing_key_readiness
Validate(s) ==
  /\ pc[s] = "validate" /\ Spare(s) /\ active # {}
  /\ Goto(s, "commit")
  /\ UNCHANGED <<lock, made, active, size, conns, mine, starts>>

\* The commit ends the transaction, and with it the lock.
Commit(s) ==
  /\ pc[s] = "commit"
  /\ lock' = None
  /\ conns' = [conns EXCEPT ![s] = 0]
  /\ Goto(s, "ready")
  /\ UNCHANGED <<made, active, size, mine, starts>>
-----------------------------------------------------------------------------
EndKeepingConnection(s, p) ==
  /\ lock' = IF lock = s THEN None ELSE lock
  /\ Goto(s, p)
  /\ UNCHANGED <<made, active, size, conns, mine, starts>>

EndKeepingLock(s, p) ==
  /\ conns' = [conns EXCEPT ![s] = 0]
  /\ Goto(s, p)
  /\ UNCHANGED <<lock, made, active, size, mine, starts>>

\* The transaction is dropped, or the connection closed: the lock goes, stored keys stay.
End(s, p) ==
  /\ lock' = IF lock = s THEN None ELSE lock
  /\ conns' = [conns EXCEPT ![s] = 0]
  /\ Goto(s, p)
  /\ UNCHANGED <<made, active, size, mine, starts>>

\* A step fails: a query, discovery, activate_signing_key answering false, a commit.
StepFails(s) == pc[s] \in Starting /\ End(s, "failed")

\* The pool has no connection left; acquire gives up after its timeout.
AcquireTimesOut(s) ==
  /\ pc[s] \in Locked \ {"commit"} /\ ~Spare(s)
  /\ End(s, "failed")

Crash(s) == pc[s] \in Starting \cup {"ready"} /\ End(s, "down")
-----------------------------------------------------------------------------
Step(s) ==
  \/ Prepare(s) \/ BeginTransaction(s) \/ Lock(s) \/ Inspect(s) \/ Generate(s)
  \/ Activate(s) \/ Validate(s) \/ Commit(s) \/ AcquireTimesOut(s)

Next == \E s \in Servers : Start(s) \/ Step(s) \/ StepFails(s) \/ Crash(s)

Spec == Init /\ [][Next]_vars

\* Each start goes on: the database answers, and the acquire timeout of the pool fires.
\* Nothing is assumed of the order in which the lock is granted.
Fairness == \A s \in Servers : WF_vars(Step(s))
FairSpec == Spec /\ Fairness
-----------------------------------------------------------------------------
(* Properties.                                                             *)

\* Every variable keeps its type; a pool never lends more than it has.
TypeOK ==
  /\ lock \in Servers \cup {None}
  /\ made \in Nat /\ active \subseteq 1..made
  /\ pc \in [Servers -> {"down", "failed", "ready"} \cup Starting]
  /\ size \in [Servers -> PoolSizes]
  /\ conns \in [Servers -> {0, 1}]
  /\ mine \in [Servers -> 0..made]
  /\ starts \in [Servers -> 0..MaxStarts]

\* However many servers start, fail, crash and start again, there is never more than one
\* active signing key: tokens signed by one server are verified by the others
\* (oauth.rs:149-190).
OneActiveKey == \A j, k \in active : j = k

\* A server that serves found a key to be active and ready before it committed.
ReadyHasKey == \A s \in Servers : pc[s] = "ready" => active # {}

\* The lock is held through all of the work and never longer: its holder is in the midst of
\* it on a connection of its own.
LockCoversWork ==
  \A s \in Servers :
    /\ (lock = s) <=> (pc[s] \in Locked)
    /\ conns[s] = IF pc[s] \in Locked \cup {"lock"} THEN 1 ELSE 0

\* The configuration accepts a pool of one connection (config.rs:210), but the lock's
\* transaction takes it and the store waits for a second one: no such server ever serves.
OneConnectionNeverReady == \A s \in Servers : size[s] = 1 => pc[s] # "ready"

\* The inductive invariant behind the theorems: whoever is about to make a key active holds
\* the lock and has seen none, and a pool of one connection never gets beyond the first
\* query under the lock.
KeyInv ==
  /\ TypeOK /\ OneActiveKey /\ LockCoversWork
  /\ \A s \in Servers :
       /\ pc[s] \in {"generate", "activate"} => active = {}
       /\ pc[s] = "activate" => mine[s] \in 1..made
       /\ pc[s] \in {"commit", "ready"} => active # {}
       /\ size[s] = 1 => pc[s] \notin {"generate", "activate", "validate", "commit", "ready"}

\* A start comes to an end, with a server that serves or with an error, also behind other
\* servers that hold the lock or die with it, and also when the pool is too small.
StartEnds == \A s \in Servers : pc[s] \in Starting ~> pc[s] \notin Starting
=============================================================================
