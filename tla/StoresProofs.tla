------------------------------ MODULE StoresProofs ------------------------------
(***************************************************************************)
(* The two stores that overlapping writers share, for any number of        *)
(* writers and of what they write.                                         *)
(*                                                                         *)
(* InventoryInv, for the machine inventory, says of a request what its     *)
(* statement and its answer can be where it is, and of a new machine that  *)
(* nobody else uses its UUID.  CacheInv, for the token cache, says where   *)
(* every token that is still valid is, and what a run knows of its own.    *)
(***************************************************************************)
EXTENDS MCStores, TLAPS


\* What is settled of a request at each point: the statement of a request that waits, or
\* that was left behind, passed the validation and has not run; an answer that was given
\* before the statement ran is one of the two uncertain ones.
RequestInv(r) ==
  /\ state[r] # "idle" => op[r] \in Op
  /\ state[r] \in {"sent", "executed", "orphan"} => Validates(op[r])
  /\ state[r] \in {"idle", "sent", "orphan"} => effect[r] = "none"
  /\ state[r] \in {"idle", "sent", "executed"} => reply[r] = "none"
  /\ state[r] = "orphan" => reply[r] \in {"inventory_unavailable", "mutation_outcome_unknown"}

Creates(r) == op[r] \in Op /\ op[r].kind = "create"

\* A UUID belongs to the create that drew it, and there is no row of that id before it ran.
UuidInv ==
  /\ \A i \in Ids : rows[i] # None => i \in used
  /\ \A r \in Requests : Creates(r) => op[r].id \in used
  /\ \A r, s \in Requests : Creates(r) /\ Creates(s) /\ op[r].id = op[s].id => r = s
  /\ \A r \in Requests : Creates(r) /\ state[r] \in {"sent", "orphan"} => rows[op[r].id] = None

InventoryInv ==
  /\ TypeOK /\ StoredRowsValid /\ DefiniteReply /\ UuidInv
  /\ \A r \in Requests : RequestInv(r)

-----------------------------------------------------------------------------
(* The operators of the model.                                             *)

\* The fields of an operation, by its kind.
LEMMA OpFields ==
  ASSUME NEW o \in Op
  PROVE  /\ o.id \in Ids
         /\ o.kind \in {"create", "update", "replace", "clear", "delete"}
         /\ o.kind \in {"create", "update"} => o.name \in Names /\ o.host \in Hosts
         /\ o.kind = "create" => o.pin \in Pins \cup {NoPin}
         /\ o.kind = "replace" => o.pin \in Pins
BY DEF Op

\* A statement of a kind other than create succeeds only on a row that is there.
LEMMA VerdictValues ==
  ASSUME NEW o \in Op
  PROVE  /\ Verdict(o) \in {"ok", "machine_not_found", "machine_conflict"}
         /\ Verdict(o) = "ok" /\ o.kind # "create" => rows[o.id] # None
BY DEF Verdict

\* A successful statement leaves a row of the schema, or none.
LEMMA NewRowType ==
  ASSUME TypeOK, NEW o \in Op, Verdict(o) = "ok"
  PROVE  NewRow(o) \in Row \cup {None}
<1>1. CASE o.kind = "create"
  BY <1>1, OpFields DEF NewRow, Row
<1>2. CASE o.kind # "create"
  <2>1. rows[o.id] \in Row
    BY <1>2, VerdictValues, OpFields DEF TypeOK
  <2> QED
    BY <1>2, <2>1, OpFields DEF NewRow, Row
<1> QED
  BY <1>1, <1>2

\* ... and a valid one, if the operation passed the validation and the row before was valid.
LEMMA NewRowValid ==
  ASSUME TypeOK, StoredRowsValid, NEW o \in Op, Verdict(o) = "ok", Validates(o),
         NewRow(o) # None
  PROVE  NewRow(o).host \in ValidHosts /\ NewRow(o).pin \in ValidPins \cup {NoPin}
<1>1. CASE o.kind = "create"
  BY <1>1 DEF NewRow, Validates
<1>2. CASE o.kind # "create"
  <2>1. /\ rows[o.id] \in Row
        /\ rows[o.id].host \in ValidHosts /\ rows[o.id].pin \in ValidPins \cup {NoPin}
    BY <1>2, VerdictValues, OpFields DEF TypeOK, StoredRowsValid
  <2> QED
    BY <1>2, <2>1, OpFields DEF NewRow, Validates, Row
<1> QED
  BY <1>1, <1>2

\* Only host-key.clear and host-key.replace give a row that stays another key.
LEMMA NewRowKeepsPin ==
  ASSUME TypeOK, NEW o \in Op, Verdict(o) = "ok", rows[o.id] # None, NewRow(o) # None,
         NewRow(o).pin # rows[o.id].pin, o.kind # "create"
  PROVE  o.kind \in {"clear", "replace"}
<1>1. rows[o.id] \in Row
  BY OpFields DEF TypeOK
<1>2. o.kind = "update" => NewRow(o).pin = rows[o.id].pin
  BY <1>1 DEF NewRow, Row
<1>3. o.kind = "delete" => NewRow(o) = None
  BY DEF NewRow
<1> QED
  BY <1>2, <1>3, OpFields

-----------------------------------------------------------------------------
(* InventoryInv is inductive.                                              *)

\* It holds of an empty table.
LEMMA InventoryInit == Init => InventoryInv
<1> SUFFICES ASSUME Init PROVE InventoryInv
  OBVIOUS
<1>1. TypeOK
  BY DEF Init, TypeOK, Replies
<1>2. StoredRowsValid /\ DefiniteReply
  BY DEF Init, StoredRowsValid, DefiniteReply
<1>3. UuidInv
  BY AbsenceAssumption DEF Init, UuidInv, Creates
<1>4. ASSUME NEW r \in Requests PROVE RequestInv(r)
  BY DEF Init, RequestInv
<1> QED
  BY <1>1, <1>2, <1>3, <1>4 DEF InventoryInv

\* Submit: the validation decides whether the statement is sent.
LEMMA SubmitInv ==
  ASSUME InventoryInv, NEW r \in Requests, NEW o \in Op, Submit(r, o)
  PROVE  InventoryInv'
<1> USE DEF InventoryInv
<1>1. TypeOK'
  BY OpFields DEF Submit, TypeOK, Replies
<1>2. StoredRowsValid'
  BY DEF Submit, StoredRowsValid
<1>3. DefiniteReply'
  BY DEF Submit, TypeOK, DefiniteReply, RequestInv
<1>4. UuidInv'
  <2>1. op'[r] = o /\ \A s \in Requests \ {r} : op'[s] = op[s]
    BY DEF Submit, TypeOK
  <2>2. \A i \in Ids : rows'[i] # None => i \in used'
    BY DEF Submit, UuidInv
  <2>3. \A s \in Requests : Creates(s)' => op'[s].id \in used'
    BY <2>1, OpFields DEF Submit, UuidInv, Creates
  <2>4. ASSUME NEW s \in Requests \ {r}, Creates(s)', Creates(r)' PROVE op'[r].id # op'[s].id
    BY <2>1, <2>4 DEF Submit, UuidInv, Creates
  <2>5. \A s, t \in Requests : Creates(s)' /\ Creates(t)' /\ op'[s].id = op'[t].id => s = t
    BY <2>1, <2>4 DEF UuidInv, Creates
  <2>6. ASSUME NEW s \in Requests, Creates(s)', state'[s] \in {"sent", "orphan"}
        PROVE  rows'[op'[s].id] = None
    <3>1. CASE s = r
      BY <2>1, <2>6, <3>1, OpFields DEF Submit, UuidInv, Creates
    <3>2. CASE s # r
      BY <2>1, <2>6, <3>2 DEF Submit, UuidInv, Creates, TypeOK
    <3> QED
      BY <3>1, <3>2
  <2> QED
    BY <2>2, <2>3, <2>5, <2>6 DEF UuidInv
<1>5. ASSUME NEW s \in Requests PROVE RequestInv(s)'
  BY DEF Submit, TypeOK, RequestInv, Validates
<1> QED
  BY <1>1, <1>2, <1>3, <1>4, <1>5

\* Execute: the statement runs, for a request that waits or for one that was left behind.
LEMMA ExecuteInv ==
  ASSUME InventoryInv, NEW r \in Requests, Execute(r)
  PROVE  InventoryInv'
<1> USE DEF InventoryInv
<1>1. op[r] \in Op /\ Validates(op[r])
  BY DEF Execute, RequestInv
<1>2. TypeOK'
  <2>1. rows' \in [Ids -> Row \cup {None}]
    BY <1>1, NewRowType DEF Execute, TypeOK
  <2> QED
    BY <1>1, <2>1, VerdictValues DEF Execute, TypeOK
<1>3. StoredRowsValid'
  <2> SUFFICES ASSUME NEW i \in Ids, rows'[i] # None
               PROVE  rows'[i].host \in ValidHosts /\ rows'[i].pin \in ValidPins \cup {NoPin}
    BY DEF StoredRowsValid
  <2>1. CASE Verdict(op[r]) = "ok" /\ i = op[r].id
    BY <1>1, <2>1, NewRowValid DEF Execute, TypeOK
  <2>2. CASE ~(Verdict(op[r]) = "ok" /\ i = op[r].id)
    BY <2>2 DEF Execute, TypeOK, StoredRowsValid
  <2> QED
    BY <2>1, <2>2
<1>4. DefiniteReply'
  BY DEF Execute, TypeOK, DefiniteReply, RequestInv
<1>5. UuidInv'
  <2>1. \A i \in Ids : rows'[i] # None => rows[i] # None \/ (Creates(r) /\ op[r].id = i)
    BY <1>1, VerdictValues DEF Execute, TypeOK, Creates
  <2>2. \A i \in Ids : rows'[i] # None => i \in used'
    BY <2>1 DEF Execute, UuidInv
  <2>3. \A s \in Requests : Creates(s)' <=> Creates(s)
    BY DEF Execute, Creates
  <2>4. ASSUME NEW s \in Requests, Creates(s), state'[s] \in {"sent", "orphan"}
        PROVE  rows'[op[s].id] = None
    <3>1. s # r /\ state[s] \in {"sent", "orphan"}
      BY <2>4 DEF Execute, TypeOK
    <3> QED
      BY <2>1, <2>4, <3>1, OpFields DEF UuidInv, Creates
  <2> QED
    BY <2>2, <2>3, <2>4 DEF Execute, UuidInv
<1>6. ASSUME NEW s \in Requests PROVE RequestInv(s)'
  BY <1>1 DEF Execute, TypeOK, RequestInv, Validates
<1> QED
  BY <1>2, <1>3, <1>4, <1>5, <1>6

\* The ends of a request: its result, an error of the connection, a cancellation, and the loss
\* of a statement that was left behind.
LEMMA EndInv ==
  ASSUME InventoryInv, NEW r \in Requests,
         Reply(r) \/ DatabaseFails(r) \/ Cancel(r) \/ Lost(r)
  PROVE  InventoryInv'
<1> USE DEF InventoryInv, Reply, DatabaseFails, Cancel, Lost
<1>1. TypeOK'
  BY DEF TypeOK, Replies
<1>2. StoredRowsValid'
  BY DEF StoredRowsValid
<1>3. DefiniteReply'
  BY DEF TypeOK, DefiniteReply, RequestInv
<1>4. UuidInv'
  BY DEF TypeOK, UuidInv, Creates
<1>5. ASSUME NEW s \in Requests PROVE RequestInv(s)'
  BY DEF TypeOK, RequestInv, Validates
<1> QED
  BY <1>1, <1>2, <1>3, <1>4, <1>5

\* Every step of the inventory keeps the invariant.
LEMMA InventoryNext == InventoryInv /\ [Next]_invVars => InventoryInv'
<1> SUFFICES ASSUME InventoryInv, [Next]_invVars PROVE InventoryInv'
  OBVIOUS
<1>1. CASE Next
  BY <1>1, SubmitInv, ExecuteInv, EndInv DEF Next
<1>2. CASE UNCHANGED invVars
  BY <1>2 DEF invVars, InventoryInv, TypeOK, StoredRowsValid, DefiniteReply, UuidInv, Creates,
              RequestInv, Validates
<1> QED
  BY <1>1, <1>2

-----------------------------------------------------------------------------
(* The theorems.                                                           *)

\* A definite answer of a machine tool is the truth about the table and stays so, for any
\* overlap of requests and statements that outlive their requests (inventory.rs:277-360).
THEOREM DefiniteReplyHolds == Spec => []DefiniteReply
<1>1. InventoryInv => DefiniteReply
  BY DEF InventoryInv
<1> QED
  BY <1>1, InventoryInit, InventoryNext, PTL DEF Spec

\* The table keeps its schema, and every host and key in it passed its validation, however
\* late a statement runs (inventory.rs:277-360, mcp.rs machine tools).
THEOREM RowsHold == Spec => [](TypeOK /\ StoredRowsValid)
<1>1. InventoryInv => TypeOK /\ StoredRowsValid
  BY DEF InventoryInv
<1> QED
  BY <1>1, InventoryInit, InventoryNext, PTL DEF Spec

\* A step that changes the key of a row is the statement of a host-key action on it: an
\* update keeps the key, and a create never meets a row of its UUID.
LEMMA TrustStep ==
  ASSUME InventoryInv, [Next]_invVars, NEW i \in Ids,
         rows[i] # None, rows'[i] # None, rows'[i].pin # rows[i].pin
  PROVE  \E r \in Requests :
           /\ op[r] # None /\ op[r].kind \in {"clear", "replace"} /\ op[r].id = i
           /\ effect[r] = "none" /\ effect'[r] = "ok"
<1> USE DEF InventoryInv
<1>1. rows' # rows
  OBVIOUS
<1>2. PICK r \in Requests : Execute(r)
  BY <1>1 DEF Next, invVars, Submit, Reply, DatabaseFails, Cancel, Lost
<1>3. op[r] \in Op /\ Verdict(op[r]) = "ok" /\ op[r].id = i /\ rows'[i] = NewRow(op[r])
  BY <1>2 DEF Execute, RequestInv, TypeOK
<1>4. op[r].kind # "create"
  BY <1>2, <1>3 DEF Execute, UuidInv, Creates
<1>5. op[r].kind \in {"clear", "replace"}
  BY <1>3, <1>4, NewRowKeepsPin
<1>6. effect[r] = "none" /\ effect'[r] = "ok"
  BY <1>2, <1>3 DEF Execute, RequestInv, TypeOK
<1> QED
  BY <1>3, <1>5, <1>6, AbsenceAssumption

\* Host trust is separate from the rest of a record (docs/deploys/machine-inventory.md): the
\* key of a machine changes only by an executed host-key action on that machine.
THEOREM TrustHolds == Spec => OnlyHostKeyActionsChangeTrust
<1>1. InventoryInv /\ [Next]_invVars =>
        [\A i \in Ids :
           rows[i] # None /\ rows'[i] # None /\ rows'[i].pin # rows[i].pin =>
             \E r \in Requests :
               /\ op[r] # None /\ op[r].kind \in {"clear", "replace"} /\ op[r].id = i
               /\ effect[r] = "none" /\ effect'[r] = "ok"]_invVars
  BY TrustStep
<1> QED
  BY <1>1, InventoryInit, InventoryNext, PTL DEF Spec, OnlyHostKeyActionsChangeTrust

-----------------------------------------------------------------------------
(* The token cache.                                                        *)

Pcs == {"idle", "load", "purge", "loaded", "lookup", "revoke", "clear", "login", "lookup_new",
        "revoke_new", "save", "replace", "sign", "connected"} \cup Ends
RunRecord ==
  [pc : Pcs,
   mode : {Nothing, "session", "reauth", "logout"},
   origin : Origins \cup {Nothing}, token : Tokens \cup {Nothing},
   cached : BOOLEAN, next : {Nothing, "ok", "login", "failed"},
   logins : Nat, touched : BOOLEAN]

Issued(t) == tok[t].origin \in Origins
Working(k) == k.pc \notin Ends \cup {"idle"}

\* A live token is accounted for by the file, or by what the operator knows of it.
Safe(t) ==
  tok[t].live => file.token = t \/ t \in warned \cup purged \cup refused \cup displaced

\* A token that is not in the file yet, or never will be, is with the run that obtained it.
Owner(k) == k.pc \in {"lookup_new", "revoke_new", "save", "replace", "login_failed",
                     "save_failed", "crashed"}

\* What a run has and has done at each point of run().
PathInv(k) ==
  /\ k.pc \in {"idle", "load", "login"} => k.token = Nothing
  /\ k.pc \in {"lookup", "revoke", "clear", "lookup_new", "revoke_new", "save", "replace",
               "sign", "connected"} => k.token # Nothing
  /\ Working(k) => k.origin \in Origins
  /\ k.pc \in {"lookup", "revoke", "clear"} => k.next \in {"ok", "login", "failed"}
  /\ k.pc \in {"idle", "load", "purge", "loaded", "lookup", "login"} => k.logins = 0
  /\ k.pc \in {"revoke", "clear"} /\ k.next = "login" => k.logins = 0
  /\ k.pc \in {"lookup_new", "save", "replace"} => ~k.cached
  /\ k.pc = "sign" /\ k.cached => k.logins = 0
  /\ k.logins <= 1
  /\ k.pc \in {"idle", "load", "lookup", "indeterminate"} => ~k.touched
  /\ k.pc = "loaded" /\ k.token # Nothing => ~k.touched

\* A run's token was issued, by the run's server except where it is about to be purged.
HomeInv(k) ==
  k.token # Nothing =>
    /\ Issued(k.token)
    /\ Working(k) /\ k.pc # "purge" => tok[k.token].origin = k.origin
    /\ k.pc \in {"save", "replace"} => tok[k.token].validated

\* A token of the cache is not lost while a run works with it; where the run clears the
\* cache, it is dead, or the operator was warned, or a lookup rejected it.
KeptInv(k) ==
  k.token # Nothing =>
    /\ Owner(k) \/ Safe(k.token)
    /\ k.pc = "clear" => ~tok[k.token].live \/ k.token \in warned \cup refused

FileInv ==
  IF file.kind = "token"
  THEN file.token \in Tokens /\ file.origin \in Origins /\ CachedWasValidated
  ELSE file.token = Nothing

\* Runs that do not overlap find in the file their own token, or none.
FileMine(k) == file.kind = "token" => file.token = k.token

AloneInv ==
  ~overlapped =>
    /\ displaced = {}
    /\ \A r, s \in Runs : UnderWay(r) /\ UnderWay(s) => r = s
    /\ \A s \in Runs : UnderWay(s) /\ run[s].pc # "load" => FileMine(run[s])

TokensInv ==
  \A t \in Tokens :
    /\ ~Issued(t) => ~tok[t].live
    /\ Safe(t) \/ \E s \in Runs : run[s].token = t /\ Owner(run[s])

CacheInv ==
  /\ CacheTypeOK /\ FileInv /\ TokensInv /\ AloneInv /\ TemporariesRemoved
  /\ \A s \in Runs : PathInv(run[s]) /\ HomeInv(run[s]) /\ KeptInv(run[s])

\* The types of all but the runs.
RestTypes ==
  /\ file \in [kind : {"none", "malformed", "unsafe", "token"},
               origin : Origins \cup {Nothing}, token : Tokens \cup {Nothing}]
  /\ temps \subseteq Runs
  /\ tok \in [Tokens -> [origin : Origins \cup {Nothing}, live : BOOLEAN,
                         contract : BOOLEAN, validated : BOOLEAN]]
  /\ warned \subseteq Tokens /\ purged \subseteq Tokens
  /\ refused \subseteq Tokens /\ displaced \subseteq Tokens
  /\ overlapped \in BOOLEAN

\* The type invariant, as the steps need it.
LEMMA CacheTypes == CacheTypeOK <=> run \in [Runs -> RunRecord] /\ RestTypes
BY DEF CacheTypeOK, RunRecord, RestTypes, Pcs

\* A run stays a run when one of its fields changes.
LEMMA RunFieldUpdates ==
  ASSUME NEW k \in RunRecord
  PROVE  /\ \A v \in Pcs : [k EXCEPT !.pc = v] \in RunRecord
         /\ \A v \in {Nothing, "session", "reauth", "logout"} : [k EXCEPT !.mode = v] \in RunRecord
         /\ \A v \in Origins \cup {Nothing} : [k EXCEPT !.origin = v] \in RunRecord
         /\ \A v \in Tokens \cup {Nothing} : [k EXCEPT !.token = v] \in RunRecord
         /\ \A v \in BOOLEAN : [k EXCEPT !.cached = v] \in RunRecord
         /\ \A v \in {Nothing, "ok", "login", "failed"} : [k EXCEPT !.next = v] \in RunRecord
         /\ \A v \in Nat : [k EXCEPT !.logins = v] \in RunRecord
         /\ \A v \in BOOLEAN : [k EXCEPT !.touched = v] \in RunRecord
BY DEF RunRecord

\* The sets of names that the proofs compare.
LEMMA CacheNames ==
  /\ Ends \subseteq Pcs
  /\ Ends = {"ok", "failed", "indeterminate", "login_failed", "save_failed", "crashed"}
  /\ Abandons = {"login_failed", "save_failed", "crashed"}
  /\ {"load", "purge", "loaded", "lookup", "revoke", "clear", "login", "lookup_new",
      "revoke_new", "save", "replace", "sign", "connected"} = Pcs \ (Ends \cup {"idle"})
BY DEF Ends, Abandons, Pcs

\* What Goto leaves of a run.
LEMMA GotoFields ==
  ASSUME run \in [Runs -> RunRecord], NEW s \in Runs, NEW p \in Pcs, Goto(s, p)
  PROVE  /\ run' \in [Runs -> RunRecord] /\ \A d \in Runs \ {s} : run'[d] = run[d]
         /\ run'[s].pc = p
         /\ p \notin Ends =>
              /\ run'[s].origin = run[s].origin /\ run'[s].token = run[s].token
              /\ run'[s].cached = run[s].cached /\ run'[s].next = run[s].next
              /\ run'[s].logins = run[s].logins /\ run'[s].touched = run[s].touched
         /\ p \in Ends =>
              /\ run'[s].logins = 0
              /\ run'[s].token = IF p \in Abandons THEN run[s].token ELSE Nothing
              /\ run'[s].touched = (p = "indeterminate" /\ run[s].touched)
<1>1. run[s] \in RunRecord
  OBVIOUS
<1>2. CASE p \notin Ends
  <2>1. run' = [run EXCEPT ![s] = [run[s] EXCEPT !.pc = p]]
    BY <1>2 DEF Goto
  <2>2. [run[s] EXCEPT !.pc = p] \in RunRecord
    BY <1>1, RunFieldUpdates
  <2> QED
    BY <1>1, <1>2, <2>1, <2>2 DEF RunRecord
<1>3. CASE p \in Ends
  <2> DEFINE left == IF p \in Abandons THEN run[s].token ELSE Nothing
             touched == p = "indeterminate" /\ run[s].touched
             n == [NotStarted EXCEPT !.pc = p, !.touched = touched, !.token = left]
  <2>1. run' = [run EXCEPT ![s] = n]
    BY <1>3 DEF Goto
  <2>2. left \in Tokens \cup {Nothing} /\ touched \in BOOLEAN
    BY <1>1 DEF RunRecord
  <2>3. NotStarted \in RunRecord
    BY DEF NotStarted, RunRecord, Pcs
  <2> HIDE DEF left, touched
  <2>4. n \in RunRecord
    <3>1. [NotStarted EXCEPT !.pc = p] \in RunRecord
      BY <2>3, RunFieldUpdates
    <3>2. [NotStarted EXCEPT !.pc = p, !.touched = touched] \in RunRecord
      BY <2>2, <3>1, RunFieldUpdates
    <3> QED
      BY <2>2, <3>2, RunFieldUpdates
  <2>5. n.pc = p /\ n.logins = 0 /\ n.token = left /\ n.touched = touched
    BY DEF NotStarted
  <2> HIDE DEF n
  <2> QED
    BY <1>3, <2>1, <2>4, <2>5 DEF left, touched
<1> QED
  BY <1>2, <1>3

-----------------------------------------------------------------------------
(* Steps of one run.                                                       *)

\* What is known of issued tokens stays: their server, that they were confirmed, that they
\* are dead.
TokensStay ==
  \A t \in Tokens : Issued(t) =>
    /\ tok'[t].origin = tok[t].origin
    /\ tok[t].validated => tok'[t].validated
    /\ tok'[t].live => tok[t].live

\* What a step of one run has to show: what it holds, and what the file and the tokens are.
LEMMA CacheStep ==
  ASSUME CacheInv, NEW s \in Runs, UnderWay(s), run' \in [Runs -> RunRecord],
         \A d \in Runs \ {s} : run'[d] = run[d], run'[s].pc \notin {"idle", "load"},
         PathInv(run[s])', HomeInv(run[s])', KeptInv(run[s])', RestTypes', FileInv',
         temps' \subseteq temps \cup {s}, s \in temps' => run'[s].pc \in {"replace", "crashed"},
         overlapped' = overlapped,
         ~overlapped => displaced' = {} /\ (UnderWay(s)' => FileMine(run[s])'),
         TokensStay, warned \subseteq warned', refused \subseteq refused',
         \A t \in Tokens : Issued(t) /\ Safe(t) => Safe(t)',
         \A t \in Tokens : (run[s].token = t /\ Owner(run[s])) \/ ~Issued(t) =>
           Safe(t)' \/ (run'[s].token = t /\ Owner(run'[s])),
         \A t \in Tokens : tok'[t].live => Issued(t)'
  PROVE  CacheInv'
<1>1. CacheTypeOK'
  BY DEF CacheTypeOK, RunRecord, RestTypes, Pcs
<1>2. TokensInv'
  <2>1. ASSUME NEW t \in Tokens
        PROVE  Safe(t)' \/ \E r \in Runs : run'[r].token = t /\ Owner(run'[r])
    <3>1. CASE ~Issued(t) \/ (run[s].token = t /\ Owner(run[s]))
      BY <3>1
    <3>2. CASE Issued(t) /\ Safe(t)
      BY <3>2
    <3>3. CASE \E r \in Runs \ {s} : run[r].token = t /\ Owner(run[r])
      BY <3>3
    <3> QED
      BY <3>1, <3>2, <3>3 DEF CacheInv, TokensInv
  <2> QED
    BY <2>1 DEF TokensInv
<1>3. AloneInv'
  <2>1. \A d \in Runs : UnderWay(d)' => UnderWay(d)
    BY DEF UnderWay
  <2> QED
    BY <2>1 DEF CacheInv, AloneInv
<1>4. TemporariesRemoved'
  BY DEF CacheInv, TemporariesRemoved, CacheTypeOK
<1>5. ASSUME NEW d \in Runs PROVE PathInv(run[d])' /\ HomeInv(run[d])' /\ KeptInv(run[d])'
  <2>1. CASE d = s
    BY <2>1
  <2>2. CASE d # s
    <3>1. run'[d] = run[d] /\ run[d] \in RunRecord
      BY <2>2, CacheTypes DEF CacheInv
    <3>2. PathInv(run[d])'
      BY <3>1 DEF CacheInv, PathInv, Working
    <3>3. ASSUME run[d].token # Nothing PROVE run[d].token \in Tokens /\ Issued(run[d].token)
      BY <3>1, <3>3 DEF CacheInv, HomeInv, RunRecord
    <3>4. HomeInv(run[d])'
      BY <3>1, <3>3 DEF CacheInv, HomeInv, TokensStay, Issued, Working
    <3>5. KeptInv(run[d])'
      BY <3>1, <3>3 DEF CacheInv, KeptInv, TokensStay, Owner
    <3> QED
      BY <3>2, <3>4, <3>5
  <2> QED
    BY <2>1, <2>2
<1> QED
  BY <1>1, <1>2, <1>3, <1>4, <1>5 DEF CacheInv

\* A step that leaves the file, the tokens and what is known of them alone.
LEMMA QuietStep ==
  ASSUME CacheInv, NEW s \in Runs, UnderWay(s), run' \in [Runs -> RunRecord],
         \A d \in Runs \ {s} : run'[d] = run[d], run'[s].pc \notin {"idle", "load"},
         PathInv(run[s])', HomeInv(run[s])', KeptInv(run[s])',
         UNCHANGED <<file, tok, history>>,
         temps' \subseteq temps \cup {s}, s \in temps' => run'[s].pc \in {"replace", "crashed"},
         ~overlapped /\ UnderWay(s)' => FileMine(run'[s]),
         Owner(run[s]) =>
           Safe(run[s].token) \/ (run'[s].token = run[s].token /\ Owner(run'[s]))
  PROVE  CacheInv'
<1>1. /\ UNCHANGED <<file, tok, warned, purged, refused, displaced, overlapped>>
      /\ RestTypes /\ FileInv /\ TokensInv /\ AloneInv
  BY CacheTypes DEF CacheInv, history
<1>2. RestTypes'
  BY <1>1 DEF RestTypes
<1>3. FileInv'
  BY <1>1 DEF FileInv, CachedWasValidated
<1>4. TokensStay /\ \A t \in Tokens : Safe(t)' <=> Safe(t)
  BY <1>1 DEF TokensStay, Safe
<1>5. \A t \in Tokens : (Issued(t)' <=> Issued(t)) /\ (tok'[t].live <=> tok[t].live)
  BY <1>1 DEF Issued
<1>6. \A t \in Tokens : ~Issued(t) => Safe(t)
  BY <1>1 DEF TokensInv, Safe
<1>7. ~overlapped => displaced' = {} /\ (UnderWay(s)' => FileMine(run[s])')
  BY <1>1 DEF AloneInv, FileMine
<1>8. \A t \in Tokens : tok'[t].live => Issued(t)'
  BY <1>1, <1>5 DEF TokensInv
<1>9. \A t \in Tokens : (run[s].token = t /\ Owner(run[s])) \/ ~Issued(t) =>
        Safe(t)' \/ (run'[s].token = t /\ Owner(run'[s]))
  <2>1. ASSUME NEW t \in Tokens, run[s].token = t, Owner(run[s])
        PROVE  Safe(t)' \/ (run'[s].token = t /\ Owner(run'[s]))
    BY <1>4, <2>1
  <2> QED
    BY <1>4, <1>6, <2>1
<1>10. /\ warned \subseteq warned' /\ refused \subseteq refused' /\ overlapped' = overlapped
       /\ \A t \in Tokens : Issued(t) /\ Safe(t) => Safe(t)'
  BY <1>1, <1>4
<1> QED
  BY <1>2, <1>3, <1>4, <1>7, <1>8, <1>9, <1>10, CacheStep

\* What is known of a run that is under way.
LEMMA RunFacts ==
  ASSUME CacheInv, NEW s \in Runs
  PROVE  /\ run \in [Runs -> RunRecord] /\ run[s] \in RunRecord
         /\ PathInv(run[s]) /\ HomeInv(run[s]) /\ KeptInv(run[s])
         /\ ~overlapped /\ UnderWay(s) /\ run[s].pc # "load" => FileMine(run[s])
         /\ run[s].token # Nothing => run[s].token \in Tokens
BY CacheTypes DEF CacheInv, AloneInv, RunRecord

\* A run goes on with the token it has.
LEMMA MoveStep ==
  ASSUME CacheInv, NEW s \in Runs, UnderWay(s), NEW p \in Pcs \ (Ends \cup {"idle", "load"}),
         Goto(s, p), UNCHANGED <<file, tok, history>>,
         temps' \subseteq temps \cup {s}, s \in temps' => p = "replace",
         PathInv(run[s])', run[s].pc # "purge",
         ~overlapped => FileMine(run[s]),
         p \in {"save", "replace"} /\ run[s].token # Nothing => tok[run[s].token].validated,
         p = "clear" /\ run[s].token # Nothing =>
           ~tok[run[s].token].live \/ run[s].token \in warned \cup refused,
         run[s].token # Nothing /\ ~Owner(run'[s]) => Safe(run[s].token)
  PROVE  CacheInv'
<1>1. /\ run' \in [Runs -> RunRecord] /\ \A d \in Runs \ {s} : run'[d] = run[d]
      /\ run'[s].pc = p /\ run'[s].origin = run[s].origin /\ run'[s].token = run[s].token
  BY GotoFields, RunFacts
<1>2. /\ HomeInv(run[s]) /\ KeptInv(run[s])
      /\ UNCHANGED <<file, tok, warned, purged, refused, displaced>>
  BY RunFacts DEF history
<1>3. HomeInv(run[s])'
  BY <1>1, <1>2 DEF HomeInv, Issued, Working, UnderWay
<1>4. KeptInv(run[s])'
  BY <1>1, <1>2 DEF KeptInv, Safe
<1>5. Owner(run[s]) => Safe(run[s].token) \/ (run'[s].token = run[s].token /\ Owner(run'[s]))
  <2>1. run[s].token # Nothing \/ ~Owner(run[s])
    <3>1. PathInv(run[s])
      BY RunFacts
    <3> QED
      BY <3>1 DEF UnderWay, Owner, PathInv, Ends
  <2> QED
    BY <1>1, <2>1
<1>6. ~overlapped /\ UnderWay(s)' => FileMine(run'[s])
  BY <1>1 DEF FileMine
<1>7. /\ run'[s].pc \notin {"idle", "load"}
      /\ s \in temps' => run'[s].pc \in {"replace", "crashed"}
  BY <1>1
<1> QED
  BY <1>1, <1>3, <1>4, <1>5, <1>6, <1>7, QuietStep

\* A run ends.
LEMMA EndStep ==
  ASSUME CacheInv, NEW s \in Runs, UnderWay(s), NEW p \in Ends, Goto(s, p),
         UNCHANGED <<file, tok, history>>, temps' \subseteq temps,
         s \in temps' => p = "crashed", p = "indeterminate" => ~run[s].touched,
         Owner(run[s]) => p \in Abandons
  PROVE  CacheInv'
<1>1. /\ run' \in [Runs -> RunRecord] /\ \A d \in Runs \ {s} : run'[d] = run[d]
      /\ run'[s].pc = p /\ run'[s].logins = 0
      /\ run'[s].token = IF p \in Abandons THEN run[s].token ELSE Nothing
      /\ run'[s].touched = (p = "indeterminate" /\ run[s].touched)
  BY GotoFields, RunFacts, CacheNames
<1>2. HomeInv(run[s]) /\ UNCHANGED <<file, tok, warned, purged, refused, displaced>>
  BY RunFacts DEF history
<1>3. p \notin {"idle", "load"} /\ ~UnderWay(s)'
  BY <1>1, CacheNames DEF UnderWay
<1>4. PathInv(run[s])'
  <2>1. p = "indeterminate" => ~run'[s].touched
    BY <1>1
  <2>2. p \in {"ok", "failed", "indeterminate", "login_failed", "save_failed", "crashed"}
    BY CacheNames
  <2>3. ~Working(run'[s])
    BY <1>1 DEF Working
  <2> QED
    BY <1>1, <2>1, <2>2, <2>3 DEF PathInv
<1>5. HomeInv(run[s])'
  BY <1>1, <1>2, CacheNames DEF HomeInv, Issued, Working
<1>6. KeptInv(run[s])'
  BY <1>1, CacheNames DEF KeptInv, Owner
<1> QED
  BY <1>1, <1>3, <1>4, <1>5, <1>6, CacheNames, QuietStep DEF Owner

\* A run changes two or three of its fields and goes on.
LEMMA RewriteStep ==
  ASSUME CacheInv, NEW s \in Runs, UnderWay(s), NEW n \in RunRecord, run' = [run EXCEPT ![s] = n],
         UNCHANGED <<file, temps, tok, history>>, n.pc \notin Ends \cup {"idle", "load", "replace"},
         PathInv(n), HomeInv(n), n.token = Nothing \/ Safe(n.token), n.pc # "clear",
         ~overlapped => FileMine(n), run[s].pc # "replace", ~Owner(run[s])
  PROVE  CacheInv'
<1>1. /\ run' \in [Runs -> RunRecord] /\ run'[s] = n /\ \A d \in Runs \ {s} : run'[d] = run[d]
  BY RunFacts
<1>2. UNCHANGED <<file, tok, warned, purged, refused, displaced, overlapped>> /\ temps' = temps
  BY DEF history
<1>3. PathInv(run[s])'
  BY <1>1 DEF PathInv, Working
<1>4. HomeInv(run[s])'
  BY <1>1, <1>2 DEF HomeInv, Issued, Working
<1>5. KeptInv(run[s])'
  BY <1>1, <1>2 DEF KeptInv, Safe
<1>6. s \notin temps
  BY DEF CacheInv, TemporariesRemoved, UnderWay, Ends
<1> QED
  BY <1>1, <1>2, <1>3, <1>4, <1>5, <1>6, QuietStep

\* Load keeps the invariant.
LEMMA LoadStep ==
  ASSUME CacheInv, NEW s \in Runs, Load(s)
  PROVE  CacheInv'
<1>1. /\ UnderWay(s) /\ run[s].pc = "load" /\ UNCHANGED <<file, temps, tok, history>>
      /\ run[s] \in RunRecord /\ PathInv(run[s]) /\ run[s].token = Nothing
      /\ FileInv /\ s \notin temps
  BY RunFacts DEF Load, UnderWay, Ends, PathInv, CacheInv, TemporariesRemoved
<1>2. ~Owner(run[s])
  BY <1>1 DEF Owner
<1>3. CASE file.kind = "unsafe" /\ Goto(s, "failed")
  BY <1>1, <1>2, <1>3, CacheNames, EndStep
<1>4. ASSUME NEW p \in {"loaded", "purge"}, Goto(s, p), file.kind # "token"
      PROVE  CacheInv'
  <2>1. /\ run'[s].pc = p /\ run'[s].origin = run[s].origin /\ run'[s].token = run[s].token
        /\ run'[s].cached = run[s].cached /\ run'[s].next = run[s].next
        /\ run'[s].logins = run[s].logins /\ run'[s].touched = run[s].touched
    BY <1>4, GotoFields, CacheNames, RunFacts
  <2>2. PathInv(run[s])'
    BY <1>1, <1>4, <2>1 DEF PathInv, Working, Ends
  <2>3. FileMine(run[s])
    BY <1>4 DEF FileMine
  <2> QED
    BY <1>1, <1>4, <2>2, <2>3, CacheNames, MoveStep
<1>5. CASE file.kind = "token"
  <2> DEFINE p == IF file.origin = run[s].origin THEN "loaded" ELSE "purge"
             n == [run[s] EXCEPT !.token = file.token, !.pc = p]
  <2>1. run' = [run EXCEPT ![s] = n]
    BY <1>5 DEF Load, Goto
  <2>2. /\ file.token \in Tokens /\ file.origin \in Origins
        /\ tok[file.token].origin = file.origin /\ file.token # Nothing
    BY <1>1, <1>5, NoneAssumption DEF FileInv, CachedWasValidated
  <2>3. p \in {"loaded", "purge"} /\ (p = "loaded" => file.origin = run[s].origin)
    OBVIOUS
  <2> HIDE DEF p
  <2>4. n \in RunRecord
    <3>1. [run[s] EXCEPT !.token = file.token] \in RunRecord
      BY <1>1, <2>2, RunFieldUpdates
    <3> QED
      BY <2>3, <3>1, CacheNames, RunFieldUpdates
  <2>5. /\ n.pc = p /\ n.origin = run[s].origin /\ n.token = file.token
        /\ n.logins = run[s].logins /\ n.touched = run[s].touched
    BY <1>1 DEF RunRecord
  <2> HIDE DEF n
  <2>6. PathInv(n)
    BY <1>1, <2>2, <2>3, <2>5, CacheNames DEF PathInv, Working, UnderWay
  <2>7. HomeInv(n)
    BY <1>1, <2>2, <2>3, <2>5 DEF HomeInv, Issued
  <2>8. Safe(n.token) /\ FileMine(n)
    BY <2>5 DEF Safe, FileMine
  <2> QED
    BY <1>1, <1>2, <2>1, <2>3, <2>4, <2>5, <2>6, <2>7, <2>8, CacheNames, RewriteStep
<1> QED
  BY <1>3, <1>4, <1>5 DEF Load

\* Dispatch keeps the invariant.
LEMMA DispatchStep ==
  ASSUME CacheInv, NEW s \in Runs, Dispatch(s)
  PROVE  CacheInv'
<1>1. /\ UnderWay(s) /\ run[s].pc = "loaded" /\ UNCHANGED <<file, temps, tok, history>>
      /\ run[s] \in RunRecord /\ PathInv(run[s]) /\ HomeInv(run[s]) /\ KeptInv(run[s])
      /\ (~overlapped => FileMine(run[s])) /\ s \notin temps
  BY RunFacts DEF Dispatch, UnderWay, Ends, CacheInv, TemporariesRemoved
<1>2. ~Owner(run[s])
  BY <1>1 DEF Owner
<1>3. CASE run[s].token = Nothing
  <2>1. CASE Goto(s, "ok")
    BY <1>1, <1>2, <2>1, CacheNames, EndStep
  <2>2. CASE Goto(s, "login")
    <3>1. /\ run'[s].pc = "login" /\ run'[s].origin = run[s].origin
          /\ run'[s].token = run[s].token /\ run'[s].logins = run[s].logins
      BY <2>2, GotoFields, CacheNames, RunFacts
    <3>2. PathInv(run[s])'
      BY <1>1, <1>3, <3>1 DEF PathInv, Working, Ends
    <3> QED
      BY <1>1, <1>3, <2>2, <3>2, CacheNames, MoveStep
  <2> QED
    BY <1>3, <2>1, <2>2 DEF Dispatch
<1>4. CASE run[s].token # Nothing
  <2> DEFINE p == IF run[s].mode = "session" THEN "lookup" ELSE "revoke"
             q == IF run[s].mode = "logout" THEN "ok" ELSE "login"
             n == [run[s] EXCEPT !.pc = p, !.next = q]
  <2>1. run' = [run EXCEPT ![s] = n]
    BY <1>4 DEF Dispatch
  <2>2. p \in {"lookup", "revoke"} /\ q \in {"ok", "login"}
    OBVIOUS
  <2> HIDE DEF p, q
  <2>3. n \in RunRecord
    <3>1. [run[s] EXCEPT !.pc = p] \in RunRecord
      BY <1>1, <2>2, CacheNames, RunFieldUpdates
    <3> QED
      BY <2>2, <3>1, RunFieldUpdates
  <2>4. /\ n.pc = p /\ n.next = q /\ n.origin = run[s].origin /\ n.token = run[s].token
        /\ n.logins = run[s].logins /\ n.touched = run[s].touched
    BY <1>1 DEF RunRecord
  <2> HIDE DEF n
  <2>5. PathInv(n)
    BY <1>1, <1>4, <2>2, <2>4 DEF PathInv, Working, UnderWay
  <2>6. HomeInv(n)
    BY <1>1, <2>2, <2>4, CacheNames DEF HomeInv, Issued, Working
  <2>7. Safe(n.token) /\ (~overlapped => FileMine(n))
    BY <1>1, <1>2, <1>4, <2>4 DEF KeptInv, FileMine
  <2> QED
    BY <1>1, <1>2, <2>1, <2>2, <2>3, <2>4, <2>5, <2>6, <2>7, CacheNames, RewriteStep
<1> QED
  BY <1>3, <1>4

\* Lookup keeps the invariant.
LEMMA LookupStep ==
  ASSUME CacheInv, NEW s \in Runs, Lookup(s)
  PROVE  CacheInv'
<1>1. /\ UnderWay(s) /\ run[s].pc = "lookup"
      /\ UNCHANGED <<file, temps, tok, warned, purged, displaced, overlapped>>
      /\ run[s] \in RunRecord /\ PathInv(run[s]) /\ HomeInv(run[s]) /\ KeptInv(run[s])
      /\ (~overlapped => FileMine(run[s])) /\ s \notin temps
  BY RunFacts DEF Lookup, UnderWay, Ends, CacheInv, TemporariesRemoved
<1>2. /\ ~Owner(run[s]) /\ ~run[s].touched /\ run[s].token # Nothing /\ run[s].logins = 0
      /\ run[s].next \in {"ok", "login", "failed"}
  BY <1>1 DEF Owner, PathInv
<1>3. Safe(run[s].token)
  BY <1>1, <1>2 DEF KeptInv
<1>4. PICK result \in Lookups(run[s].token) :
        /\ Refuses(s, result)
        /\ \/ /\ result = "valid"
              /\ run' = [run EXCEPT ![s].pc = "sign", ![s].cached = TRUE]
           \/ result = "indeterminate" /\ Goto(s, "indeterminate")
           \/ result = "contract_invalid" /\ Goto(s, "revoke")
           \/ result = "rejected" /\ Goto(s, "clear")
  BY DEF Lookup
<1>5. CASE /\ run' = [run EXCEPT ![s].pc = "sign", ![s].cached = TRUE]
           /\ UNCHANGED history
  <2> DEFINE n == [run[s] EXCEPT !.pc = "sign", !.cached = TRUE]
  <2>1. run' = [run EXCEPT ![s] = n]
    BY <1>5
  <2>2. n \in RunRecord
    <3>1. [run[s] EXCEPT !.pc = "sign"] \in RunRecord
      BY <1>1, CacheNames, RunFieldUpdates
    <3> QED
      BY <3>1, RunFieldUpdates
  <2>3. /\ n.pc = "sign" /\ n.origin = run[s].origin /\ n.token = run[s].token
        /\ n.logins = run[s].logins
    BY <1>1 DEF RunRecord
  <2> HIDE DEF n
  <2>4. PathInv(n)
    BY <1>1, <1>2, <2>3 DEF PathInv, Working, UnderWay
  <2>5. HomeInv(n) /\ (~overlapped => FileMine(n))
    BY <1>1, <2>3, CacheNames DEF HomeInv, Issued, Working, FileMine
  <2> QED
    BY <1>1, <1>2, <1>3, <1>5, <2>1, <2>2, <2>3, <2>4, <2>5, CacheNames, RewriteStep
<1>6. CASE Goto(s, "indeterminate") /\ UNCHANGED history
  BY <1>1, <1>2, <1>6, CacheNames, EndStep
<1>7. CASE Goto(s, "revoke") /\ UNCHANGED history
  <2>1. /\ run'[s].pc = "revoke" /\ run'[s].origin = run[s].origin
        /\ run'[s].token = run[s].token /\ run'[s].next = run[s].next
        /\ run'[s].logins = run[s].logins
    BY <1>7, GotoFields, CacheNames, RunFacts
  <2>2. PathInv(run[s])'
    BY <1>1, <1>2, <2>1 DEF PathInv, Working, Ends
  <2> QED
    BY <1>1, <1>3, <1>7, <2>2, CacheNames, MoveStep
<1>8. CASE Goto(s, "clear") /\ refused' = refused \cup {run[s].token}
  <2>1. /\ run' \in [Runs -> RunRecord] /\ \A d \in Runs \ {s} : run'[d] = run[d]
        /\ run'[s].pc = "clear" /\ run'[s].origin = run[s].origin
        /\ run'[s].token = run[s].token /\ run'[s].next = run[s].next
        /\ run'[s].logins = run[s].logins
    BY <1>8, GotoFields, CacheNames, RunFacts
  <2>2. PathInv(run[s])'
    BY <1>1, <1>2, <2>1 DEF PathInv, Working, Ends
  <2>3. /\ UNCHANGED <<file, temps, tok, warned, purged, displaced, overlapped>>
        /\ RestTypes /\ FileInv /\ TokensInv /\ AloneInv
    BY <1>1, CacheTypes DEF CacheInv
  <2>4. refused \subseteq refused' /\ run[s].token \in refused' /\ run[s].token \in Tokens
    BY <1>2, <1>8, RunFacts
  <2>5. RestTypes' /\ FileInv'
    BY <1>8, <2>3, <2>4 DEF RestTypes, FileInv, CachedWasValidated
  <2>6. HomeInv(run[s])' /\ KeptInv(run[s])'
    BY <1>1, <1>2, <2>1, <2>3, <2>4 DEF HomeInv, KeptInv, Safe, Issued, Working, UnderWay
  <2>7. TokensStay /\ \A t \in Tokens : Safe(t) => Safe(t)'
    BY <2>3, <2>4 DEF TokensStay, Safe
  <2>8. \A t \in Tokens : (tok'[t].live => Issued(t)') /\ (~Issued(t) => Safe(t)')
    BY <2>3, <2>7 DEF TokensInv, Issued, Safe
  <2>9. ~overlapped => displaced' = {} /\ FileMine(run[s])'
    BY <1>1, <2>1, <2>3 DEF AloneInv, FileMine
  <2> QED
    BY <1>1, <1>2, <2>1, <2>2, <2>3, <2>4, <2>5, <2>6, <2>7, <2>8, <2>9, CacheStep
<1>9. result # "rejected" => UNCHANGED history
  BY <1>1, <1>4 DEF Refuses, history
<1> QED
  BY <1>4, <1>5, <1>6, <1>7, <1>8, <1>9 DEF Refuses

\* Sign keeps the invariant.
LEMMA SignStep ==
  ASSUME CacheInv, NEW s \in Runs, Sign(s)
  PROVE  CacheInv'
<1>1. /\ UnderWay(s) /\ run[s].pc = "sign" /\ UNCHANGED <<file, temps, tok, history>>
      /\ run[s] \in RunRecord /\ PathInv(run[s]) /\ HomeInv(run[s]) /\ KeptInv(run[s])
      /\ (~overlapped => FileMine(run[s])) /\ s \notin temps
  BY RunFacts DEF Sign, UnderWay, Ends, CacheInv, TemporariesRemoved
<1>2. /\ ~Owner(run[s]) /\ run[s].token # Nothing /\ (run[s].cached => run[s].logins = 0)
  BY <1>1 DEF Owner, PathInv
<1>3. Safe(run[s].token)
  BY <1>1, <1>2 DEF KeptInv
<1>4. CASE Goto(s, "connected")
  <2>1. /\ run'[s].pc = "connected" /\ run'[s].origin = run[s].origin
        /\ run'[s].token = run[s].token /\ run'[s].logins = run[s].logins
    BY <1>4, GotoFields, CacheNames, RunFacts
  <2>2. PathInv(run[s])'
    BY <1>1, <1>2, <2>1 DEF PathInv, Working, Ends
  <2> QED
    BY <1>1, <1>3, <1>4, <2>2, CacheNames, MoveStep
<1>5. CASE run' = [run EXCEPT ![s].pc = "revoke",
                              ![s].next = IF run[s].cached THEN "login" ELSE "failed"]
  <2> DEFINE q == IF run[s].cached THEN "login" ELSE "failed"
             n == [run[s] EXCEPT !.pc = "revoke", !.next = q]
  <2>1. run' = [run EXCEPT ![s] = n]
    BY <1>5
  <2>2. q \in {"login", "failed"} /\ (q = "login" => run[s].cached)
    OBVIOUS
  <2> HIDE DEF q
  <2>3. n \in RunRecord
    <3>1. [run[s] EXCEPT !.pc = "revoke"] \in RunRecord
      BY <1>1, CacheNames, RunFieldUpdates
    <3> QED
      BY <2>2, <3>1, RunFieldUpdates
  <2>4. /\ n.pc = "revoke" /\ n.next = q /\ n.origin = run[s].origin
        /\ n.token = run[s].token /\ n.logins = run[s].logins
    BY <1>1 DEF RunRecord
  <2> HIDE DEF n
  <2>5. PathInv(n)
    BY <1>1, <1>2, <2>2, <2>4 DEF PathInv, Working, UnderWay
  <2>6. HomeInv(n) /\ (~overlapped => FileMine(n))
    BY <1>1, <2>4, CacheNames DEF HomeInv, Issued, Working, FileMine
  <2> QED
    BY <1>1, <1>2, <1>3, <2>1, <2>3, <2>4, <2>5, <2>6, CacheNames, RewriteStep
<1>6. CASE Goto(s, "failed")
  BY <1>1, <1>2, <1>6, CacheNames, EndStep
<1> QED
  BY <1>4, <1>5, <1>6 DEF Sign

\* WriteTemporary keeps the invariant.
LEMMA WriteTemporaryStep ==
  ASSUME CacheInv, NEW s \in Runs, WriteTemporary(s)
  PROVE  CacheInv'
<1>1. /\ UnderWay(s) /\ run[s].pc = "save" /\ UNCHANGED <<file, tok, history>>
      /\ Goto(s, "replace") /\ temps' = temps \cup {s}
      /\ PathInv(run[s]) /\ HomeInv(run[s]) /\ (~overlapped => FileMine(run[s]))
  BY RunFacts DEF WriteTemporary, UnderWay, Ends
<1>2. /\ run'[s].pc = "replace" /\ run'[s].origin = run[s].origin
      /\ run'[s].token = run[s].token /\ run'[s].logins = run[s].logins
      /\ run'[s].cached = run[s].cached
  BY <1>1, GotoFields, CacheNames, RunFacts
<1>3. PathInv(run[s])'
  BY <1>1, <1>2 DEF PathInv, Working, Ends
<1>4. Owner(run'[s]) /\ (run[s].token # Nothing => tok[run[s].token].validated)
  BY <1>1, <1>2 DEF Owner, HomeInv
<1> QED
  BY <1>1, <1>3, <1>4, CacheNames, MoveStep

\* The steps with which a run ends, by its own code or by a kill.
LEMMA EndsStep ==
  ASSUME CacheInv, NEW s \in Runs, CannotRun(s) \/ Disconnect(s) \/ SaveFails(s) \/ Crash(s)
  PROVE  CacheInv'
<1>1. CASE CannotRun(s)
  <2>1. UnderWay(s) /\ ~Owner(run[s]) /\ s \notin temps
    BY <1>1 DEF CannotRun, UnderWay, Owner, Ends, CacheInv, TemporariesRemoved
  <2> QED
    BY <1>1, <2>1, CacheNames, EndStep DEF CannotRun
<1>2. CASE Disconnect(s)
  <2>1. UnderWay(s) /\ ~Owner(run[s]) /\ s \notin temps
    BY <1>2 DEF Disconnect, UnderWay, Owner, Ends, CacheInv, TemporariesRemoved
  <2> QED
    BY <1>2, <2>1, CacheNames, EndStep DEF Disconnect
<1>3. CASE SaveFails(s)
  <2>1. UnderWay(s) /\ s \notin temps' /\ temps' \subseteq temps
    BY <1>3 DEF SaveFails, UnderWay, Ends
  <2> QED
    BY <1>3, <2>1, CacheNames, EndStep DEF SaveFails
<1>4. CASE Crash(s)
  BY <1>4, CacheNames, EndStep DEF Crash
<1> QED
  BY <1>1, <1>2, <1>3, <1>4

-----------------------------------------------------------------------------
(* Steps that change the file or the tokens.                               *)

\* Steps of the file: the token that it loses is displaced or purged, or it is dead, or the
\* operator was told.
LEMMA FileStep ==
  ASSUME CacheInv, NEW s \in Runs, UnderWay(s), run' \in [Runs -> RunRecord],
         \A d \in Runs \ {s} : run'[d] = run[d], run'[s].pc \notin {"idle", "load"},
         PathInv(run[s])', HomeInv(run[s])', KeptInv(run[s])', RestTypes', FileInv',
         UNCHANGED <<tok, warned, refused, overlapped>>, purged \subseteq purged',
         Displaces(s), run[s].pc # "load",
         temps' \subseteq temps, s \in temps' => run'[s].pc \in {"replace", "crashed"},
         UnderWay(s)' => FileMine(run[s])',
         \A t \in Tokens : file.kind = "token" /\ file.token = t /\ run[s].token = t => Safe(t)',
         \A t \in Tokens : run[s].token = t /\ Owner(run[s]) =>
           Safe(t)' \/ (run'[s].token = t /\ Owner(run'[s]))
  PROVE  CacheInv'
<1>1. FileInv /\ TokensInv /\ AloneInv /\ (~overlapped => FileMine(run[s])) /\ RestTypes
  BY RunFacts, CacheTypes DEF CacheInv
<1>2. /\ displaced \subseteq displaced' /\ (~overlapped => displaced' = {})
      /\ (file.kind = "token" /\ file.token # run[s].token => file.token \in displaced')
  BY <1>1 DEF Displaces, AloneInv, FileMine
<1>3. TokensStay
  BY DEF TokensStay
<1>4. ASSUME NEW t \in Tokens, Safe(t) PROVE Safe(t)'
  <2>1. CASE file.token = t
    <3>1. file.kind = "token"
      BY <1>1, <2>1, NoneAssumption DEF FileInv
    <3>2. CASE run[s].token = t
      BY <2>1, <3>1, <3>2
    <3>3. CASE run[s].token # t
      BY <1>2, <2>1, <3>1, <3>3 DEF Safe
    <3> QED
      BY <3>2, <3>3
  <2>2. CASE file.token # t
    BY <1>2, <1>4, <2>2 DEF Safe
  <2> QED
    BY <2>1, <2>2
<1>5. \A t \in Tokens : (tok'[t].live => Issued(t)') /\ (~Issued(t) => Safe(t)')
  BY <1>1 DEF TokensInv, Issued, Safe
<1>6. \A t \in Tokens : (run[s].token = t /\ Owner(run[s])) \/ ~Issued(t) =>
        Safe(t)' \/ (run'[s].token = t /\ Owner(run'[s]))
  BY <1>5
<1>7. ~overlapped => displaced' = {} /\ (UnderWay(s)' => FileMine(run[s])')
  BY <1>2
<1>8. /\ temps' \subseteq temps \cup {s} /\ overlapped' = overlapped
      /\ warned \subseteq warned' /\ refused \subseteq refused'
      /\ \A t \in Tokens : Issued(t) /\ Safe(t) => Safe(t)'
  BY <1>4
<1> QED
  BY <1>3, <1>5, <1>6, <1>7, <1>8, CacheStep

\* Purge keeps the invariant.
LEMMA PurgeStep ==
  ASSUME CacheInv, NEW s \in Runs, Purge(s)
  PROVE  CacheInv'
<1> DEFINE n == [run[s] EXCEPT !.pc = "loaded", !.token = Nothing, !.touched = TRUE]
<1>1. /\ UnderWay(s) /\ run[s].pc = "purge" /\ run' = [run EXCEPT ![s] = n]
      /\ file' = NoFile /\ Displaces(s) /\ UNCHANGED <<temps, tok, warned, refused, overlapped>>
      /\ purged' = IF run[s].token = Nothing THEN purged ELSE purged \cup {run[s].token}
      /\ run[s] \in RunRecord /\ PathInv(run[s]) /\ RestTypes /\ s \notin temps /\ FileInv
  BY RunFacts, CacheTypes DEF Purge, UnderWay, Ends, CacheInv, TemporariesRemoved
<1>2. n \in RunRecord
  <2>1. [run[s] EXCEPT !.pc = "loaded"] \in RunRecord
    BY <1>1, CacheNames, RunFieldUpdates
  <2>2. [run[s] EXCEPT !.pc = "loaded", !.token = Nothing] \in RunRecord
    BY <2>1, RunFieldUpdates
  <2> QED
    BY <2>2, RunFieldUpdates
<1>3. /\ n.pc = "loaded" /\ n.token = Nothing /\ n.logins = run[s].logins
      /\ n.origin = run[s].origin
  BY <1>1 DEF RunRecord
<1> HIDE DEF n
<1>4. /\ run' \in [Runs -> RunRecord] /\ run'[s] = n /\ \A d \in Runs \ {s} : run'[d] = run[d]
  BY <1>1, <1>2, RunFacts
<1>5. PathInv(run[s])' /\ HomeInv(run[s])' /\ KeptInv(run[s])' /\ ~Owner(run[s])
  BY <1>1, <1>3, <1>4 DEF PathInv, HomeInv, KeptInv, Working, UnderWay, Owner
<1>6. purged' \subseteq Tokens /\ purged \subseteq purged'
  BY <1>1 DEF RestTypes, RunRecord
<1>7. /\ file' \in [kind : {"none", "malformed", "unsafe", "token"},
                    origin : Origins \cup {Nothing}, token : Tokens \cup {Nothing}]
      /\ FileInv' /\ FileMine(run[s])'
  BY <1>1 DEF NoFile, FileInv, FileMine
<1>8. displaced' \subseteq Tokens
  BY <1>1, NoneAssumption DEF RestTypes, Displaces, FileInv
<1>9. RestTypes'
  BY <1>1, <1>6, <1>7, <1>8 DEF RestTypes
<1>10. ASSUME NEW t \in Tokens, run[s].token = t PROVE Safe(t)'
  BY <1>1, <1>10, NoneAssumption DEF Safe
<1> QED
  BY <1>1, <1>3, <1>4, <1>5, <1>6, <1>7, <1>9, <1>10, FileStep

\* Clear keeps the invariant.
LEMMA ClearStep ==
  ASSUME CacheInv, NEW s \in Runs, Clear(s)
  PROVE  CacheInv'
<1> DEFINE next == run[s].next
           n == IF next = "login"
                THEN [run[s] EXCEPT !.pc = "login", !.token = Nothing, !.touched = TRUE]
                ELSE [NotStarted EXCEPT !.pc = next]
<1>1. /\ UnderWay(s) /\ run[s].pc = "clear" /\ run' = [run EXCEPT ![s] = n]
      /\ file' = NoFile /\ Displaces(s)
      /\ UNCHANGED <<temps, tok, warned, purged, refused, overlapped>>
      /\ run[s] \in RunRecord /\ PathInv(run[s]) /\ KeptInv(run[s]) /\ RestTypes
      /\ s \notin temps /\ FileInv /\ next \in {"ok", "login", "failed"} /\ run[s].token # Nothing
      /\ (next = "login" => run[s].logins = 0)
  BY RunFacts, CacheTypes DEF Clear, UnderWay, Ends, CacheInv, TemporariesRemoved, PathInv
<1>2. /\ n \in RunRecord /\ n.pc \in {"login", "ok", "failed"} /\ n.token = Nothing
      /\ n.logins = 0 /\ (n.pc = "login" => n.origin = run[s].origin)
  <2>1. CASE next = "login"
    <3> DEFINE m == [run[s] EXCEPT !.pc = "login", !.token = Nothing, !.touched = TRUE]
    <3>1. [run[s] EXCEPT !.pc = "login"] \in RunRecord
      BY <1>1, CacheNames, RunFieldUpdates
    <3>2. [run[s] EXCEPT !.pc = "login", !.token = Nothing] \in RunRecord
      BY <3>1, RunFieldUpdates
    <3>3. m \in RunRecord
      BY <3>2, RunFieldUpdates
    <3>4. m.pc = "login" /\ m.token = Nothing /\ m.logins = run[s].logins
            /\ m.origin = run[s].origin
      BY <1>1 DEF RunRecord
    <3>5. n = m
      BY <2>1
    <3> HIDE DEF m, n
    <3> QED
      BY <1>1, <2>1, <3>3, <3>4, <3>5
  <2>2. CASE next # "login"
    <3> DEFINE m == [NotStarted EXCEPT !.pc = next]
    <3>1. NotStarted \in RunRecord
      BY DEF NotStarted, RunRecord, Pcs
    <3>2. m \in RunRecord
      BY <1>1, <3>1, CacheNames, RunFieldUpdates
    <3>3. m.pc = next /\ m.token = Nothing /\ m.logins = 0
      BY DEF NotStarted
    <3>4. n = m
      BY <2>2
    <3> HIDE DEF m, n
    <3> QED
      BY <1>1, <2>2, <3>2, <3>3, <3>4
  <2> QED
    BY <2>1, <2>2
<1> HIDE DEF n, next
<1>3. /\ run' \in [Runs -> RunRecord] /\ run'[s] = n /\ \A d \in Runs \ {s} : run'[d] = run[d]
  BY <1>1, <1>2, RunFacts
<1>4. PathInv(run[s])' /\ HomeInv(run[s])' /\ KeptInv(run[s])' /\ ~Owner(run[s])
  BY <1>1, <1>2, <1>3, CacheNames DEF PathInv, HomeInv, KeptInv, Working, UnderWay, Owner
<1>5. /\ file' \in [kind : {"none", "malformed", "unsafe", "token"},
                    origin : Origins \cup {Nothing}, token : Tokens \cup {Nothing}]
      /\ FileInv' /\ FileMine(run[s])'
  BY <1>1 DEF NoFile, FileInv, FileMine
<1>6. displaced' \subseteq Tokens
  BY <1>1, NoneAssumption DEF RestTypes, Displaces, FileInv
<1>7. RestTypes' /\ purged \subseteq purged'
  BY <1>1, <1>5, <1>6 DEF RestTypes
<1>8. ASSUME NEW t \in Tokens, run[s].token = t PROVE Safe(t)'
  BY <1>1, <1>8 DEF Safe, KeptInv
<1>9. run'[s].pc \notin {"idle", "load"} /\ temps' \subseteq temps /\ s \notin temps'
  BY <1>1, <1>2, <1>3
<1> QED
  BY <1>1, <1>3, <1>4, <1>5, <1>7, <1>8, <1>9, FileStep

\* Replace keeps the invariant.
LEMMA ReplaceStep ==
  ASSUME CacheInv, NEW s \in Runs, Replace(s)
  PROVE  CacheInv'
<1>1. /\ UnderWay(s) /\ run[s].pc = "replace" /\ Displaces(s) /\ temps' = temps \ {s}
      /\ file' = [kind |-> "token", origin |-> run[s].origin, token |-> run[s].token]
      /\ UNCHANGED <<tok, warned, purged, refused, overlapped>>
      /\ run[s] \in RunRecord /\ PathInv(run[s]) /\ HomeInv(run[s]) /\ RestTypes /\ FileInv
      /\ run[s].token \in Tokens /\ run[s].token # Nothing
  BY RunFacts, CacheTypes DEF Replace, UnderWay, Ends, CacheInv, PathInv
<1>2. /\ run[s].origin \in Origins /\ ~run[s].cached /\ run[s].logins <= 1
      /\ tok[run[s].token].validated /\ tok[run[s].token].origin = run[s].origin
  BY <1>1 DEF PathInv, HomeInv, Working, UnderWay
<1>3. /\ file' \in [kind : {"none", "malformed", "unsafe", "token"},
                    origin : Origins \cup {Nothing}, token : Tokens \cup {Nothing}]
      /\ FileInv' /\ file'.token = run[s].token /\ file'.kind = "token"
  BY <1>1, <1>2 DEF FileInv, CachedWasValidated
<1>4. displaced' \subseteq Tokens
  BY <1>1, NoneAssumption DEF RestTypes, Displaces, FileInv
<1>5. RestTypes' /\ purged \subseteq purged' /\ s \notin temps' /\ temps' \subseteq temps
  BY <1>1, <1>3, <1>4 DEF RestTypes
<1>6. \A t \in Tokens : run[s].token = t => Safe(t)'
  BY <1>3 DEF Safe
<1>7. CASE run' = [run EXCEPT ![s].pc = "sign", ![s].touched = TRUE]
  <2> DEFINE n == [run[s] EXCEPT !.pc = "sign", !.touched = TRUE]
  <2>1. run' = [run EXCEPT ![s] = n]
    BY <1>7
  <2>2. n \in RunRecord
    <3>1. [run[s] EXCEPT !.pc = "sign"] \in RunRecord
      BY <1>1, CacheNames, RunFieldUpdates
    <3> QED
      BY <3>1, RunFieldUpdates
  <2>3. /\ n.pc = "sign" /\ n.origin = run[s].origin /\ n.token = run[s].token
        /\ n.logins = run[s].logins /\ n.cached = run[s].cached
    BY <1>1 DEF RunRecord
  <2> HIDE DEF n
  <2>4. /\ run' \in [Runs -> RunRecord] /\ run'[s] = n
        /\ \A d \in Runs \ {s} : run'[d] = run[d]
    BY <2>1, <2>2, RunFacts
  <2>5. PathInv(run[s])' /\ HomeInv(run[s])'
    BY <1>1, <1>2, <2>3, <2>4 DEF PathInv, HomeInv, Working, Issued
  <2>6. KeptInv(run[s])' /\ FileMine(run[s])'
    BY <1>1, <1>3, <2>3, <2>4 DEF KeptInv, FileMine, Safe
  <2>7. run'[s].pc \notin {"idle", "load"}
    BY <2>3, <2>4
  <2> QED
    BY <1>1, <1>3, <1>5, <1>6, <2>4, <2>5, <2>6, <2>7, FileStep
<1>8. CASE Goto(s, "save_failed")
  <2>1. /\ run' \in [Runs -> RunRecord] /\ \A d \in Runs \ {s} : run'[d] = run[d]
        /\ run'[s].pc = "save_failed" /\ run'[s].logins = 0 /\ run'[s].token = run[s].token
    BY <1>8, GotoFields, CacheNames, RunFacts
  <2>2. PathInv(run[s])' /\ HomeInv(run[s])'
    BY <1>1, <1>2, <2>1, CacheNames DEF PathInv, HomeInv, Working, Issued
  <2>3. KeptInv(run[s])' /\ Owner(run'[s]) /\ ~UnderWay(s)'
    BY <2>1, CacheNames DEF Owner, KeptInv, UnderWay
  <2>4. run'[s].pc \notin {"idle", "load"}
    BY <2>1
  <2> QED
    BY <1>1, <1>3, <1>5, <1>6, <2>1, <2>2, <2>3, <2>4, FileStep
<1> QED
  BY <1>7, <1>8 DEF Replace

\* A request to revoke a token changes nothing of it but that it may be dead now, and either
\* it is, or the operator is told.
RevokeDone(t) ==
  /\ tok' \in [Tokens -> [origin : Origins \cup {Nothing}, live : BOOLEAN,
                          contract : BOOLEAN, validated : BOOLEAN]]
  /\ warned \subseteq warned' /\ warned' \subseteq Tokens
  /\ ~tok'[t].live \/ t \in warned'
  /\ \A u \in Tokens : /\ tok'[u].origin = tok[u].origin
                       /\ tok[u].validated => tok'[u].validated
                       /\ tok'[u].live => tok[u].live

\* A revocation ends a token or warns of it, and brings none to life.
LEMMA RevokeFacts ==
  ASSUME RestTypes, NEW t \in Tokens, RevokeOutcome(t)
  PROVE  RevokeDone(t)
<1>1. tok[t] \in [origin : Origins \cup {Nothing}, live : BOOLEAN,
                  contract : BOOLEAN, validated : BOOLEAN]
  BY DEF RestTypes
<1>2. CASE tok[t].live /\ tok' = [tok EXCEPT ![t].live = FALSE] /\ UNCHANGED warned
  BY <1>1, <1>2 DEF RestTypes, RevokeDone
<1>3. ASSUME NEW live \in {FALSE, tok[t].live}, tok' = [tok EXCEPT ![t].live = live],
             warned' = warned \cup {t}
      PROVE  RevokeDone(t)
  <2>1. live \in BOOLEAN /\ (live => tok[t].live)
    BY <1>1
  <2> QED
    BY <1>1, <1>3, <2>1 DEF RestTypes, RevokeDone
<1> QED
  BY <1>2, <1>3 DEF RevokeOutcome

\* A run revokes its token and then clears the cache, or gives up.
LEMMA RevokingStep ==
  ASSUME CacheInv, NEW s \in Runs, NEW p \in {"clear", "failed"}, Goto(s, p),
         run[s].pc = IF p = "clear" THEN "revoke" ELSE "revoke_new",
         RevokeOutcome(run[s].token),
         UNCHANGED <<file, temps, purged, refused, displaced, overlapped>>
  PROVE  CacheInv'
<1>1. /\ UnderWay(s) /\ PathInv(run[s]) /\ HomeInv(run[s]) /\ KeptInv(run[s]) /\ RestTypes
      /\ (~overlapped => FileMine(run[s])) /\ s \notin temps /\ FileInv /\ TokensInv /\ AloneInv
  BY RunFacts, CacheTypes DEF UnderWay, Ends, CacheInv, TemporariesRemoved
<1>2. run[s].token # Nothing /\ run[s].token \in Tokens
  BY <1>1, RunFacts DEF PathInv
<1>3. RevokeDone(run[s].token)
  BY <1>1, <1>2, RevokeFacts
<1>4. /\ run' \in [Runs -> RunRecord] /\ \A d \in Runs \ {s} : run'[d] = run[d]
      /\ run'[s].pc = p
      /\ p = "clear" =>
           /\ run'[s].origin = run[s].origin /\ run'[s].token = run[s].token
           /\ run'[s].logins = run[s].logins /\ run'[s].next = run[s].next
      /\ p = "failed" => run'[s].token = Nothing /\ run'[s].logins = 0
  BY GotoFields, CacheNames, RunFacts
<1>5. PathInv(run[s])'
  BY <1>1, <1>4, CacheNames DEF PathInv, Working, UnderWay
<1>6. HomeInv(run[s])'
  BY <1>1, <1>2, <1>3, <1>4, CacheNames DEF HomeInv, RevokeDone, Issued, Working
<1>7. \A t \in Tokens : run[s].token = t => Safe(t)' /\ (~tok'[t].live \/ t \in warned')
  BY <1>3 DEF Safe, RevokeDone
<1>8. KeptInv(run[s])'
  BY <1>2, <1>4, <1>7 DEF KeptInv
<1>9. RestTypes'
  BY <1>1, <1>3 DEF RestTypes, RevokeDone
<1>10. FileInv' /\ TokensStay
  BY <1>1, <1>3 DEF FileInv, CachedWasValidated, TokensStay, RevokeDone
<1>11. \A t \in Tokens : /\ Safe(t) => Safe(t)'
                         /\ ~Issued(t) => Safe(t)'
                         /\ tok'[t].live => Issued(t)'
  BY <1>1, <1>3 DEF Safe, TokensInv, RevokeDone, Issued
<1>12. ~overlapped => displaced' = {} /\ (UnderWay(s)' => FileMine(run[s])')
  BY <1>1, <1>4, CacheNames DEF AloneInv, FileMine, UnderWay
<1>13. /\ run'[s].pc \notin {"idle", "load"} /\ temps' \subseteq temps \cup {s}
       /\ s \notin temps' /\ overlapped' = overlapped /\ warned \subseteq warned'
       /\ refused \subseteq refused'
  BY <1>1, <1>3, <1>4 DEF RevokeDone
<1> QED
  BY <1>1, <1>4, <1>5, <1>6, <1>7, <1>8, <1>9, <1>10, <1>11, <1>12, <1>13, CacheStep

\* Revoke and RevokeNew keep the invariant.
LEMMA RevokeStep ==
  ASSUME CacheInv, NEW s \in Runs, Revoke(s) \/ RevokeNew(s)
  PROVE  CacheInv'
BY RevokingStep DEF Revoke, RevokeNew

\* A login obtains a token that was not issued before, which the run keeps to itself.
LEMMA LoginStep ==
  ASSUME CacheInv, NEW s \in Runs, Login(s)
  PROVE  CacheInv'
<1>1. /\ UnderWay(s) /\ run[s].pc = "login" /\ UNCHANGED <<file, temps, history>>
      /\ run[s] \in RunRecord /\ PathInv(run[s]) /\ (~overlapped => FileMine(run[s]))
      /\ RestTypes /\ s \notin temps /\ FileInv /\ TokensInv /\ AloneInv
  BY RunFacts, CacheTypes DEF Login, UnderWay, Ends, CacheInv, TemporariesRemoved
<1>2. /\ ~Owner(run[s]) /\ run[s].token = Nothing /\ run[s].logins = 0
      /\ run[s].origin \in Origins
  BY <1>1 DEF PathInv, Owner, Working, UnderWay
<1>3. CASE Goto(s, "failed") /\ UNCHANGED tok
  BY <1>1, <1>2, <1>3, CacheNames, EndStep
<1>4. ASSUME NEW t \in Tokens, Issues(t, run[s].origin),
             NEW n \in RunRecord, run' = [run EXCEPT ![s] = n], n.token = t,
             \/ n.pc = "lookup_new" /\ n.origin = run[s].origin /\ n.logins = 1 /\ ~n.cached
             \/ n.pc = "login_failed" /\ n.logins = 0
      PROVE  CacheInv'
  <2>4. /\ run' \in [Runs -> RunRecord] /\ run'[s] = n
        /\ \A d \in Runs \ {s} : run'[d] = run[d]
    BY <1>4, RunFacts
  <2>5. /\ tok' \in [Tokens -> [origin : Origins \cup {Nothing}, live : BOOLEAN,
                                contract : BOOLEAN, validated : BOOLEAN]]
        /\ tok'[t].origin = run[s].origin /\ \A u \in Tokens \ {t} : tok'[u] = tok[u]
    BY <1>1, <1>2, <1>4 DEF RestTypes, Issues
  <2>6. ~Issued(t) /\ ~tok[t].validated
    BY <1>4, NoneAssumption DEF Issued, Issues, NotIssued
  <2>7. UNCHANGED <<file, warned, purged, refused, displaced, overlapped>> /\ temps' = temps
    BY <1>1 DEF history
  <2>8. PathInv(run[s])' /\ HomeInv(run[s])' /\ KeptInv(run[s])' /\ Owner(run'[s])
    BY <1>2, <1>4, <2>4, <2>5, NoneAssumption
       DEF PathInv, HomeInv, KeptInv, Working, Ends, Owner, Issued
  <2>9. FileInv' /\ TokensStay
    BY <1>1, <2>5, <2>6, <2>7 DEF FileInv, CachedWasValidated, TokensStay
  <2>10. RestTypes'
    BY <1>1, <2>5, <2>7 DEF RestTypes
  <2>11. ASSUME NEW u \in Tokens
         PROVE  /\ Issued(u) /\ Safe(u) => Safe(u)'
                /\ ~Issued(u) => Safe(u)' \/ (run'[s].token = u /\ Owner(run'[s]))
                /\ tok'[u].live => Issued(u)'
    <3>1. CASE u = t
      BY <1>2, <1>4, <2>4, <2>5, <2>6, <2>8, <3>1 DEF Issued
    <3>2. CASE u # t
      BY <1>1, <2>5, <2>7, <3>2 DEF Safe, Issued, TokensInv
    <3> QED
      BY <3>1, <3>2
  <2>12. ~overlapped => displaced' = {} /\ FileMine(run[s])'
    <3>1. file.kind = "token" => file.token # Nothing
      BY <1>1, NoneAssumption DEF FileInv
    <3> QED
      BY <1>1, <1>2, <2>7, <3>1 DEF AloneInv, FileMine
  <2>13. run'[s].pc \notin {"idle", "load"} /\ s \notin temps' /\ temps' \subseteq temps \cup {s}
    BY <1>1, <1>4, <2>4, <2>7
  <2> QED
    BY <1>1, <1>2, <2>4, <2>7, <2>8, <2>9, <2>10, <2>11, <2>12, <2>13, CacheStep
<1>5. ASSUME NEW t \in Tokens, Issues(t, run[s].origin),
             run' = [run EXCEPT ![s].pc = "lookup_new", ![s].token = t,
                                ![s].cached = FALSE, ![s].logins = @ + 1]
      PROVE  CacheInv'
  <2> DEFINE n == [run[s] EXCEPT !.pc = "lookup_new", !.token = t, !.cached = FALSE,
                                 !.logins = run[s].logins + 1]
  <2>1. run' = [run EXCEPT ![s] = n]
    BY <1>5
  <2>2. n \in RunRecord
    <3>1. [run[s] EXCEPT !.pc = "lookup_new"] \in RunRecord
      BY <1>1, CacheNames, RunFieldUpdates
    <3>2. [run[s] EXCEPT !.pc = "lookup_new", !.token = t] \in RunRecord
      BY <3>1, RunFieldUpdates
    <3>3. [run[s] EXCEPT !.pc = "lookup_new", !.token = t, !.cached = FALSE] \in RunRecord
      BY <3>2, RunFieldUpdates
    <3>4. run[s].logins + 1 \in Nat
      BY <1>2
    <3> QED
      BY <3>3, <3>4, RunFieldUpdates
  <2>3. /\ n.pc = "lookup_new" /\ n.origin = run[s].origin /\ n.token = t
        /\ n.logins = 1 /\ ~n.cached
    BY <1>1, <1>2 DEF RunRecord
  <2> HIDE DEF n
  <2> QED
    BY <1>4, <1>5, <2>1, <2>2, <2>3
<1>6. ASSUME NEW t \in Tokens, Issues(t, run[s].origin),
             run' = [run EXCEPT ![s] = [NotStarted EXCEPT !.pc = "login_failed", !.token = t]]
      PROVE  CacheInv'
  <2> DEFINE n == [NotStarted EXCEPT !.pc = "login_failed", !.token = t]
  <2>1. n \in RunRecord
    <3>1. NotStarted \in RunRecord
      BY DEF NotStarted, RunRecord, Pcs
    <3>2. [NotStarted EXCEPT !.pc = "login_failed"] \in RunRecord
      BY <3>1, CacheNames, RunFieldUpdates
    <3> QED
      BY <3>2, RunFieldUpdates
  <2>2. n.pc = "login_failed" /\ n.logins = 0 /\ n.token = t
    BY DEF NotStarted
  <2>3. run' = [run EXCEPT ![s] = n]
    BY <1>6
  <2> HIDE DEF n
  <2> QED
    BY <1>4, <1>6, <2>1, <2>2, <2>3
<1> QED
  BY <1>3, <1>5, <1>6 DEF Login

\* LookupNew keeps the invariant.
LEMMA LookupNewStep ==
  ASSUME CacheInv, NEW s \in Runs, LookupNew(s)
  PROVE  CacheInv'
<1>1. /\ UnderWay(s) /\ run[s].pc = "lookup_new" /\ UNCHANGED <<file, temps, history>>
      /\ run[s] \in RunRecord /\ PathInv(run[s]) /\ HomeInv(run[s]) /\ KeptInv(run[s])
      /\ (~overlapped => FileMine(run[s])) /\ RestTypes /\ s \notin temps /\ FileInv
      /\ TokensInv /\ AloneInv
  BY RunFacts, CacheTypes DEF LookupNew, UnderWay, Ends, CacheInv, TemporariesRemoved
<1>2. run[s].token # Nothing /\ run[s].token \in Tokens /\ Owner(run[s]) /\ ~run[s].cached
  BY <1>1, RunFacts DEF PathInv, Owner
<1>3. ASSUME NEW p \in {"save", "revoke_new"}, Goto(s, p)
      PROVE  /\ run' \in [Runs -> RunRecord] /\ \A d \in Runs \ {s} : run'[d] = run[d]
             /\ run'[s].pc = p /\ run'[s].token = run[s].token /\ Owner(run'[s])
             /\ run'[s].origin = run[s].origin /\ PathInv(run[s])'
  <2>1. /\ run' \in [Runs -> RunRecord] /\ \A d \in Runs \ {s} : run'[d] = run[d]
        /\ run'[s].pc = p /\ run'[s].token = run[s].token
        /\ run'[s].origin = run[s].origin /\ run'[s].logins = run[s].logins
        /\ run'[s].cached = run[s].cached
    BY <1>3, GotoFields, CacheNames, RunFacts
  <2> QED
    BY <1>1, <1>2, <2>1 DEF PathInv, Working, UnderWay, Owner
<1>4. CASE Goto(s, "revoke_new") /\ UNCHANGED tok
  <2>1. PathInv(run[s])' /\ Owner(run'[s])
    BY <1>3, <1>4
  <2> QED
    BY <1>1, <1>4, <2>1, CacheNames, MoveStep
<1>5. CASE Goto(s, "save") /\ tok' = [tok EXCEPT ![run[s].token].validated = TRUE]
  <2> DEFINE t == run[s].token
  <2>1. /\ run' \in [Runs -> RunRecord] /\ \A d \in Runs \ {s} : run'[d] = run[d]
        /\ run'[s].pc = "save" /\ run'[s].token = t /\ Owner(run'[s])
        /\ run'[s].origin = run[s].origin /\ PathInv(run[s])'
    BY <1>3, <1>5
  <2>2. /\ tok' \in [Tokens -> [origin : Origins \cup {Nothing}, live : BOOLEAN,
                                contract : BOOLEAN, validated : BOOLEAN]]
        /\ tok'[t].validated
        /\ \A u \in Tokens : /\ tok'[u].origin = tok[u].origin /\ tok'[u].live = tok[u].live
                             /\ tok[u].validated => tok'[u].validated
    BY <1>1, <1>2, <1>5 DEF RestTypes
  <2>3. UNCHANGED <<file, warned, purged, refused, displaced, overlapped>> /\ temps' = temps
    BY <1>1 DEF history
  <2>4. HomeInv(run[s])' /\ KeptInv(run[s])'
    BY <1>1, <1>2, <2>1, <2>2 DEF HomeInv, KeptInv, Issued, Working, UnderWay
  <2>5. FileInv' /\ TokensStay
    BY <1>1, <2>2, <2>3 DEF FileInv, CachedWasValidated, TokensStay
  <2>6. RestTypes'
    BY <1>1, <2>2, <2>3 DEF RestTypes
  <2>7. \A u \in Tokens : /\ Safe(u) => Safe(u)'
                          /\ ~Issued(u) => Safe(u)'
                          /\ tok'[u].live => Issued(u)'
    BY <1>1, <2>2, <2>3 DEF Safe, TokensInv, Issued
  <2>8. ~overlapped => displaced' = {} /\ FileMine(run[s])'
    BY <1>1, <2>1, <2>3 DEF AloneInv, FileMine
  <2>9. run'[s].pc \notin {"idle", "load"} /\ s \notin temps' /\ temps' \subseteq temps \cup {s}
    BY <1>1, <2>1, <2>3
  <2> HIDE DEF t
  <2>10. \A u \in Tokens : run[s].token = u => run'[s].token = u /\ Owner(run'[s])
    BY <2>1 DEF t
  <2> QED
    BY <1>1, <2>1, <2>3, <2>4, <2>5, <2>6, <2>7, <2>8, <2>9, <2>10, CacheStep
<1> QED
  BY <1>4, <1>5 DEF LookupNew

\* A run begins: if no other is under way, it finds the file as the last one left it.
LEMMA StartStep ==
  ASSUME CacheInv, NEW s \in Runs, Start(s)
  PROVE  CacheInv'
<1>1. /\ run[s].pc = "idle" /\ UNCHANGED <<file, temps, tok, warned, purged, refused, displaced>>
      /\ overlapped' = (overlapped \/ \E r \in Runs : UnderWay(r))
      /\ run[s] \in RunRecord /\ PathInv(run[s]) /\ RestTypes /\ FileInv /\ TokensInv /\ AloneInv
      /\ s \notin temps
  BY RunFacts, CacheTypes DEF Start, CacheInv, TemporariesRemoved
<1>2. run[s].token = Nothing /\ run[s].logins = 0 /\ ~run[s].touched
  BY <1>1 DEF PathInv
<1>3. PICK mode \in {"session", "reauth", "logout"}, o \in Origins :
        run' = [run EXCEPT ![s].pc = "load", ![s].mode = mode, ![s].origin = o]
  BY DEF Start
<1> DEFINE n == [run[s] EXCEPT !.pc = "load", !.mode = mode, !.origin = o]
<1>4. run' = [run EXCEPT ![s] = n]
  BY <1>3
<1>5. n \in RunRecord
  <2>1. [run[s] EXCEPT !.pc = "load"] \in RunRecord
    BY <1>1, CacheNames, RunFieldUpdates
  <2>2. [run[s] EXCEPT !.pc = "load", !.mode = mode] \in RunRecord
    BY <2>1, RunFieldUpdates
  <2> QED
    BY <2>2, RunFieldUpdates
<1>6. /\ n.pc = "load" /\ n.origin = o /\ n.token = Nothing /\ n.logins = 0
      /\ ~n.touched
  BY <1>1, <1>2 DEF RunRecord
<1> HIDE DEF n
<1>7. /\ run' \in [Runs -> RunRecord] /\ run'[s] = n /\ \A d \in Runs \ {s} : run'[d] = run[d]
  BY <1>4, <1>5, RunFacts
<1>8. overlapped' \in BOOLEAN /\ (~overlapped' => ~overlapped /\ \A r \in Runs : ~UnderWay(r))
  BY <1>1 DEF RestTypes
<1>9. CacheTypeOK' /\ FileInv'
  <2>1. RestTypes'
    BY <1>1, <1>8 DEF RestTypes
  <2> QED
    BY <1>1, <1>7, <2>1 DEF CacheTypeOK, RunRecord, RestTypes, Pcs, FileInv, CachedWasValidated
<1>10. TokensInv'
  <2>1. \A t \in Tokens : (Safe(t)' <=> Safe(t)) /\ (Issued(t)' <=> Issued(t))
    BY <1>1 DEF Safe, Issued
  <2>2. ASSUME NEW r \in Runs, Owner(run[r]) PROVE run'[r] = run[r]
    BY <1>1, <1>7, <2>2 DEF Owner
  <2> QED
    BY <1>1, <2>1, <2>2 DEF TokensInv
<1>11. AloneInv'
  <2>1. ASSUME ~overlapped', NEW r \in Runs, UnderWay(r)' PROVE r = s
    BY <1>7, <1>8, <2>1 DEF UnderWay
  <2>2. ~overlapped' => displaced' = {}
    BY <1>1, <1>8 DEF AloneInv
  <2>3. run'[s].pc = "load"
    BY <1>6, <1>7
  <2> QED
    BY <2>1, <2>2, <2>3 DEF AloneInv
<1>12. TemporariesRemoved'
  BY <1>1, <1>7 DEF CacheInv, TemporariesRemoved, RestTypes
<1>13. ASSUME NEW d \in Runs PROVE PathInv(run[d])' /\ HomeInv(run[d])' /\ KeptInv(run[d])'
  <2>1. CASE d = s
    BY <1>6, <1>7, <2>1 DEF PathInv, HomeInv, KeptInv, Working
  <2>2. CASE d # s
    <3>1. PathInv(run[d]) /\ HomeInv(run[d]) /\ KeptInv(run[d]) /\ run'[d] = run[d]
      BY <1>7, <2>2, RunFacts
    <3> QED
      BY <1>1, <3>1 DEF PathInv, HomeInv, KeptInv, Working, Issued, Safe, Owner
  <2> QED
    BY <2>1, <2>2
<1> QED
  BY <1>9, <1>10, <1>11, <1>12, <1>13 DEF CacheInv

\* A token expires or changes at its server: it does not come to life.
LEMMA AgeStep ==
  ASSUME CacheInv, NEW t \in Tokens, Age(t)
  PROVE  CacheInv'
<1>1. /\ UNCHANGED <<file, temps, run, warned, purged, refused, displaced, overlapped>>
      /\ RestTypes /\ FileInv /\ TokensInv
  BY CacheTypes DEF Age, CacheInv, history
<1>2. /\ tok' \in [Tokens -> [origin : Origins \cup {Nothing}, live : BOOLEAN,
                              contract : BOOLEAN, validated : BOOLEAN]]
      /\ \A u \in Tokens : /\ tok'[u].origin = tok[u].origin
                           /\ tok'[u].validated = tok[u].validated
                           /\ tok'[u].live => tok[u].live
  <2>1. tok[t] \in [origin : Origins \cup {Nothing}, live : BOOLEAN,
                    contract : BOOLEAN, validated : BOOLEAN]
    BY <1>1 DEF RestTypes
  <2>2. CASE tok' = [tok EXCEPT ![t].live = FALSE]
    BY <1>1, <2>1, <2>2 DEF RestTypes
  <2>3. CASE tok' = [tok EXCEPT ![t].contract = FALSE]
    BY <1>1, <2>1, <2>3 DEF RestTypes
  <2> QED
    BY <2>2, <2>3 DEF Age
<1>3. CacheTypeOK' /\ FileInv' /\ TemporariesRemoved' /\ AloneInv'
  <2>1. CacheTypeOK'
    BY <1>1, <1>2 DEF CacheInv, CacheTypeOK
  <2>2. FileInv'
    BY <1>1, <1>2 DEF FileInv, CachedWasValidated
  <2>3. TemporariesRemoved'
    BY <1>1 DEF CacheInv, TemporariesRemoved
  <2>4. AloneInv'
    BY <1>1 DEF CacheInv, AloneInv, UnderWay, FileMine
  <2> QED
    BY <2>1, <2>2, <2>3, <2>4
<1>4. TokensInv'
  BY <1>1, <1>2 DEF TokensInv, Safe, Issued, Owner
<1>5. ASSUME NEW d \in Runs PROVE PathInv(run[d])' /\ HomeInv(run[d])' /\ KeptInv(run[d])'
  <2>1. PathInv(run[d]) /\ HomeInv(run[d]) /\ KeptInv(run[d]) /\ run'[d] = run[d]
    BY <1>1, RunFacts
  <2>2. run[d].token # Nothing => run[d].token \in Tokens
    BY RunFacts
  <2> QED
    BY <1>1, <1>2, <2>1, <2>2 DEF PathInv, HomeInv, KeptInv, Working, Issued, Safe, Owner
<1> QED
  BY <1>3, <1>4, <1>5 DEF CacheInv

-----------------------------------------------------------------------------
(* The behaviours of the cache.                                            *)

\* No run has begun, the file holds a token of its server or none.
LEMMA CacheBegins == CacheInit => CacheInv
<1> SUFFICES ASSUME CacheInit PROVE CacheInv
  OBVIOUS
<1>1. NotStarted \in RunRecord /\ \A s \in Runs : run[s] = NotStarted
  BY DEF CacheInit, NotStarted, RunRecord, Pcs
<1>2. /\ NotStarted.pc = "idle" /\ NotStarted.token = Nothing /\ NotStarted.logins = 0
      /\ ~NotStarted.touched
  BY DEF NotStarted
<1>3. /\ NotIssued \in [origin : Origins \cup {Nothing}, live : BOOLEAN,
                        contract : BOOLEAN, validated : BOOLEAN]
      /\ ~NotIssued.live /\ \A t \in Tokens : tok[t] = NotIssued
  BY DEF NotIssued, CacheInit
<1>4. CacheTypeOK
  <2>1. file \in [kind : {"none", "malformed", "unsafe", "token"},
                  origin : Origins \cup {Nothing}, token : Tokens \cup {Nothing}]
    BY DEF CacheInit
  <2>2. run \in [Runs -> RunRecord]
    BY <1>1 DEF CacheInit
  <2>3. RestTypes
    BY <1>3, <2>1 DEF CacheInit, RestTypes
  <2> QED
    BY <2>2, <2>3, CacheTypes
<1>5. FileInv /\ TokensInv /\ TemporariesRemoved
  BY <1>3 DEF CacheInit, FileInv, TokensInv, Safe, TemporariesRemoved
<1>6. AloneInv
  BY <1>1, <1>2 DEF CacheInit, AloneInv, UnderWay
<1>7. \A s \in Runs : PathInv(run[s]) /\ HomeInv(run[s]) /\ KeptInv(run[s])
  BY <1>1, <1>2 DEF PathInv, HomeInv, KeptInv, Working
<1> QED
  BY <1>4, <1>5, <1>6, <1>7 DEF CacheInv

\* Every step of the runs, the server and the clock keeps the invariant.
LEMMA CacheMoves == CacheInv /\ [CacheNext]_vars => CacheInv'
<1> SUFFICES ASSUME CacheInv, [CacheNext]_vars PROVE CacheInv'
  OBVIOUS
<1>1. ASSUME NEW s \in Runs, RunStep(s) PROVE CacheInv'
  <2>1. CASE Load(s) \/ Purge(s) \/ Dispatch(s) \/ Lookup(s) \/ Clear(s)
    BY <2>1, LoadStep, PurgeStep, DispatchStep, LookupStep, ClearStep
  <2>2. CASE Revoke(s) \/ RevokeNew(s) \/ Login(s) \/ LookupNew(s)
    BY <2>2, RevokeStep, LoginStep, LookupNewStep
  <2>3. CASE WriteTemporary(s) \/ Replace(s) \/ Sign(s)
    BY <2>3, WriteTemporaryStep, ReplaceStep, SignStep
  <2>4. CASE CannotRun(s) \/ SaveFails(s) \/ Disconnect(s)
    BY <2>4, EndsStep
  <2> QED
    BY <1>1, <2>1, <2>2, <2>3, <2>4 DEF RunStep
<1>2. CASE UNCHANGED vars
  <2>1. UNCHANGED <<file, temps, tok, run, warned, purged, refused, displaced, overlapped>>
    BY <1>2 DEF vars
  <2>2. CacheTypeOK' /\ FileInv' /\ TemporariesRemoved' /\ AloneInv' /\ TokensInv'
    BY <2>1 DEF CacheInv, CacheTypeOK, FileInv, CachedWasValidated, TemporariesRemoved,
                AloneInv, UnderWay, FileMine, TokensInv, Safe, Issued, Owner
  <2>3. \A s \in Runs : PathInv(run[s])' /\ HomeInv(run[s])' /\ KeptInv(run[s])'
    BY <2>1 DEF CacheInv, PathInv, HomeInv, KeptInv, Working, Issued, Safe, Owner
  <2> QED
    BY <2>2, <2>3 DEF CacheInv
<1> QED
  BY <1>1, <1>2, StartStep, EndsStep, AgeStep DEF CacheNext

\* However the runs on a machine overlap, fail or are killed, the token in the cache was
\* confirmed and is filed under its issuer, and no run offers one to another server
\* (token_cache.py load and save, ssh_homelab.py run()).
THEOREM CachedTokensHold == CacheSpec => []CachedTokensGood
<1>1. CacheInv => CachedTokensGood
  <2> SUFFICES ASSUME CacheInv PROVE CachedTokensGood
    OBVIOUS
  <2>1. CachedWasValidated
    BY DEF CacheInv, FileInv, CachedWasValidated
  <2>2. ASSUME NEW s \in Runs,
               run[s].pc \in {"lookup", "revoke", "lookup_new", "revoke_new", "sign"}
        PROVE  tok[run[s].token].origin = run[s].origin
    BY <2>2, RunFacts DEF HomeInv, PathInv, Working, Ends
  <2> QED
    BY <2>1, <2>2 DEF CachedTokensGood, TokenStaysHome
<1> QED
  BY <1>1, CacheBegins, CacheMoves, PTL DEF CacheSpec

\* Whatever the runs do: a token that is still valid is in the cache, or with the run that has
\* it or died with it, or the operator was warned, or it was filed under another server, or a
\* lookup took it to be rejected (ssh_homelab.py:118-132), or a run that overlapped took it
\* away; runs that do not overlap take nothing from each other; an undecided lookup leaves the
\* cache as it was; and a temporary file outlives only a kill.
THEOREM TokensAccountedHold == CacheSpec => []TokensAccounted
<1>1. CacheInv => TokensAccounted
  <2> SUFFICES ASSUME CacheInv PROVE TokensAccounted
    OBVIOUS
  <2>1. ASSUME NEW t \in Tokens, tok[t].live
        PROVE  file.token = t \/ Held(t) \/ t \in warned \cup purged \cup refused \cup displaced
    <3>1. ASSUME NEW s \in Runs, run[s].token = t, Owner(run[s]) PROVE Held(t)
      BY <3>1 DEF Owner, Held, UnderWay, Ends, Abandons
    <3> QED
      BY <2>1, <3>1 DEF CacheInv, TokensInv, Safe
  <2>2. OnlyOverlapDisplaces /\ TemporariesRemoved
    BY DEF CacheInv, AloneInv, OnlyOverlapDisplaces
  <2>3. IndeterminateKeepsCache
    BY DEF CacheInv, PathInv, IndeterminateKeepsCache
  <2> QED
    BY <2>1, <2>2, <2>3 DEF TokensAccounted, NoTokenLostSilently
<1> QED
  BY <1>1, CacheBegins, CacheMoves, PTL DEF CacheSpec

\* However often its token is refused, no run opens the browser twice: the retry is for a
\* token of the cache, and a new login does not make one (ssh_homelab.py run()).
THEOREM OneLoginHolds == CacheSpec => []OneLogin
<1>1. CacheInv => OneLogin
  BY DEF CacheInv, PathInv, OneLogin
<1> QED
  BY <1>1, CacheBegins, CacheMoves, PTL DEF CacheSpec

\* Both stores keep their types, and no mutation, late or failed, leaves a row that the
\* schema or the validation forbids (inventory.rs:277-360).
THEOREM StoresHold == MCSpec => []StoresWellFormed
<1>1. MCInit => InventoryInv /\ CacheInv
  BY InventoryInit, CacheBegins DEF MCInit
<1>2. [MCNext]_mcVars => [Next]_invVars /\ [CacheNext]_vars
  BY DEF MCNext, mcVars
<1>3. InventoryInv /\ CacheInv => StoresWellFormed
  BY DEF InventoryInv, CacheInv, StoresWellFormed
<1> QED
  BY <1>1, <1>2, <1>3, InventoryNext, CacheMoves, PTL DEF MCSpec
=============================================================================
