------------------------------ MODULE TokenCache ------------------------------
(***************************************************************************)
(* The runs of the operator's ssh_homelab helper on one machine            *)
(* (deploys/helpers/ssh_homelab.py), and the OpenBao token they keep in    *)
(* one file of the user's runtime directory (deploys/lib/token_cache.py).  *)
(* Runs may overlap; nothing locks the file.                               *)
(***************************************************************************)
EXTENDS Naturals, FiniteSets

CONSTANTS
  Runs,        \* the runs there will be, one after another or at the same time
  Tokens,      \* the tokens OpenBao can issue
  Origins,     \* the OpenBao servers a run may name
  MaxAtOnce,   \* bound on the runs that are under way together
  Nothing

ASSUME NoneAssumption == Nothing \notin Tokens \cup Origins
ASSUME AtOnceAssumption == MaxAtOnce \in Nat \ {0}

VARIABLES
  file,        \* the contents of ssh-token.json
  temps,       \* the runs that left or are writing a temporary file
  tok,         \* the tokens at their server
  run,
  warned,      \* tokens an operator was told may still be valid
  purged,      \* tokens load removed because they belong to another server
  refused,     \* tokens of the cache that a lookup took to be rejected
  displaced,   \* tokens a run removed or replaced without having read them
  overlapped   \* two runs were under way together

vars == <<file, temps, tok, run, warned, purged, refused, displaced, overlapped>>
history == <<warned, purged, refused, displaced, overlapped>>

NotIssued == [origin |-> Nothing, live |-> FALSE, contract |-> FALSE, validated |-> FALSE]

NotStarted == [pc |-> "idle", mode |-> Nothing, origin |-> Nothing, token |-> Nothing,
               cached |-> FALSE, next |-> Nothing, logins |-> 0, touched |-> FALSE]

Ends == {"ok", "failed", "indeterminate", "login_failed", "save_failed", "crashed"}

\* Ends after which a token is left with nobody: the run was killed, or never had its text,
\* or could not save it.
Abandons == {"login_failed", "save_failed", "crashed"}
UnderWay(s) == run[s].pc \notin Ends \cup {"idle"}

\* A file that is a symlink, or has another owner or mode, is unsafe.
CacheInit ==
  /\ file \in {[kind |-> k, origin |-> Nothing, token |-> Nothing] :
                  k \in {"none", "malformed", "unsafe"}}
  /\ temps = {}
  /\ tok = [t \in Tokens |-> NotIssued]
  /\ run = [s \in Runs |-> NotStarted]
  /\ warned = {} /\ purged = {} /\ refused = {} /\ displaced = {} /\ overlapped = FALSE

\* Of a run that has ended there remains the token that was never handed on, and, for a run
\* that says it preserved the file, whether it did.
Goto(s, pc) ==
  run' = [run EXCEPT ![s] =
    IF pc \notin Ends THEN [@ EXCEPT !.pc = pc]
    ELSE [NotStarted EXCEPT !.pc = pc, !.touched = pc = "indeterminate" /\ run[s].touched,
            !.token = IF pc \in Abandons THEN run[s].token ELSE Nothing]]

NoFile == [kind |-> "none", origin |-> Nothing, token |-> Nothing]

\* What a step that removes or replaces the file takes from the runs that still rely on it.
Displaces(s) ==
  displaced' = IF file.kind = "token" /\ file.token # run[s].token
               THEN displaced \cup {file.token} ELSE displaced
-----------------------------------------------------------------------------
(* TokenCache.load                                                         *)

Start(s) ==
  /\ run[s].pc = "idle"
  /\ Cardinality({r \in Runs : UnderWay(r)}) < MaxAtOnce
  /\ \E mode \in {"session", "reauth", "logout"}, o \in Origins :
       run' = [run EXCEPT ![s].pc = "load", ![s].mode = mode, ![s].origin = o]
  /\ overlapped' = (overlapped \/ \E r \in Runs : UnderWay(r))
  /\ UNCHANGED <<file, temps, tok, warned, purged, refused, displaced>>

LoadAnyOrigin(s) ==
  /\ run[s].pc = "load"
  /\ \/ file.kind = "unsafe" /\ Goto(s, "failed")
     \/ file.kind = "none" /\ Goto(s, "loaded")
     \/ file.kind = "malformed" /\ Goto(s, "purge")
     \/ /\ file.kind = "token"
        /\ run' = [run EXCEPT ![s].token = file.token, ![s].pc = "loaded"]
  /\ UNCHANGED <<file, temps, tok, history>>

\* The descriptor keeps what was opened, whatever replaces the file meanwhile.
Load(s) ==
  /\ run[s].pc = "load"
  /\ \/ file.kind = "unsafe" /\ Goto(s, "failed")
     \/ file.kind = "none" /\ Goto(s, "loaded")
     \/ file.kind = "malformed" /\ Goto(s, "purge")
     \/ /\ file.kind = "token"
        /\ run' = [run EXCEPT ![s].token = file.token,
                              ![s].pc = IF file.origin = run[s].origin THEN "loaded"
                                        ELSE "purge"]
  /\ UNCHANGED <<file, temps, tok, history>>

PurgeUnchecked(s) ==
  /\ run[s].pc = "purge"
  /\ file' = NoFile
  /\ Displaces(s)
  /\ purged' = purged \cup {run[s].token}
  /\ run' = [run EXCEPT ![s].pc = "loaded", ![s].token = Nothing, ![s].touched = TRUE]
  /\ UNCHANGED <<temps, tok, warned, refused, overlapped>>

PurgeNothing(s) ==
  /\ run[s].pc = "purge"
  /\ run' = [run EXCEPT ![s].pc = "loaded", ![s].token = Nothing]
  /\ UNCHANGED <<file, temps, tok, history>>

\* load clears what it does not use.
Purge(s) ==
  /\ run[s].pc = "purge"
  /\ file' = NoFile
  /\ Displaces(s)
  /\ purged' = IF run[s].token = Nothing THEN purged ELSE purged \cup {run[s].token}
  /\ run' = [run EXCEPT ![s].pc = "loaded", ![s].token = Nothing, ![s].touched = TRUE]
  /\ UNCHANGED <<temps, tok, warned, refused, overlapped>>

\* run(): what to do with the token that was loaded.
Dispatch(s) ==
  /\ run[s].pc = "loaded"
  /\ \/ /\ run[s].token = Nothing
        /\ Goto(s, IF run[s].mode = "logout" THEN "ok" ELSE "login")
     \/ /\ run[s].token # Nothing
        /\ run' = [run EXCEPT ![s].pc = IF run[s].mode = "session" THEN "lookup" ELSE "revoke",
                              ![s].next = IF run[s].mode = "logout" THEN "ok" ELSE "login"]
  /\ UNCHANGED <<file, temps, tok, history>>

\* No target, no known-hosts file, or no bao to execute.
CannotRun(s) ==
  /\ run[s].pc = "loaded"
  /\ run[s].mode = "logout" => run[s].token # Nothing
  /\ Goto(s, "failed")
  /\ UNCHANGED <<file, temps, tok, history>>
-----------------------------------------------------------------------------
(* Requests to OpenBao.                                                    *)

\* What `bao token lookup` may tell of a token.  A failure that speaks of permission counts
\* as a rejection, and OpenBao says that of a dead token and of a live one that may no longer
\* look itself up.
Lookups(t) ==
  {"indeterminate", "rejected"} \cup
  IF ~tok[t].live THEN {}
  ELSE IF tok[t].contract THEN {"valid"} ELSE {"contract_invalid"}

Refuses(s, result) ==
  refused' = IF result = "rejected" THEN refused \cup {run[s].token} ELSE refused

LookupClearing(s) ==
  /\ run[s].pc = "lookup"
  /\ \E result \in Lookups(run[s].token) :
       /\ Refuses(s, result)
       /\ \/ /\ result = "valid"
             /\ run' = [run EXCEPT ![s].pc = "sign", ![s].cached = TRUE]
             /\ UNCHANGED file
          \/ /\ result = "indeterminate"
             /\ run' = [run EXCEPT ![s] = [NotStarted EXCEPT !.pc = result, !.touched = TRUE]]
             /\ file' = NoFile
          \/ result = "contract_invalid" /\ Goto(s, "revoke") /\ UNCHANGED file
          \/ result = "rejected" /\ Goto(s, "clear") /\ UNCHANGED file
  /\ UNCHANGED <<temps, tok, warned, purged, displaced, overlapped>>

LookupNotRevoking(s) ==
  /\ run[s].pc = "lookup"
  /\ \E result \in Lookups(run[s].token) :
       /\ Refuses(s, result)
       /\ \/ /\ result = "valid"
             /\ run' = [run EXCEPT ![s].pc = "sign", ![s].cached = TRUE]
          \/ result = "indeterminate" /\ Goto(s, "indeterminate")
          \/ result \in {"contract_invalid", "rejected"} /\ Goto(s, "clear")
  /\ UNCHANGED <<file, temps, tok, warned, purged, displaced, overlapped>>

\* The token of the cache.  One that is taken to be rejected is cleared, not revoked.
Lookup(s) ==
  /\ run[s].pc = "lookup"
  /\ \E result \in Lookups(run[s].token) :
       /\ Refuses(s, result)
       /\ \/ /\ result = "valid"
             /\ run' = [run EXCEPT ![s].pc = "sign", ![s].cached = TRUE]
          \/ result = "indeterminate" /\ Goto(s, "indeterminate")
          \/ result = "contract_invalid" /\ Goto(s, "revoke")
          \/ result = "rejected" /\ Goto(s, "clear")
  /\ UNCHANGED <<file, temps, tok, warned, purged, displaced, overlapped>>

\* `bao token revoke -self`: confirmed, or not confirmed and done or not done.
RevokeOutcome(t) ==
  \/ /\ tok[t].live
     /\ tok' = [tok EXCEPT ![t].live = FALSE]
     /\ UNCHANGED warned
  \/ /\ \E live \in {FALSE, tok[t].live} : tok' = [tok EXCEPT ![t].live = live]
     /\ warned' = warned \cup {t}

\* Of a token that is or was in the cache: afterwards the cache is cleared.
Revoke(s) ==
  /\ run[s].pc = "revoke"
  /\ RevokeOutcome(run[s].token)
  /\ Goto(s, "clear")
  /\ UNCHANGED <<file, temps, purged, refused, displaced, overlapped>>

\* cache.clear(), which removes what is there by now.
Clear(s) ==
  /\ run[s].pc = "clear"
  /\ file' = NoFile
  /\ Displaces(s)
  /\ run' = [run EXCEPT ![s] =
       IF run[s].next = "login"
       THEN [@ EXCEPT !.pc = "login", !.token = Nothing, !.touched = TRUE]
       ELSE [NotStarted EXCEPT !.pc = run[s].next]]
  /\ UNCHANGED <<temps, tok, warned, purged, refused, overlapped>>

\* The server issues a token of whatever contract it grants.
Issues(t, origin) ==
  /\ tok[t] = NotIssued
  /\ \E contract \in BOOLEAN :
       tok' = [tok EXCEPT ![t] = [origin |-> origin, live |-> TRUE,
                                  contract |-> contract, validated |-> FALSE]]

\* _login: a browser login.  When it takes too long, or what it prints is too long or is no
\* token, the server may have issued one that the run never reads.
Login(s) ==
  /\ run[s].pc = "login"
  /\ \/ \E t \in Tokens :
          /\ Issues(t, run[s].origin)
          /\ \/ run' = [run EXCEPT ![s].pc = "lookup_new", ![s].token = t,
                                   ![s].cached = FALSE, ![s].logins = @ + 1]
             \/ run' = [run EXCEPT ![s] = [NotStarted EXCEPT !.pc = "login_failed", !.token = t]]
     \/ Goto(s, "failed") /\ UNCHANGED tok
  /\ UNCHANGED <<file, temps, history>>

LookupNewUnlessRejected(s) ==
  /\ run[s].pc = "lookup_new"
  /\ \E result \in Lookups(run[s].token) :
       IF result \in {"valid", "indeterminate"}
       THEN /\ Goto(s, "save")
            /\ tok' = [tok EXCEPT ![run[s].token].validated = @ \/ result = "valid"]
       ELSE Goto(s, "revoke_new") /\ UNCHANGED tok
  /\ UNCHANGED <<file, temps, history>>

\* _login_validate_and_save: only a token that is known to be valid is saved.
LookupNew(s) ==
  /\ run[s].pc = "lookup_new"
  /\ \E result \in Lookups(run[s].token) :
       IF result = "valid"
       THEN Goto(s, "save") /\ tok' = [tok EXCEPT ![run[s].token].validated = TRUE]
       ELSE Goto(s, "revoke_new") /\ UNCHANGED tok
  /\ UNCHANGED <<file, temps, history>>

RevokeNew(s) ==
  /\ run[s].pc = "revoke_new"
  /\ RevokeOutcome(run[s].token)
  /\ Goto(s, "failed")
  /\ UNCHANGED <<file, temps, purged, refused, displaced, overlapped>>

SignRetriesAlways(s) ==
  /\ run[s].pc = "sign"
  /\ \/ tok[run[s].token].live /\ Goto(s, "connected")
     \/ run' = [run EXCEPT ![s].pc = "revoke", ![s].next = "login"]
     \/ Goto(s, "failed")
  /\ UNCHANGED <<file, temps, tok, history>>

\* ssh-keygen and _sign: OpenBao may also refuse to sign with a token that is live.  A new
\* login is tried once, and only for a token of the cache.
Sign(s) ==
  /\ run[s].pc = "sign"
  /\ \/ tok[run[s].token].live /\ Goto(s, "connected")
     \/ run' = [run EXCEPT ![s].pc = "revoke",
                           ![s].next = IF run[s].cached THEN "login" ELSE "failed"]
     \/ Goto(s, "failed")
  /\ UNCHANGED <<file, temps, tok, history>>

\* The certificate is inspected, and ssh runs as long as it likes.
Disconnect(s) ==
  /\ run[s].pc = "connected"
  /\ \E pc \in {"ok", "failed"} : Goto(s, pc)
  /\ UNCHANGED <<file, temps, tok, history>>
-----------------------------------------------------------------------------
(* TokenCache.save                                                         *)

WriteTemporary(s) ==
  /\ run[s].pc = "save"
  /\ temps' = temps \cup {s}
  /\ Goto(s, "replace")
  /\ UNCHANGED <<file, tok, history>>

\* os.replace, after which the directory may still fail to reach the disk.
Replace(s) ==
  /\ run[s].pc = "replace"
  /\ file' = [kind |-> "token", origin |-> run[s].origin, token |-> run[s].token]
  /\ Displaces(s)
  /\ temps' = temps \ {s}
  /\ \/ run' = [run EXCEPT ![s].pc = "sign", ![s].touched = TRUE]
     \/ Goto(s, "save_failed")
  /\ UNCHANGED <<tok, warned, purged, refused, overlapped>>

SaveFailsLittering(s) ==
  /\ run[s].pc \in {"save", "replace"}
  /\ Goto(s, "save_failed")
  /\ UNCHANGED <<file, temps, tok, history>>

\* The token is too long, or the file system refuses; the temporary file is removed.
SaveFails(s) ==
  /\ run[s].pc \in {"save", "replace"}
  /\ temps' = temps \ {s}
  /\ Goto(s, "save_failed")
  /\ UNCHANGED <<file, tok, history>>
-----------------------------------------------------------------------------
(* The environment.                                                        *)

\* A token expires, or is revoked by an administrator, or is given other policies.
Age(t) ==
  /\ tok[t].live
  /\ \/ tok' = [tok EXCEPT ![t].live = FALSE]
     \/ tok[t].contract /\ tok' = [tok EXCEPT ![t].contract = FALSE]
  /\ UNCHANGED <<file, temps, run, history>>

\* SIGKILL, or power.
Crash(s) ==
  /\ UnderWay(s)
  /\ Goto(s, "crashed")
  /\ UNCHANGED <<file, temps, tok, history>>

RunStep(s) ==
  \/ Load(s) \/ Purge(s) \/ Dispatch(s) \/ CannotRun(s)
  \/ Lookup(s) \/ Revoke(s) \/ Clear(s) \/ Login(s) \/ LookupNew(s) \/ RevokeNew(s)
  \/ WriteTemporary(s) \/ Replace(s) \/ SaveFails(s)
  \/ Sign(s) \/ Disconnect(s)

CacheNext ==
  \/ \E s \in Runs : Start(s) \/ RunStep(s) \/ Crash(s)
  \/ \E t \in Tokens : Age(t)

CacheSpec == CacheInit /\ [][CacheNext]_vars
-----------------------------------------------------------------------------
(* Properties.                                                             *)

\* Every variable keeps its type.
CacheTypeOK ==
  /\ file \in [kind : {"none", "malformed", "unsafe", "token"},
               origin : Origins \cup {Nothing}, token : Tokens \cup {Nothing}]
  /\ temps \subseteq Runs
  /\ tok \in [Tokens -> [origin : Origins \cup {Nothing}, live : BOOLEAN,
                         contract : BOOLEAN, validated : BOOLEAN]]
  /\ run \in [Runs -> [pc : {"idle", "load", "purge", "loaded", "lookup", "revoke", "clear",
                             "login", "lookup_new", "revoke_new", "save", "replace", "sign",
                             "connected"} \cup Ends,
                       mode : {Nothing, "session", "reauth", "logout"},
                       origin : Origins \cup {Nothing}, token : Tokens \cup {Nothing},
                       cached : BOOLEAN, next : {Nothing, "ok", "login", "failed"},
                       logins : Nat, touched : BOOLEAN]]
  /\ {warned, purged, refused, displaced} \subseteq SUBSET Tokens
  /\ overlapped \in BOOLEAN

\* "A newly issued token is cached only after confirmed validation"
\* (docs/deploys/deploy-workflow.md): however runs overlap, the file holds a token that was
\* confirmed, filed under the server that issued it.
CachedWasValidated ==
  file.kind = "token" => tok[file.token].validated /\ tok[file.token].origin = file.origin

\* "canonical-origin association": a run sends a token to no other server than the one that
\* issued it, whatever the file held when it was loaded.
TokenStaysHome ==
  \A s \in Runs :
    run[s].pc \in {"lookup", "revoke", "lookup_new", "revoke_new", "sign"} =>
      tok[run[s].token].origin = run[s].origin

Held(t) == \E s \in Runs :
  run[s].token = t /\ (UnderWay(s) \/ run[s].pc \in Abandons)

\* "a safe warning explains when the token may remain valid until server-side expiry": a
\* token that is still valid is in the cache or with a run, or the operator was warned, or
\* the documentation says it is dropped (another origin, a rejected lookup), or another run
\* took it away, or the run died, failed to save it or never read it.  A rejected lookup
\* "clears the unusable cache directly" (docs/deploys/deploy-workflow.md:61); what the helper
\* takes for a rejection does not show that the token is dead, and one that lives on is dropped
\* with neither a revocation nor a warning (ssh_homelab.py:118-132, 345-347).
NoTokenLostSilently ==
  \A t \in Tokens :
    tok[t].live =>
      file.token = t \/ Held(t) \/ t \in warned \cup purged \cup refused \cup displaced

\* Runs that follow one another take nothing from each other: only of two that overlap may
\* one clear or replace a token it never read (token_cache.py:160-175).
OnlyOverlapDisplaces == displaced # {} => overlapped

\* "Transport, timeout, protocol, malformed JSON, and oversized lookup failures are
\* indeterminate: the helper preserves an existing cache and fails closed".
IndeterminateKeepsCache ==
  \A s \in Runs : run[s].pc = "indeterminate" => ~run[s].touched

\* "performs one login/sign retry": no path through run() opens the browser twice.
OneLogin == \A s \in Runs : run[s].logins <= 1

\* A temporary file with a token in it outlives its run only if the run was killed.
TemporariesRemoved == \A s \in temps : run[s].pc \in {"replace", "crashed"}

\* A token in the cache was confirmed and is filed under its issuer, and no run offers one
\* to another server: token_cache.py load and save, ssh_homelab.py run().
CachedTokensGood == CachedWasValidated /\ TokenStaysHome

\* What becomes of tokens, their files and an undecided cache when runs overlap, fail or
\* die: what is lost without a warning is known, and only a kill leaves a file behind.
TokensAccounted ==
  NoTokenLostSilently /\ OnlyOverlapDisplaces /\ IndeterminateKeepsCache /\ TemporariesRemoved
=============================================================================
