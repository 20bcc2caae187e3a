------------------------------ MODULE MCStores ------------------------------
(* The two stores that overlapping writers share; a behaviour is one of either. *)
(* Machines: three mutation requests over two UUIDs, enough for a create, a    *)
(* mutation of the new row and a third request that overlaps either of them.   *)
(* Tokens: three runs, two tokens and two servers: runs one after another, two *)
(* that overlap, and a third that finds what they left.                        *)
EXTENDS MachineInventory, TokenCache, TLC

VARIABLE part
mcVars == <<part, invVars, vars>>

Symmetry == UNION {Permutations(s) : s \in {Requests, Tokens, Origins}}

\* Two runs may overlap; the last begins when they are over.
LastIsAlone ==
  LET begun == {s \in Runs : run[s].pc # "idle"}
  IN  begun' = Runs /\ begun # Runs => \A s \in begun : run[s].pc \in Ends

MCInit ==
  /\ part \in {"machines", "tokens"}
  /\ part = "machines" => file = NoFile
  /\ Init /\ CacheInit

MCNext ==
  /\ UNCHANGED part
  /\ \/ part = "machines" /\ Next /\ UNCHANGED vars
     \/ part = "tokens" /\ CacheNext /\ LastIsAlone /\ UNCHANGED invVars

MCSpec == MCInit /\ [][MCNext]_mcVars

\* Types, and that no mutation, late or failed, leaves a row the schema or the validation
\* forbids (inventory.rs:277-360).
StoresWellFormed == TypeOK /\ StoredRowsValid /\ CacheTypeOK
=============================================================================
