------------------------- MODULE DeployServiceProofs -------------------------
(***************************************************************************)
(* The deploy tool over the runner and the inventory, for any number of    *)
(* deploy calls, machines and overlapping mutations.  Three invariants     *)
(* carry a valid key from the table to the runner: rows are valid          *)
(* (TableInv), the copy a call read was a row of its machine (ReadInv),    *)
(* and the runner works on that copy (RunInv).  That the runner accepts it *)
(* is ValidatorsAgree: the checks of both sides pass the same texts.       *)
(***************************************************************************)
EXTENDS DeployService, SequenceTheorems, TLAPS

Validated(key) == key \in StorablePins \cup {NoPin}

-----------------------------------------------------------------------------
(* The two checks of a key.                                                *)

\* A length of four bytes is small only if the first three are zero.
LEMMA SmallLength ==
  ASSUME NEW bytes \in Seq(Byte), NEW offset \in Nat, offset + 4 <= Len(bytes)
  PROVE  /\ BigEndian(bytes, offset) \in Nat
         /\ \A n \in Byte :
              BigEndian(bytes, offset) = n <=>
                /\ bytes[offset + 1] = 0 /\ bytes[offset + 2] = 0
                /\ bytes[offset + 3] = 0 /\ bytes[offset + 4] = n
<1> DEFINE a == bytes[offset + 1]
           b == bytes[offset + 2]
           c == bytes[offset + 3]
           d == bytes[offset + 4]
<1>1. a \in Byte /\ b \in Byte /\ c \in Byte /\ d \in Byte
  OBVIOUS
<1>2. BigEndian(bytes, offset) = 256 * (256 * (256 * a + b) + c) + d
  BY DEF BigEndian
<1> HIDE DEF a, b, c, d
<1>3. /\ BigEndian(bytes, offset) \in Nat
      /\ \A n \in Byte : BigEndian(bytes, offset) = n <=> a = 0 /\ b = 0 /\ c = 0 /\ d = n
  BY <1>1, <1>2 DEF Byte
<1> QED
  BY <1>3 DEF a, b, c, d

\* A part of a sequence.
LEMMA PartOf ==
  ASSUME NEW bytes \in Seq(Byte), NEW m \in Nat \ {0}, NEW n \in Nat,
         m <= n + 1, n <= Len(bytes)
  PROVE  /\ SubSeq(bytes, m, n) \in Seq(Byte)
         /\ Len(SubSeq(bytes, m, n)) = n - m + 1
         /\ \A i \in 1 .. n - m + 1 : SubSeq(bytes, m, n)[i] = bytes[m + i - 1]
<1>1. \A i \in m .. n : bytes[i] \in Byte
  OBVIOUS
<1> QED
  BY <1>1, SubSeqProperties

\* The bytes that are ssh-ed25519, in a longer text.
NameIn(bytes) ==
  /\ bytes[5] = 115 /\ bytes[6] = 115 /\ bytes[7] = 104 /\ bytes[8] = 45
  /\ bytes[9] = 101 /\ bytes[10] = 100 /\ bytes[11] = 50 /\ bytes[12] = 53
  /\ bytes[13] = 53 /\ bytes[14] = 49 /\ bytes[15] = 57

\* The bytes of an ed25519 key, but for the key itself.
KeyBytes(bytes) ==
  /\ Len(bytes) = 51
  /\ bytes[1] = 0 /\ bytes[2] = 0 /\ bytes[3] = 0 /\ bytes[4] = 11 /\ NameIn(bytes)
  /\ bytes[16] = 0 /\ bytes[17] = 0 /\ bytes[18] = 0 /\ bytes[19] = 32

\* The runner finds a key's bytes at their places.
LEMMA AtPlaces ==
  ASSUME NEW bytes \in Seq(Byte)
  PROVE  KeyBytes(bytes) <=>
           /\ Len(bytes) = 51
           /\ SubSeq(bytes, 1, 15) =
                <<0, 0, 0, 11, 115, 115, 104, 45, 101, 100, 50, 53, 53, 49, 57>>
           /\ SubSeq(bytes, 16, 19) = <<0, 0, 0, 32>>
<1> DEFINE front == SubSeq(bytes, 1, 15)
           size == SubSeq(bytes, 16, 19)
<1>1. SUFFICES ASSUME Len(bytes) = 51
               PROVE  KeyBytes(bytes) <=>
                        /\ front = <<0, 0, 0, 11, 115, 115, 104, 45, 101, 100, 50, 53, 53, 49, 57>>
                        /\ size = <<0, 0, 0, 32>>
  BY DEF KeyBytes
<1>2. /\ front \in Seq(Byte) /\ Len(front) = 15
      /\ \A i \in 1 .. 15 : front[i] = bytes[1 + i - 1]
  <2>1. 15 - 1 + 1 = 15 /\ 1 \in Nat \ {0} /\ 15 \in Nat /\ 1 <= 15 + 1 /\ 15 <= Len(bytes)
    BY <1>1
  <2> QED
    BY <2>1, PartOf
<1>3. /\ size \in Seq(Byte) /\ Len(size) = 4
      /\ \A i \in 1 .. 4 : size[i] = bytes[16 + i - 1]
  <2>1. 19 - 16 + 1 = 4 /\ 16 \in Nat \ {0} /\ 19 \in Nat /\ 16 <= 19 + 1 /\ 19 <= Len(bytes)
    BY <1>1
  <2> QED
    BY <2>1, PartOf
<1> HIDE DEF front, size
<1>4. front = <<0, 0, 0, 11, 115, 115, 104, 45, 101, 100, 50, 53, 53, 49, 57>> <=>
        bytes[1] = 0 /\ bytes[2] = 0 /\ bytes[3] = 0 /\ bytes[4] = 11 /\ NameIn(bytes)
  <2>1. /\ front[1] = bytes[1] /\ front[2] = bytes[2] /\ front[3] = bytes[3]
        /\ front[4] = bytes[4] /\ front[5] = bytes[5] /\ front[6] = bytes[6]
        /\ front[7] = bytes[7] /\ front[8] = bytes[8] /\ front[9] = bytes[9]
        /\ front[10] = bytes[10] /\ front[11] = bytes[11] /\ front[12] = bytes[12]
        /\ front[13] = bytes[13] /\ front[14] = bytes[14] /\ front[15] = bytes[15]
    BY <1>2
  <2>2. front = <<front[1], front[2], front[3], front[4], front[5], front[6], front[7], front[8],
                  front[9], front[10], front[11], front[12], front[13], front[14], front[15]>>
    BY <1>2
  <2>3. ASSUME front = <<0, 0, 0, 11, 115, 115, 104, 45, 101, 100, 50, 53, 53, 49, 57>>
        PROVE  /\ bytes[1] = 0 /\ bytes[2] = 0 /\ bytes[3] = 0 /\ bytes[4] = 11
               /\ NameIn(bytes)
    <3>1. /\ front[1] = 0 /\ front[2] = 0 /\ front[3] = 0 /\ front[4] = 11
          /\ front[5] = 115 /\ front[6] = 115 /\ front[7] = 104 /\ front[8] = 45
          /\ front[9] = 101 /\ front[10] = 100 /\ front[11] = 50 /\ front[12] = 53
          /\ front[13] = 53 /\ front[14] = 49 /\ front[15] = 57
      BY <2>3
    <3> QED
      BY <2>1, <3>1 DEF NameIn
  <2>4. ASSUME bytes[1] = 0, bytes[2] = 0, bytes[3] = 0, bytes[4] = 11, NameIn(bytes)
        PROVE  front = <<0, 0, 0, 11, 115, 115, 104, 45, 101, 100, 50, 53, 53, 49, 57>>
    <3>1. /\ front[1] = 0 /\ front[2] = 0 /\ front[3] = 0 /\ front[4] = 11
          /\ front[5] = 115 /\ front[6] = 115 /\ front[7] = 104 /\ front[8] = 45
          /\ front[9] = 101 /\ front[10] = 100 /\ front[11] = 50 /\ front[12] = 53
          /\ front[13] = 53 /\ front[14] = 49 /\ front[15] = 57
      BY <2>1, <2>4 DEF NameIn
    <3> QED
      BY <2>2, <3>1
  <2> QED
    BY <2>3, <2>4
<1>5. size = <<0, 0, 0, 32>> <=>
        bytes[16] = 0 /\ bytes[17] = 0 /\ bytes[18] = 0 /\ bytes[19] = 32
  <2>1. size[1] = bytes[16] /\ size[2] = bytes[17] /\ size[3] = bytes[18] /\ size[4] = bytes[19]
    BY <1>3
  <2>2. size = <<size[1], size[2], size[3], size[4]>>
    BY <1>3
  <2> QED
    BY <2>1, <2>2
<1> QED
  BY <1>1, <1>4, <1>5 DEF KeyBytes

\* What ssh_string returns.
LEMMA StringFacts ==
  ASSUME NEW bytes \in Seq(Byte), NEW offset \in Nat, HasString(bytes, offset)
  PROVE  /\ offset + 4 <= Len(bytes) /\ BigEndian(bytes, offset) \in Nat
         /\ StringEnd(bytes, offset) = offset + 4 + BigEndian(bytes, offset)
         /\ StringEnd(bytes, offset) <= Len(bytes)
         /\ StringAt(bytes, offset) \in Seq(Byte)
         /\ Len(StringAt(bytes, offset)) = BigEndian(bytes, offset)
         /\ \A i \in 1 .. BigEndian(bytes, offset) :
              StringAt(bytes, offset)[i] = bytes[offset + 5 + i - 1]
<1> DEFINE n == BigEndian(bytes, offset)
           m == offset + 5
           e == StringEnd(bytes, offset)
<1>1. offset + 4 <= Len(bytes) /\ e <= Len(bytes)
  BY DEF HasString
<1>2. n \in Nat
  BY <1>1, SmallLength
<1>3. e = offset + 4 + n
  BY DEF StringEnd
<1>4. StringAt(bytes, offset) = SubSeq(bytes, m, e)
  BY DEF StringAt
<1> HIDE DEF n, e
<1>5. m \in Nat \ {0} /\ e \in Nat /\ m <= e + 1 /\ e - m + 1 = n
  BY <1>2, <1>3
<1> HIDE DEF m
<1>6. /\ SubSeq(bytes, m, e) \in Seq(Byte) /\ Len(SubSeq(bytes, m, e)) = n
      /\ \A i \in 1 .. n : SubSeq(bytes, m, e)[i] = bytes[m + i - 1]
  BY <1>1, <1>5, PartOf
<1> QED
  BY <1>1, <1>2, <1>3, <1>4, <1>6 DEF n, m, e

\* The inventory finds the strings of a key one after the other.
LEMMA InOrder ==
  ASSUME NEW bytes \in Seq(Byte)
  PROVE  KeyBytes(bytes) <=>
           /\ HasString(bytes, 0) /\ HasString(bytes, StringEnd(bytes, 0))
           /\ StringAt(bytes, 0) = AlgorithmName
           /\ Len(StringAt(bytes, StringEnd(bytes, 0))) = 32
           /\ StringEnd(bytes, StringEnd(bytes, 0)) = Len(bytes)
<1>1. Len(bytes) \in Nat /\ 11 \in Byte /\ 32 \in Byte
  BY DEF Byte
<1>2. ASSUME HasString(bytes, 0), BigEndian(bytes, 0) = 11
      PROVE  StringAt(bytes, 0) = AlgorithmName <=> NameIn(bytes)
  <2> DEFINE name == StringAt(bytes, 0)
  <2>1. /\ name \in Seq(Byte) /\ Len(name) = 11
        /\ \A i \in 1 .. 11 : name[i] = bytes[0 + 5 + i - 1]
    BY <1>2, StringFacts
  <2> HIDE DEF name
  <2>2. /\ name[1] = bytes[5] /\ name[2] = bytes[6] /\ name[3] = bytes[7]
        /\ name[4] = bytes[8] /\ name[5] = bytes[9] /\ name[6] = bytes[10]
        /\ name[7] = bytes[11] /\ name[8] = bytes[12] /\ name[9] = bytes[13]
        /\ name[10] = bytes[14] /\ name[11] = bytes[15]
    BY <2>1
  <2>3. name = <<name[1], name[2], name[3], name[4], name[5], name[6], name[7], name[8],
                 name[9], name[10], name[11]>>
    BY <2>1
  <2>4. ASSUME name = AlgorithmName PROVE NameIn(bytes)
    <3>1. /\ name[1] = 115 /\ name[2] = 115 /\ name[3] = 104 /\ name[4] = 45
          /\ name[5] = 101 /\ name[6] = 100 /\ name[7] = 50 /\ name[8] = 53
          /\ name[9] = 53 /\ name[10] = 49 /\ name[11] = 57
      BY <2>4 DEF AlgorithmName
    <3> QED
      BY <2>2, <3>1 DEF NameIn
  <2>5. ASSUME NameIn(bytes) PROVE name = AlgorithmName
    <3>1. /\ name[1] = 115 /\ name[2] = 115 /\ name[3] = 104 /\ name[4] = 45
          /\ name[5] = 101 /\ name[6] = 100 /\ name[7] = 50 /\ name[8] = 53
          /\ name[9] = 53 /\ name[10] = 49 /\ name[11] = 57
      BY <2>2, <2>5 DEF NameIn
    <3> QED
      BY <2>3, <3>1 DEF AlgorithmName
  <2> QED
    BY <2>4, <2>5 DEF name
<1>3. ASSUME HasString(bytes, 0), HasString(bytes, StringEnd(bytes, 0)),
             StringAt(bytes, 0) = AlgorithmName,
             Len(StringAt(bytes, StringEnd(bytes, 0))) = 32,
             StringEnd(bytes, StringEnd(bytes, 0)) = Len(bytes)
      PROVE  KeyBytes(bytes)
  <2>1. Len(AlgorithmName) = 11
    BY DEF AlgorithmName
  <2>2. BigEndian(bytes, 0) = 11 /\ StringEnd(bytes, 0) = 15 /\ 0 + 4 <= Len(bytes)
    <3>1. /\ Len(StringAt(bytes, 0)) = BigEndian(bytes, 0) /\ 0 + 4 <= Len(bytes)
          /\ StringEnd(bytes, 0) = 0 + 4 + BigEndian(bytes, 0)
      BY <1>3, StringFacts
    <3>2. BigEndian(bytes, 0) = 11
      BY <1>3, <2>1, <3>1
    <3>3. StringEnd(bytes, 0) = 15
      BY <3>1, <3>2
    <3> QED
      BY <3>1, <3>2, <3>3
  <2>3. HasString(bytes, 15) /\ Len(StringAt(bytes, 15)) = 32 /\ StringEnd(bytes, 15) = Len(bytes)
    BY <1>3, <2>2
  <2>4. BigEndian(bytes, 15) = 32 /\ Len(bytes) = 51 /\ 15 + 4 <= Len(bytes)
    <3>1. /\ Len(StringAt(bytes, 15)) = BigEndian(bytes, 15) /\ 15 + 4 <= Len(bytes)
          /\ StringEnd(bytes, 15) = 15 + 4 + BigEndian(bytes, 15)
      BY <2>3, StringFacts
    <3>2. BigEndian(bytes, 15) = 32
      BY <2>3, <3>1
    <3>3. StringEnd(bytes, 15) = 51
      BY <3>1, <3>2
    <3>4. Len(bytes) = 51
      BY <2>3, <3>3
    <3> QED
      BY <3>1, <3>2, <3>4
  <2>5. bytes[0 + 1] = 0 /\ bytes[0 + 2] = 0 /\ bytes[0 + 3] = 0 /\ bytes[0 + 4] = 11
    BY <1>1, <2>2, SmallLength
  <2>6. bytes[15 + 1] = 0 /\ bytes[15 + 2] = 0 /\ bytes[15 + 3] = 0 /\ bytes[15 + 4] = 32
    BY <1>1, <2>4, SmallLength
  <2>7. NameIn(bytes)
    BY <1>2, <1>3, <2>2
  <2> QED
    BY <2>4, <2>5, <2>6, <2>7 DEF KeyBytes
<1>4. ASSUME KeyBytes(bytes)
      PROVE  /\ HasString(bytes, 0) /\ HasString(bytes, StringEnd(bytes, 0))
             /\ StringAt(bytes, 0) = AlgorithmName
             /\ Len(StringAt(bytes, StringEnd(bytes, 0))) = 32
             /\ StringEnd(bytes, StringEnd(bytes, 0)) = Len(bytes)
  <2>1. Len(bytes) = 51 /\ NameIn(bytes)
    BY <1>4 DEF KeyBytes
  <2>2. BigEndian(bytes, 0) = 11 /\ BigEndian(bytes, 15) = 32
    BY <1>4 DEF BigEndian, KeyBytes
  <2>3. StringEnd(bytes, 0) = 15 /\ StringEnd(bytes, 15) = 51
    BY <2>2 DEF StringEnd
  <2>4. HasString(bytes, 0) /\ HasString(bytes, 15)
    BY <2>1, <2>3 DEF HasString
  <2>5. StringAt(bytes, 0) = AlgorithmName
    BY <1>2, <2>1, <2>2, <2>4
  <2>6. Len(StringAt(bytes, 15)) = 32
    BY <2>2, <2>4, StringFacts
  <2> QED
    BY <2>1, <2>3, <2>4, <2>5, <2>6
<1> QED
  BY <1>3, <1>4

\* The inventory stores exactly the keys a deploy accepts: a key that was stored is never
\* refused later, and none that a deploy would accept cannot be stored
\* (validate_host_public_key of inventory.rs, validate_host_pin of runner.rs).
THEOREM ValidatorsAgree ==
  ASSUME NEW t \in KeyText
  PROVE  ValidHostPublicKey(t) <=> ValidHostPin(t)
<1> DEFINE shape == /\ t.length <= 256 /\ Len(t.fields) = 2
                    /\ t.fields[1].is = "algorithm" /\ t.fields[2].is = "base64"
<1>1. CASE ~shape
  BY <1>1 DEF ValidHostPublicKey, ValidHostPin
<1>2. CASE shape
  <2>1. t.fields[2].bytes \in Seq(Byte)
    <3> DEFINE Field == [is : {"algorithm", "base64", "empty", "blank", "other"},
                         bytes : Seq(Byte)]
    <3>1. t.fields \in Seq(Field)
      BY DEF KeyText
    <3> HIDE DEF Field
    <3>2. t.fields[2] \in Field
      BY <1>2, <3>1
    <3> QED
      BY <3>2 DEF Field
  <2>2. Trimmed(t)
    BY <1>2 DEF Trimmed
  <2>3. ValidHostPublicKey(t) <=> KeyBytes(t.fields[2].bytes)
    BY <1>2, <2>1, <2>2, InOrder DEF ValidHostPublicKey
  <2>4. ValidHostPin(t) <=> KeyBytes(t.fields[2].bytes)
    BY <1>2, <2>1, AtPlaces DEF ValidHostPin
  <2> QED
    BY <2>3, <2>4
<1> QED
  BY <1>1, <1>2

\* Of the keys there are, those that can be stored are accepted.
LEMMA StorableAccepted == StorablePins \subseteq AcceptedPins
BY TextAssumption, ValidatorsAgree DEF StorablePins, AcceptedPins

-----------------------------------------------------------------------------
(* The invariant.                                                          *)

\* The table holds rows of the schema with validated keys, and a statement that has not run
\* yet passed the validation.
TableInv ==
  /\ rows \in [Ids -> I!Row \cup {None}]
  /\ \A i \in Ids : rows[i] # None => Validated(rows[i].pin)
  /\ op \in [Requests -> I!Op \cup {None}]
  /\ state \in [Requests -> {"idle", "sent", "executed", "orphan", "answered"}]
  /\ \A r \in Requests : state[r] \in {"sent", "orphan"} => op[r] \in I!Op /\ I!Validates(op[r])

HandlerTypes ==
  /\ phase \in [Calls -> {"idle", "lookup", "ready", "dispatched", "machine_not_found",
                          "inventory_unavailable", "cancelled"}]
  /\ want \in [Calls -> [deploy : DeployIds, id : Ids] \cup {None}]
  /\ snap \in [Calls -> R!Machine \cup {None}]
  /\ seen \in [Calls -> SUBSET R!Machine]

\* While a call reads, what is in the table now counts as seen; what it read was seen.
ReadInv ==
  \A c \in Calls :
    /\ phase[c] # "idle" => want[c] \in [deploy : DeployIds, id : Ids]
    /\ phase[c] = "lookup" => TargetOf(rows, want[c].id) \subseteq seen[c]
    /\ phase[c] \in {"ready", "dispatched"} =>
         snap[c] \in seen[c] /\ snap[c] \in R!Machine /\ Validated(snap[c].pin)

\* The part of the runner's types that the handler's properties rest on.
RunnerTypes ==
  /\ R!WorkerTypes
  /\ caller \in [Calls -> {"idle", "admitted", "waiting", "cancelling", "done", "gone"}]
  /\ machine \in [Calls -> R!Machine \cup {None}]
  /\ leader \in [Calls -> {"none", "running", "exited", "reaped"}]
  /\ launched \in [Calls -> {"no", "clean", "late"}]

\* A call the runner works on was handed the copy its handler read, with a key that
\* passed the check of run_cancelled.
RunInv ==
  \A c \in Calls :
    /\ caller[c] = "admitted" \/ stage[c] # "none" =>
         phase[c] = "dispatched" /\ machine[c] = snap[c]
    /\ stage[c] # "none" => machine[c].pin # NoPin
    /\ R!Engaged(c) \/ launched[c] # "no" => stage[c] # "none"
    /\ ret[c] # "missing_host_pin"

ServiceInv == TableInv /\ HandlerTypes /\ ReadInv /\ RunnerTypes /\ RunInv

-----------------------------------------------------------------------------
(* The table.                                                              *)

\* A row of the schema is a target for the runner.
LEMMA TargetType ==
  ASSUME NEW row \in I!Row
  PROVE  Target(row) \in R!Machine /\ Target(row).pin = row.pin
BY DEF I!Row, R!Machine, Target

\* What a row of the table says of a machine is a host and a pin of the runner.
LEMMA TargetsType ==
  ASSUME NEW table \in [Ids -> I!Row \cup {None}], NEW i \in Ids
  PROVE  TargetOf(table, i) \subseteq R!Machine
BY TargetType DEF TargetOf

\* What a successful statement leaves is a valid row, or none.
LEMMA StatementResult ==
  ASSUME TableInv, NEW o \in I!Op, I!Validates(o), I!Verdict(o) = "ok"
  PROVE  /\ I!NewRow(o) \in I!Row \cup {None}
         /\ I!NewRow(o) # None => Validated(I!NewRow(o).pin)
<1>1. /\ o.id \in Ids /\ o.kind \in {"create", "update", "replace", "clear", "delete"}
      /\ o.kind \in {"create", "update"} => o.name \in Names /\ o.host \in Hosts
      /\ o.kind = "create" => o.pin \in Pins \cup {NoPin}
      /\ o.kind = "replace" => o.pin \in Pins
  BY DEF I!Op
<1>2. CASE o.kind = "create"
  BY <1>1, <1>2 DEF I!NewRow, I!Row, I!Validates, Validated
<1>3. CASE o.kind # "create"
  <2>1. rows[o.id] # None
    BY <1>3 DEF I!Verdict
  <2>2. rows[o.id] \in I!Row /\ Validated(rows[o.id].pin)
    BY <1>1, <2>1 DEF TableInv
  <2> QED
    BY <1>1, <1>3, <2>2 DEF I!NewRow, I!Row, I!Validates, Validated
<1> QED
  BY <1>2, <1>3

\* Every step of the inventory keeps the table valid.
LEMMA TableStep ==
  ASSUME TableInv, I!Next
  PROVE  TableInv'
<1>1. ASSUME NEW r \in Requests, NEW o \in I!Op, I!Submit(r, o) PROVE TableInv'
  BY <1>1 DEF TableInv, I!Submit, I!Validates
<1>2. ASSUME NEW r \in Requests, I!Execute(r) PROVE TableInv'
  <2>1. op[r] \in I!Op /\ I!Validates(op[r])
    BY <1>2 DEF TableInv, I!Execute
  <2>2. op[r].id \in Ids
    BY <2>1 DEF I!Op
  <2>3. rows' \in [Ids -> I!Row \cup {None}]
    BY <1>2, <2>1, <2>2, StatementResult DEF TableInv, I!Execute
  <2>4. ASSUME NEW i \in Ids, rows'[i] # None PROVE Validated(rows'[i].pin)
    <3>1. CASE I!Verdict(op[r]) = "ok" /\ i = op[r].id
      <4>1. rows'[i] = I!NewRow(op[r])
        BY <1>2, <3>1 DEF TableInv, I!Execute
      <4> QED
        BY <2>1, <2>4, <3>1, <4>1, StatementResult
    <3>2. CASE ~(I!Verdict(op[r]) = "ok" /\ i = op[r].id)
      <4>1. rows'[i] = rows[i]
        BY <1>2, <3>2 DEF TableInv, I!Execute
      <4> QED
        BY <2>4, <4>1 DEF TableInv
    <3> QED
      BY <3>1, <3>2
  <2>5. /\ op' = op /\ state' \in [Requests -> {"idle", "sent", "executed", "orphan", "answered"}]
        /\ \A s \in Requests : state'[s] \in {"sent", "orphan"} => state[s] \in {"sent", "orphan"}
    BY <1>2 DEF TableInv, I!Execute
  <2>6. \A s \in Requests : state'[s] \in {"sent", "orphan"} =>
          op'[s] \in I!Op /\ I!Validates(op'[s])
    BY <2>5 DEF TableInv
  <2> QED
    BY <2>3, <2>4, <2>5, <2>6 DEF TableInv, Validated, I!Validates
<1>3. ASSUME NEW r \in Requests, I!Reply(r) \/ I!DatabaseFails(r) \/ I!Cancel(r) \/ I!Lost(r)
      PROVE  TableInv'
  BY <1>3 DEF TableInv, Validated, I!Reply, I!DatabaseFails, I!Cancel, I!Lost, I!Validates
<1> QED
  BY <1>1, <1>2, <1>3 DEF I!Next

-----------------------------------------------------------------------------
(* The runner: what its steps keep.                                        *)

\* A step of the runner leaves the machine of every call alone.  A worker only appears for
\* an admitted call with a key, acts only once it is there, and complains about a key only
\* if it is not valid.
RunnerFrame ==
  /\ RunnerTypes'
  /\ machine' = machine
  /\ \A c \in Calls :
       /\ caller'[c] = "admitted" => caller[c] = "admitted"
       /\ stage'[c] # "none" =>
            \/ stage[c] # "none"
            \/ caller[c] = "admitted" /\ machine[c].pin # NoPin
       /\ stage[c] # "none" => stage'[c] # "none"
       /\ R!Engaged(c)' => R!Engaged(c) \/ stage[c] # "none"
       /\ launched'[c] # "no" => launched[c] # "no" \/ stage[c] # "none"
       /\ ret'[c] = "missing_host_pin" =>
            ret[c] = ret'[c] \/ (stage[c] # "none" /\ machine[c].pin \notin AcceptedPins)

\* What a step of a caller leaves of all the deploy tool relies on.
LEMMA CallerFrame ==
  ASSUME RunnerTypes, NEW c \in Calls, R!CallerStep(c)
  PROVE  RunnerFrame
<1> USE DEF RunnerTypes, RunnerFrame, R!WorkerTypes, R!WorkerStages, R!Set, R!Answer,
            R!childVars, R!Engaged
<1>1. CASE R!RejectRequest(c)
  BY <1>1 DEF R!RejectRequest
<1>2. CASE R!SpawnWorker(c)
  <2>1. machine[c].pin # NoPin
    BY <1>2, AbsenceAssumption DEF R!SpawnWorker, R!ResolveError, R!DeployResult, R!NotExecuted
  <2> QED
    BY <1>2, <2>1 DEF R!SpawnWorker
<1>3. CASE R!Receive(c)
  BY <1>3 DEF R!Receive
<1>4. CASE R!CancelRequest(c)
  BY <1>4 DEF R!CancelRequest
<1>5. CASE R!DropCaller(c)
  BY <1>5 DEF R!DropCaller
<1> QED
  BY <1>1, <1>2, <1>3, <1>4, <1>5 DEF R!CallerStep

\* The worker up to the start of uv.
LEMMA StartFrame ==
  ASSUME RunnerTypes, NEW c \in Calls,
         \/ R!RejectStart(c) \/ R!StartKeygen(c) \/ R!KeygenFails(c) \/ R!KeygenSucceeds(c)
         \/ R!KeygenStopped(c) \/ R!SignFails(c) \/ R!StartUv(c)
  PROVE  RunnerFrame
<1> USE DEF RunnerTypes, RunnerFrame, R!WorkerTypes, R!WorkerStages, R!Set, R!Return,
            R!Terminate, R!callerVars, R!childVars, R!Engaged, R!DeployResult, R!NotExecuted
<1>1. CASE R!RejectStart(c)
  BY <1>1 DEF R!RejectStart
<1>2. CASE R!StartKeygen(c)
  BY <1>2 DEF R!StartKeygen
<1>3. CASE R!KeygenFails(c)
  BY <1>3 DEF R!KeygenFails
<1>4. CASE R!KeygenSucceeds(c)
  BY <1>4 DEF R!KeygenSucceeds
<1>5. CASE R!KeygenStopped(c)
  BY <1>5 DEF R!KeygenStopped
<1>6. CASE R!SignFails(c)
  BY <1>6 DEF R!SignFails
<1>7. CASE R!StartUv(c)
  BY <1>7 DEF R!StartUv
<1> QED
  BY <1>1, <1>2, <1>3, <1>4, <1>5, <1>6, <1>7

\* The head of the loop of run_uv returns a result of the execution, or goes on.
LEMMA SettleResult ==
  ASSUME NEW c, NEW st, NEW dr, R!Settle(c, st, dr)
  PROVE  \/ UNCHANGED <<stage, ret, runDir>>
         \/ \E r \in R!DeployResult \ {"missing_host_pin"} : R!Return(c, r)
BY DEF R!Settle, R!DeployResult, R!OutcomeUnknown, R!Completed

\* The loop of run_uv and the end of the worker.
LEMMA UvFrame ==
  ASSUME RunnerTypes, NEW c \in Calls,
         \/ R!UvStopped(c) \/ R!UvExited(c) \/ R!UvWaitFails(c)
         \/ \E s \in R!Streams : R!UvDrained(c, s) \/ R!UvOverflow(c, s)
         \/ R!Terminated(c) \/ R!SendResult(c) \/ R!DropPermit(c)
  PROVE  RunnerFrame
<1> USE DEF RunnerTypes, RunnerFrame, R!WorkerTypes, R!WorkerStages, R!Set, R!Return,
            R!Terminate, R!Polled, R!DrainPolled, R!callerVars, R!childVars, R!Engaged
<1>1. CASE R!UvStopped(c)
  BY <1>1 DEF R!UvStopped, R!DeployResult, R!OutcomeUnknown
<1>2. CASE R!UvExited(c)
  <2>1. \/ UNCHANGED <<stage, ret, runDir>>
        \/ \E r \in R!DeployResult \ {"missing_host_pin"} : R!Return(c, r)
    BY <1>2, SettleResult DEF R!UvExited
  <2>2. /\ stage[c] # "none" /\ leader' = [leader EXCEPT ![c] = "reaped"]
        /\ UNCHANGED <<caller, machine, launched>>
    BY <1>2 DEF R!UvExited
  <2>3. CASE UNCHANGED <<stage, ret, runDir>>
    BY <2>2, <2>3
  <2>4. CASE \E r \in R!DeployResult \ {"missing_host_pin"} : R!Return(c, r)
    BY <2>2, <2>4
  <2> QED
    BY <2>1, <2>3, <2>4
<1>3. CASE R!UvWaitFails(c)
  BY <1>3 DEF R!UvWaitFails, R!DeployResult, R!OutcomeUnknown
<1>4. ASSUME NEW s \in R!Streams, R!UvDrained(c, s) PROVE RunnerFrame
  <2>1. \/ UNCHANGED <<stage, ret, runDir>>
        \/ \E r \in R!DeployResult \ {"missing_host_pin"} : R!Return(c, r)
    BY <1>4, SettleResult DEF R!UvDrained
  <2> QED
    BY <1>4, <2>1 DEF R!UvDrained
<1>5. ASSUME NEW s \in R!Streams, R!UvOverflow(c, s) PROVE RunnerFrame
  BY <1>5 DEF R!UvOverflow, R!DeployResult, R!OutcomeUnknown
<1>6. CASE R!Terminated(c)
  BY <1>6 DEF R!Terminated
<1>7. CASE R!SendResult(c)
  BY <1>7 DEF R!SendResult
<1>8. CASE R!DropPermit(c)
  BY <1>8 DEF R!DropPermit
<1> QED
  BY <1>1, <1>2, <1>3, <1>4, <1>5, <1>6, <1>7, <1>8

\* Timers, processes, and the end of the server.
LEMMA EnvironmentFrame ==
  ASSUME RunnerTypes, R!Shutdown \/ \E c \in Calls : R!ProcessStep(c)
  PROVE  RunnerFrame
<1> USE DEF RunnerTypes, RunnerFrame, R!WorkerTypes, R!WorkerStages, R!Set, R!callerVars,
            R!childVars, R!Engaged
<1>1. CASE R!Shutdown
  BY <1>1 DEF R!Shutdown
<1>2. ASSUME NEW c \in Calls, R!TimerExpires(c) PROVE RunnerFrame
  BY <1>2 DEF R!TimerExpires
<1>3. ASSUME NEW c \in Calls, R!ChildExits(c) PROVE RunnerFrame
  BY <1>3 DEF R!ChildExits
<1>4. ASSUME NEW c \in Calls, R!GroupChanges(c) PROVE RunnerFrame
  BY <1>4 DEF R!GroupChanges
<1>5. ASSUME NEW c \in Calls, NEW s \in R!Streams, R!DrainEnds(c, s) PROVE RunnerFrame
  BY <1>5 DEF R!DrainEnds
<1> QED
  BY <1>1, <1>2, <1>3, <1>4, <1>5 DEF R!ProcessStep

\* What a step of a worker leaves of it.
LEMMA ProceedFrame == RunnerTypes /\ R!Proceed => RunnerFrame
<1> SUFFICES ASSUME RunnerTypes, R!Proceed PROVE RunnerFrame
  OBVIOUS
<1>1. ASSUME NEW c \in Calls, R!WorkerStep(c) PROVE RunnerFrame
  BY <1>1, StartFrame, UvFrame DEF R!WorkerStep
<1> QED
  BY <1>1, CallerFrame, EnvironmentFrame DEF R!Proceed

-----------------------------------------------------------------------------
(* ServiceInv is inductive.                                                *)

\* No request is open, the stored keys are valid.
LEMMA ServiceInit == Init => ServiceInv
<1> SUFFICES ASSUME Init PROVE ServiceInv
  OBVIOUS
<1>1. TableInv
  BY DEF Init, TableInv, Validated
<1>2. HandlerTypes /\ ReadInv
  BY DEF Init, HandlerTypes, ReadInv
<1>3. RunnerTypes
  BY DEF Init, R!Init, RunnerTypes, R!WorkerTypes
<1>4. RunInv
  BY AbsenceAssumption DEF Init, R!Init, RunInv, R!Engaged, R!DeployResult, R!NotExecuted
<1> QED
  BY <1>1, <1>2, <1>3, <1>4 DEF ServiceInv

\* The handler reads: deploy_run up to the call of the runner.
LEMMA ReadSteps ==
  ASSUME ServiceInv, NEW c \in Calls,
         \/ \E d \in DeployIds, i \in Ids : Request(c, d, i)
         \/ Lookup(c) \/ LookupEnds(c)
  PROVE  ServiceInv'
<1> USE DEF ServiceInv
<1>1. UNCHANGED <<runnerVars, inventoryVars>>
  BY DEF Request, Lookup, LookupEnds
<1>2. TableInv' /\ RunnerTypes'
  BY <1>1 DEF runnerVars, inventoryVars, TableInv, Validated, I!Validates, RunnerTypes,
              R!WorkerTypes
<1>3. phase[c] \in {"idle", "lookup"}
  BY DEF Request, Lookup, LookupEnds
<1>4. caller[c] # "admitted" /\ stage[c] = "none"
  BY <1>3 DEF RunInv
<1>5. HandlerTypes' /\ ReadInv'
  <2>1. ASSUME NEW d \in DeployIds, NEW i \in Ids, Request(c, d, i)
        PROVE  HandlerTypes' /\ ReadInv'
    <3>1. TargetOf(rows, i) \subseteq R!Machine
      BY TargetsType DEF TableInv
    <3>2. HandlerTypes'
      BY <2>1, <3>1 DEF Request, HandlerTypes
    <3>3. ReadInv'
      BY <1>1, <2>1 DEF Request, HandlerTypes, ReadInv, inventoryVars, Validated
    <3> QED
      BY <3>2, <3>3
  <2>2. CASE Lookup(c)
    <3>1. want[c] \in [deploy : DeployIds, id : Ids]
      BY <2>2 DEF Lookup, ReadInv
    <3>2. rows[want[c].id] \in I!Row /\ Validated(rows[want[c].id].pin)
      BY <2>2, <3>1 DEF Lookup, TableInv
    <3>3. Target(rows[want[c].id]) \in seen[c]
      BY <2>2, <3>1 DEF Lookup, ReadInv, TargetOf
    <3>4. HandlerTypes'
      BY <2>2, <3>2, TargetType DEF Lookup, HandlerTypes
    <3>5. ReadInv'
      <4> SUFFICES ASSUME NEW d \in Calls
                   PROVE  /\ phase'[d] # "idle" => want'[d] \in [deploy : DeployIds, id : Ids]
                          /\ phase'[d] = "lookup" => TargetOf(rows', want'[d].id) \subseteq seen'[d]
                          /\ phase'[d] \in {"ready", "dispatched"} =>
                               /\ snap'[d] \in seen'[d] /\ snap'[d] \in R!Machine
                               /\ Validated(snap'[d].pin)
        BY DEF ReadInv, Validated
      <4>1. CASE d = c
        BY <2>2, <3>1, <3>2, <3>3, <4>1, TargetType DEF Lookup, HandlerTypes
      <4>2. CASE d # c
        BY <1>1, <2>2, <4>2 DEF Lookup, HandlerTypes, ReadInv, inventoryVars
      <4> QED
        BY <4>1, <4>2
    <3> QED
      BY <3>4, <3>5
  <2>3. CASE LookupEnds(c)
    BY <1>1, <2>3 DEF LookupEnds, HandlerTypes, ReadInv, inventoryVars, Validated
  <2> QED
    BY <2>1, <2>2, <2>3
<1>6. \A d \in Calls \ {c} : phase'[d] = phase[d] /\ snap'[d] = snap[d]
  BY DEF Request, Lookup, LookupEnds, HandlerTypes
<1>7. RunInv'
  BY <1>1, <1>4, <1>6 DEF RunInv, runnerVars, R!Engaged
<1> QED
  BY <1>2, <1>5, <1>7

\* The handler calls the runner with its copy.
LEMMA DispatchStep ==
  ASSUME ServiceInv, NEW c \in Calls, Dispatch(c)
  PROVE  ServiceInv'
<1> USE DEF ServiceInv
<1>1. phase[c] = "ready" /\ UNCHANGED <<inventoryVars, want, snap, seen>>
  BY DEF Dispatch
<1>2. TableInv'
  BY <1>1 DEF inventoryVars, TableInv, Validated, I!Validates
<1>3. HandlerTypes' /\ ReadInv'
  BY <1>1 DEF Dispatch, HandlerTypes, ReadInv, inventoryVars, Validated
<1>4. snap[c] \in R!Machine /\ caller[c] # "admitted" /\ stage[c] = "none"
  BY <1>1 DEF ReadInv, RunInv
<1>5. UNCHANGED <<stage, ret, runDir, leader, launched>>
  BY DEF Dispatch, R!Enter, R!RejectBusy, R!Acquire, R!childVars
<1>6. CASE R!RejectBusy(c)
  <2>1. RunnerTypes'
    BY <1>5, <1>6 DEF R!RejectBusy, R!Answer, R!Set, RunnerTypes, R!WorkerTypes
  <2>2. RunInv'
    BY <1>1, <1>4, <1>5, <1>6
       DEF Dispatch, R!RejectBusy, R!Answer, R!Set, RunInv, RunnerTypes, HandlerTypes, R!Engaged
  <2> QED
    BY <1>2, <1>3, <2>1, <2>2
<1>7. CASE R!Acquire(c, want[c].deploy, snap[c])
  <2>1. RunnerTypes'
    BY <1>4, <1>5, <1>7 DEF R!Acquire, R!Set, RunnerTypes, R!WorkerTypes
  <2>2. RunInv'
    BY <1>1, <1>4, <1>5, <1>7
       DEF Dispatch, R!Acquire, R!Set, RunInv, RunnerTypes, HandlerTypes, R!Engaged
  <2> QED
    BY <1>2, <1>3, <2>1, <2>2
<1> QED
  BY <1>6, <1>7 DEF Dispatch, R!Enter

\* The runner runs: what it complains about cannot be the key.
LEMMA RunnerSteps ==
  ASSUME ServiceInv, RunnerStep
  PROVE  ServiceInv'
<1> USE DEF ServiceInv
<1>1. RunnerFrame /\ UNCHANGED <<inventoryVars, handlerVars>>
  BY ProceedFrame DEF RunnerStep
<1>2. TableInv' /\ HandlerTypes' /\ ReadInv'
  BY <1>1 DEF inventoryVars, handlerVars, TableInv, HandlerTypes, ReadInv, Validated, I!Validates
<1>3. \A c \in Calls : stage[c] # "none" => machine[c].pin \in AcceptedPins
  BY StorableAccepted DEF RunInv, ReadInv, Validated
<1>4. RunInv'
  BY <1>1, <1>3 DEF handlerVars, RunnerFrame, RunInv, R!Engaged
<1> QED
  BY <1>1, <1>2, <1>4 DEF RunnerFrame

\* The table changes under the calls: what was seen stays seen, what is new is added.
LEMMA InventorySteps ==
  ASSUME ServiceInv, InventoryStep
  PROVE  ServiceInv'
<1> USE DEF ServiceInv
<1>1. TableInv'
  BY TableStep DEF InventoryStep
<1>2. UNCHANGED <<runnerVars, phase, want, snap>>
  BY DEF InventoryStep
<1>3. RunnerTypes' /\ RunInv'
  BY <1>2 DEF runnerVars, RunnerTypes, R!WorkerTypes, RunInv, R!Engaged
<1>4. ASSUME NEW c \in Calls
      PROVE  /\ seen[c] \subseteq seen'[c]
             /\ want[c] # None => TargetOf(rows', want[c].id) \subseteq seen'[c]
             /\ seen'[c] \subseteq R!Machine
  <2>1. want[c] # None => TargetOf(rows', want[c].id) \subseteq R!Machine
    BY <1>1, TargetsType DEF TableInv, HandlerTypes
  <2> QED
    BY <2>1 DEF InventoryStep, HandlerTypes
<1>5. HandlerTypes'
  BY <1>2, <1>4 DEF InventoryStep, HandlerTypes
<1>6. ReadInv'
  BY <1>2, <1>4, AbsenceAssumption DEF ReadInv, Validated
<1> QED
  BY <1>1, <1>3, <1>5, <1>6

\* Every step of the composition keeps the invariant.
LEMMA ServiceNext == ServiceInv /\ [Next]_vars => ServiceInv'
<1> SUFFICES ASSUME ServiceInv, [Next]_vars PROVE ServiceInv'
  OBVIOUS
<1>1. CASE Next
  BY <1>1, ReadSteps, DispatchStep, RunnerSteps, InventorySteps DEF Next
<1>2. CASE UNCHANGED vars
  BY <1>2 DEF vars, runnerVars, inventoryVars, handlerVars, ServiceInv, TableInv, HandlerTypes,
              ReadInv, RunnerTypes, RunInv, Validated, I!Validates, R!WorkerTypes, R!Engaged
<1> QED
  BY <1>1, <1>2

\* The invariant holds in every reachable state.
LEMMA ServiceInvHolds == Spec => []ServiceInv
BY ServiceInit, ServiceNext, PTL DEF Spec

-----------------------------------------------------------------------------
(* The theorems.                                                           *)

\* The known_hosts file of a deploy pairs a host and a key that the machine had in one row
\* while the request was open, whatever mutations overlap it (mcp.rs deploy_run,
\* runner.rs worker).
THEOREM KnownHostsHolds == Spec => []KnownHostsWasARow
<1>1. ServiceInv => KnownHostsWasARow
  BY DEF ServiceInv, RunInv, ReadInv, KnownHostsWasARow
<1> QED
  BY <1>1, ServiceInvHolds, PTL

\* The worker's check of the key never fails for a machine of the inventory, whatever
\* mutations overlap the deploy: a stored key passed the inventory's own check, and by
\* ValidatorsAgree the runner's (inventory.rs:330-360, runner.rs:622-642).
THEOREM StoredPinAccepted == Spec => []WorkerAcceptsStoredPin
<1>1. ServiceInv => WorkerAcceptsStoredPin
  BY DEF ServiceInv, RunInv, WorkerAcceptsStoredPin
<1> QED
  BY <1>1, ServiceInvHolds, PTL

\* deploy_run drives the runner only as its specification allows, so the theorems about
\* DeployRunner hold of the runner under the deploy tool.
THEOREM ServiceImplementsRunner == Spec => R!Spec
<1>1. Init => R!Init
  BY DEF Init
<1>2. ServiceInv /\ [Next]_vars => [R!Next]_(R!vars)
  <2> SUFFICES ASSUME ServiceInv, [Next]_vars PROVE [R!Next]_(R!vars)
    OBVIOUS
  <2>1. ASSUME NEW c \in Calls, Dispatch(c) PROVE R!Next
    <3>1. want[c].deploy \in DeployIds /\ snap[c] \in R!Machine
      BY <2>1 DEF Dispatch, ServiceInv, ReadInv
    <3> QED
      BY <2>1, <3>1 DEF Dispatch, R!Next
  <2>2. CASE RunnerStep
    BY <2>2 DEF RunnerStep, R!Next
  <2>3. CASE UNCHANGED runnerVars
    BY <2>3 DEF runnerVars, R!vars
  <2>4. ASSUME NEW c \in Calls,
               Lookup(c) \/ LookupEnds(c) \/ \E d \in DeployIds, i \in Ids : Request(c, d, i)
        PROVE  UNCHANGED runnerVars
    BY <2>4 DEF Lookup, LookupEnds, Request
  <2>5. InventoryStep \/ UNCHANGED vars => UNCHANGED runnerVars
    BY DEF InventoryStep, vars
  <2> QED
    BY <2>1, <2>2, <2>3, <2>4, <2>5 DEF Next
<1> QED
  BY <1>1, <1>2, ServiceInvHolds, PTL DEF Spec, R!Spec

=============================================================================
