-------------------------- MODULE MCDeployService ---------------------------
(* One deploy request against one machine, and one inventory request that    *)
(* overlaps it: create, update, host-key.clear, host-key.replace or delete.  *)
(* The keys: two good ones, one with a byte too many or too few, one of      *)
(* another algorithm, and one with a comment after it.                       *)
EXTENDS DeployService, TLC

Symmetry == Permutations(Requests)

Zeros(n) == [i \in 1 .. n |-> 0]
Word == [is |-> "algorithm", bytes |-> << >>]
Base64(bytes) == [is |-> "base64", bytes |-> bytes]
Comment == [is |-> "other", bytes |-> << >>]

Blob(algorithm, key) ==
  <<0, 0, 0, Len(algorithm)>> \o algorithm \o <<0, 0, 0, Len(key)>> \o key

\* 80 bytes: "ssh-ed25519", a space, and 68 of base64, for 50 or 51 bytes.
Line(blob) == [fields |-> <<Word, Base64(blob)>>, length |-> 80]

MCText == [p \in Pins |->
  CASE p = "key" -> Line(Blob(AlgorithmName, Zeros(32)))
    [] p = "other key" -> Line(Blob(AlgorithmName, [i \in 1 .. 32 |-> 1]))
    [] p = "byte more" -> [Line(Blob(AlgorithmName, Zeros(32)) \o <<0>>) EXCEPT !.length = 84]
    [] p = "byte less" -> Line(Blob(AlgorithmName, Zeros(31)))
    [] p = "other algorithm" -> Line(Blob([AlgorithmName EXCEPT ![11] = 56], Zeros(32)))
    [] p = "comment" -> [fields |-> <<Word, Base64(Blob(AlgorithmName, Zeros(32))), Comment>>,
                         length |-> 88]]
=============================================================================
