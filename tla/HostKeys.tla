------------------------------- MODULE HostKeys -------------------------------
(***************************************************************************)
(* The two checks of the text of a host key: validate_host_public_key of   *)
(* src/inventory.rs, before a key is stored, and validate_host_pin of      *)
(* src/integrations/deploys/runner.rs, before a deploy writes it to        *)
(* known_hosts.  They are separate code, and read the key differently.     *)
(***************************************************************************)
EXTENDS Integers, Sequences

Byte == 0 .. 255

\* A text is what split(' ') makes of it: fields that are the word ssh-ed25519, base64 of
\* some bytes, empty, or something else; "blank" has white space other than a space at its
\* ends.  Its length is in bytes.
KeyText ==
  [fields : Seq([is : {"algorithm", "base64", "empty", "blank", "other"}, bytes : Seq(Byte)]),
   length : Nat]

\* b"ssh-ed25519"
AlgorithmName == <<115, 115, 104, 45, 101, 100, 50, 53, 53, 49, 57>>

-----------------------------------------------------------------------------
(* The inventory: the two strings of the SSH wire format, one after the other. *)

\* trim() leaves the text as it is.
Trimmed(t) ==
  \/ t.length = 0
  \/ /\ t.fields[1].is \notin {"empty", "blank"}
     /\ t.fields[Len(t.fields)].is \notin {"empty", "blank"}

\* u32::from_be_bytes of the four bytes after the first offset ones.
BigEndian(bytes, offset) ==
  256 * (256 * (256 * bytes[offset + 1] + bytes[offset + 2]) + bytes[offset + 3])
    + bytes[offset + 4]

\* ssh_string: where the string at an offset ends, its bytes, and whether it is all there.
StringEnd(bytes, offset) == offset + 4 + BigEndian(bytes, offset)
StringAt(bytes, offset) == SubSeq(bytes, offset + 5, StringEnd(bytes, offset))
HasString(bytes, offset) ==
  offset + 4 <= Len(bytes) /\ StringEnd(bytes, offset) <= Len(bytes)

WithoutItsEnd(t) ==
  /\ t.length <= 256 /\ Trimmed(t)
  /\ Len(t.fields) = 2 /\ t.fields[1].is = "algorithm" /\ t.fields[2].is = "base64"
  /\ LET decoded == t.fields[2].bytes
         key == StringEnd(decoded, 0)
     IN  /\ HasString(decoded, 0) /\ HasString(decoded, key)
         /\ StringAt(decoded, 0) = AlgorithmName
         /\ Len(StringAt(decoded, key)) = 32

\* validate_host_public_key
ValidHostPublicKey(t) ==
  /\ t.length <= 256 /\ Trimmed(t)
  /\ Len(t.fields) = 2 /\ t.fields[1].is = "algorithm" /\ t.fields[2].is = "base64"
  /\ LET decoded == t.fields[2].bytes
         key == StringEnd(decoded, 0)
     IN  /\ HasString(decoded, 0) /\ HasString(decoded, key)
         /\ StringAt(decoded, 0) = AlgorithmName
         /\ Len(StringAt(decoded, key)) = 32
         /\ StringEnd(decoded, key) = Len(decoded)

-----------------------------------------------------------------------------
(* The runner: the bytes at their fixed places.                            *)

\* validate_host_pin
ValidHostPin(t) ==
  /\ Len(t.fields) = 2 /\ t.fields[1].is = "algorithm" /\ t.fields[2].is = "base64"
  /\ t.length <= 256
  /\ LET bytes == t.fields[2].bytes
     IN  /\ Len(bytes) = 51
         /\ SubSeq(bytes, 1, 15) =
              <<0, 0, 0, 11, 115, 115, 104, 45, 101, 100, 50, 53, 53, 49, 57>>
         /\ SubSeq(bytes, 16, 19) = <<0, 0, 0, 32>>
=============================================================================
