------------------------------- MODULE Bytes -------------------------------
(***************************************************************************)
(* Byte strings as sequences of 0 .. 255, and big-endian integers in them. *)
(* Integers are below 2^16: an encoding has only zeros before its last two *)
(* bytes, and one that has not is larger than any length or index.         *)
(***************************************************************************)
EXTENDS Integers, Sequences

Huge == 2 ^ 30

\* The result of an operation that returns an error.
Failed == [ok |-> FALSE]

\* to_be_bytes, on w >= 2 bytes.
Be(n, w) == [i \in 1 .. w |-> IF i = w THEN n % 256 ELSE IF i = w - 1 THEN n \div 256 ELSE 0]

\* from_be_bytes.
FromBe(b) ==
  IF \E i \in 1 .. Len(b) - 2 : b[i] # 0 THEN Huge
  ELSE 256 * b[Len(b) - 1] + b[Len(b)]

\* n bytes that are all b.
Fill(b, n) == [i \in 1 .. n |-> b]

\* n bytes after the first `pos'; the bytes after the first `pos'.
Slice(b, pos, n) == SubSeq(b, pos + 1, pos + n)
Rest(b, pos) == SubSeq(b, pos + 1, Len(b))
=============================================================================
