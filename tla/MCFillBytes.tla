----------------------------- MODULE MCFillBytes -----------------------------
(* A small instance of FillBytes for TLC. *)
EXTENDS FillBytes

CONSTANTS g1, g2

MCFiles == {g1, g2}
MCInodes == {<<1, 1>>, <<1, 2>>}

(* Twice as long as the buffer of two bytes, or shorter than it; the last   *)
(* three bytes take a chunk and a half.                                     *)
MCContents == {<<0>>, <<0, 1, 0, 0>>, <<1, 1, 0, 0>>}

(* First and last bytes by XXH128 (5) and whole files by SHA512 (5 as a     *)
(* stage) and XXH128 (6): the shorter digest comes after the longer one,    *)
(* and only XXH128 is the one that has to be reset.                         *)
MCOption(first, last, stages) ==
  [remove_identical_inode |-> TRUE, first_bytes_size |-> first, last_bytes_size |-> last,
   checksums |-> stages, checksum_for_firstlast_bytes |-> 5]
MCOptions == {MCOption(2, 3, {}), MCOption(0, 0, {5, 6})}

MCBits(b) ==
  CASE Len(b) = 0 -> 1
    [] Len(b) = 1 -> 2 + b[1]
    [] Len(b) = 2 -> 4 + 2 * b[1] + b[2]
    [] Len(b) = 3 -> 8 + 4 * b[1] + 2 * b[2] + b[3]
    [] Len(b) = 4 -> 16 + 8 * b[1] + 4 * b[2] + 2 * b[3] + b[4]
    [] OTHER -> 32 + Len(b)
MCHash(t, b, p) == IF p = 1 THEN MCBits(b) ELSE 64 + t
=============================================================================
