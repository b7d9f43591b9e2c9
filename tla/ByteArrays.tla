------------------------------ MODULE ByteArrays ------------------------------
(* Arrays of the code, as sequences: an index of the code is one less.       *)
EXTENDS Naturals, Sequences

UINT8 == 256
Octet == 0..UINT8 - 1

\* a[i] of the code.
At(array, i) == array[i + 1]

\* The n bytes at array + from.
Bytes(array, from, n) == SubSeq(array, from + 1, from + n)
==============================================================================
