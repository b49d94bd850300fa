-------------------------------- MODULE VMChunk --------------------------------
(***************************************************************************)
(* The sizes of virtual memory, src/vm.c: memory is counted in lines of    *)
(* 64 bytes, and a chunk of class c is 2^(c-1) lines long.                 *)
(***************************************************************************)
EXTENDS Integers

\* The powers of two.
Power2[n \in Nat] == IF n = 0 THEN 1 ELSE 2 * Power2[n - 1]

LinesIn(c) == Power2[c - 1]

Span(a, c) == a .. a + LinesIn(c) - 1
=============================================================================
