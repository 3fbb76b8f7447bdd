------------------------------ MODULE CArrays ------------------------------
(***************************************************************************)
(* C arrays, written as sequences.                                         *)
(***************************************************************************)
EXTENDS Integers, Sequences

(* table[i], counted from 0.                                               *)
At(table, i) == table[i + 1]
=============================================================================
