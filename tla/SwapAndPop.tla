------------------------------ MODULE SwapAndPop ------------------------------
(***************************************************************************)
(* How contracts/src takes an element out of an array: the last one is     *)
(* moved into its place and the array popped.                              *)
(***************************************************************************)
EXTENDS Naturals, Sequences

\* The array without position k.
SwapPop(s, k) ==
    [j \in 1 .. Len(s) - 1 |-> IF j = k THEN s[Len(s)] ELSE s[j]]
=============================================================================
