------------------------------- MODULE Powers -------------------------------
(***************************************************************************)
(* The powers of two that the code computes with shifts and repeated       *)
(* doublings, as a recursive function that proofs can unfold.              *)
(***************************************************************************)
EXTENDS Integers

\* 1 << n
Pow2[n \in Nat] == IF n = 0 THEN 1 ELSE 2 * Pow2[n - 1]
=============================================================================
