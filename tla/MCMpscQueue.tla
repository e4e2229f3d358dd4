---- MODULE MCMpscQueue ----
(* Small instances of MpscQueue for TLC. *)
EXTENDS MpscQueue, TLC

ProducerSymmetry == Permutations(Producers)
====
