---- MODULE MCExporter ----
(* Small instances of Exporter for TLC. *)
EXTENDS Exporter, TLC

EmitterSymmetry == Permutations(Emitters)

\* All signals at one collector.
OneEndpoint == [s \in Signals |-> "h0"]
====
