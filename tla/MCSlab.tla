------------------------------- MODULE MCSlab -------------------------------
EXTENDS Slab, TLC

\* Clients differ in their names only.
ClientSymmetry == Permutations(Clients)
=============================================================================
