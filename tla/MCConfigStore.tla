---------------------------- MODULE MCConfigStore ----------------------------
(* ConfigStore with a few overlapping calls.                                  *)
EXTENDS ConfigStore, TLC

\* Neither profiles nor callers have an order, and names and secrets only differ.
Symmetry == Permutations(Profiles) \cup Permutations(Callers) \cup Permutations(Names)
==============================================================================
