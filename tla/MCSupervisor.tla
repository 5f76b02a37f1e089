---------------------------- MODULE MCSupervisor -----------------------------
(* Supervisor on small instances: the values of Visitors and Stoppers are     *)
(* model values of the cfg files.                                             *)
EXTENDS Supervisor, TLC

\* Visitors and callers of stop() are interchangeable in the safety runs.
Symmetry == Permutations(Visitors) \cup Permutations(Stoppers)
==============================================================================
