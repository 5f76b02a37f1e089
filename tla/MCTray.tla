-------------------------------- MODULE MCTray --------------------------------
(* Tray on small instances: the values are model values of the cfg files.     *)
EXTENDS Tray, TLC

\* Profiles, names and refresh tasks have no order.
Symmetry == Permutations(Profiles) \cup Permutations(Names) \cup Permutations(Refreshes)
==============================================================================
