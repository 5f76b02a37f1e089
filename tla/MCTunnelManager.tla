--------------------------- MODULE MCTunnelManager ---------------------------
(* TunnelManager on small instances: profiles and callers are model values of *)
(* the cfg files.                                                             *)
EXTENDS TunnelManager, TLC

\* Neither profiles nor callers have an order.
Symmetry == Permutations(Profiles) \cup Permutations(Callers)
==============================================================================
