------------------------------ MODULE MCTunnel ------------------------------
(* Tunnel for TLC: callers, addresses, connections and listeners are        *)
(* interchangeable.                                                         *)
EXTENDS Tunnel, TLC

Symmetry ==
  Permutations(Callers) \cup Permutations(Addrs) \cup Permutations(Conns)
    \cup Permutations(Lsns)
=============================================================================
