---------------------------- MODULE MCSSHClient ----------------------------
(* SSHClient for TLC: callers, contents, connections and entries are        *)
(* interchangeable.                                                         *)
EXTENDS SSHClient, TLC

Symmetry ==
  Permutations(Callers) \cup Permutations(IDs) \cup Permutations(Contents)
    \cup Permutations(Conns) \cup Permutations(Ents)
=============================================================================
