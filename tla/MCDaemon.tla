------------------------------ MODULE MCDaemon ------------------------------
EXTENDS Daemon, TLC

(* A first start; a rule on the only credential; a rule on each of two.     *)
Disk(r, s) == [rules |-> [i \in IDs |-> IF i \in DOMAIN r THEN r[i] ELSE Nil],
               creds |-> s]
MCDisks == {Disk(<<>>, {}), Disk(<<1>>, {1}), Disk(<<1, 2>>, {1, 2})}

Symmetry == Permutations(Procs) \cup Permutations(Cls)
=============================================================================
