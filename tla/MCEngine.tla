------------------------------ MODULE MCEngine ------------------------------
(***************************************************************************)
(* Instances of Engine for TLC.                                            *)
(***************************************************************************)
EXTENDS Engine, TLC

CONSTANTS a1, t1

(* rules.json of a first start, and one with a local and a remote rule.    *)
NoRules == [i \in {} |-> Nil]

OneLocal == [i \in {1} |-> [typ |-> "local", listen |-> a1, target |-> t1]]

LocalAndRemote ==
  [i \in {1, 2} |-> [typ |-> IF i = 1 THEN "local" ELSE "remote",
                     listen |-> a1, target |-> t1]]

(* Goroutines, objects and listeners are interchangeable.                  *)
Symmetry == Permutations(Procs) \cup Permutations(Objs) \cup Permutations(Lsns)
=============================================================================
