---------------------------- MODULE MCThreadLib ----------------------------
(* Instances of ThreadLib and its refinement for TLC.                      *)
EXTENDS ThreadLibRefinement

Symmetry == Permutations(Threads) \cup Permutations(Locks) \cup
            Permutations(Conds)
=============================================================================
