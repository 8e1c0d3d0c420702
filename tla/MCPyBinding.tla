---------------------------- MODULE MCPyBinding ----------------------------
(* Threads, targets, containers and jobs are interchangeable in the        *)
(* invariants, which is all that the runs with this symmetry check.        *)
EXTENDS PyBinding

Symmetry == Permutations(Threads) \cup Permutations(Targets) \cup
            Permutations(Containers) \cup Permutations(Jobs)
=============================================================================
