---------------------------- MODULE MCContainer ----------------------------
(* Definitions a configuration file cannot write.  Handles, jobs and       *)
(* threads are interchangeable in the invariants and in Sandbox, which is  *)
(* all this run checks.                                                    *)
EXTENDS Container, TLC

CONSTANT users

MCWellKnownSids == <<users>>

Symmetry == Permutations(Tokens) \cup Permutations(Desktops) \cup
            Permutations(Jobs) \cup Permutations(Spawners)
=============================================================================
