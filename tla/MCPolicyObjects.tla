-------------------------- MODULE MCPolicyObjects --------------------------
(* Addresses, Python objects and the sessions of users are interchangeable *)
(* in the invariants, which is all this run checks.                        *)
EXTENDS PolicyObjects, TLC

Symmetry == Permutations(Logons) \cup Permutations(LogonObjects) \cup
            Permutations(Sessions \ {CurrentSession})
=============================================================================
