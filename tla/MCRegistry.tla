------------------------------ MODULE MCRegistry ------------------------------
(* Small instances of ClientRegistry for TLC. *)
EXTENDS ClientRegistry, TLC

CONSTANTS f1, f2, p1, u1

\* accept() chooses descriptors and nothing orders them.
Symmetry == Permutations({f1, f2})
===============================================================================
