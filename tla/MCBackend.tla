------------------------------ MODULE MCBackend -----------------------------
(* Instances of Backend for TLC.                                           *)
EXTENDS Backend, TLC

Symmetry == Permutations(Addr)
=============================================================================
