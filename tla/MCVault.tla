------------------------------- MODULE MCVault ------------------------------
(***************************************************************************)
(* The vault with a few processes, which are interchangeable.              *)
(***************************************************************************)
EXTENDS Vault, TLC

Symmetry == Permutations(Proc) \cup Permutations(Addr)
=============================================================================
