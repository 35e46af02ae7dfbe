------------------------------- MODULE MCDisk -------------------------------
(***************************************************************************)
(* The disk with documents at and past each of the vault's ceilings, one   *)
(* whose work wraps around in 64 bits, one that is within the ceiling only *)
(* because its factors are not powers of two, one whose n is none, and one *)
(* with a zero.                                                            *)
(***************************************************************************)
EXTENDS Disk, TLC

At(n, r, p) ==
    LET work == n + r + p
    IN  [n |-> n, r |-> r, p |-> p, work |-> work,
         product |-> IF work < Bits THEN work ELSE 0, power |-> TRUE, zero |-> FALSE]

MCParams ==
    {At(13, 3, 0), At(18, 3, 0), At(18, 4, 0), At(19, 0, 0), At(48, 8, 8),
     [At(17, 2, 3) EXCEPT !.work = 21, !.product = 21],
     [At(13, 3, 0) EXCEPT !.power = FALSE],
     [At(18, 0, 4) EXCEPT !.work = 0, !.product = 0, !.zero = TRUE]}

Symmetry == Permutations(Addr) \cup Permutations(Password)
=============================================================================
