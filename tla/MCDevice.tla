------------------------------ MODULE MCDevice ------------------------------
(* Instances of Device for TLC.                                             *)
EXTENDS Device, TLC

Perms == Permutations(Dev) \cup Permutations(Tty) \cup Permutations(Place)
=============================================================================
