------------------------------- MODULE MCCalls -------------------------------
(* Calls for TLC.  Descriptors are interchangeable.                         *)
EXTENDS Calls, TLC

Perms == Permutations(Cpvt)
=============================================================================
