------------------------------ MODULE MCPortal ------------------------------
(***************************************************************************)
(* An instance of Portal: two threads, one session at a time and a         *)
(* confirmation.                                                           *)
(***************************************************************************)
EXTENDS Portal, TLC

CONSTANTS t1, t2, s1, k1

Symmetric == Permutations(Threads)
=============================================================================
