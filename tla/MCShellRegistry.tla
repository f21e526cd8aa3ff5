--------------------------- MODULE MCShellRegistry ---------------------------
(***************************************************************************)
(* Instances of ShellRegistry.  Threads, shells and owners are alike.      *)
(***************************************************************************)
EXTENDS ShellRegistry, TLC

CONSTANTS t1, t2, s1, s2, s3, o1, o2

Symmetry == Permutations(Threads) \cup Permutations(Shells) \cup Permutations(Owners)
=============================================================================
