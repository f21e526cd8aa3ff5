--------------------------- MODULE MCProjectUpdate ---------------------------
(***************************************************************************)
(* An instance of ProjectUpdate: one source archive that is uploaded and   *)
(* one full release from GitHub.                                           *)
(***************************************************************************)
EXTENDS ProjectUpdate, TLC

CONSTANTS upload, github, r1, r2

BySource == {<<upload, "bootstrap-only">>}
LeftAlone == {<<"portal", upload>>, <<"service", github>>}
Symmetric == Permutations(Requests)
=============================================================================
