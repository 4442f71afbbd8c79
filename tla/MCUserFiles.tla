----------------------------- MODULE MCUserFiles -----------------------------
(* A small instance of UserFiles.                                            *)
EXTENDS UserFiles, TLC

CONSTANTS f1, f2, r1, r2

MCIds == {f1, f2}
MCRequests == {r1, r2}
Symmetry == Permutations(MCIds) \union Permutations(MCRequests)
==============================================================================
