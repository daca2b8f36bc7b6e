----------------------------- MODULE MCWebConfig -----------------------------
(* WebConfig with its constants fixed for TLC.                              *)
EXTENDS WebConfig, TLC

CONSTANTS r1, r2

MCRequests == {r1, r2}
Symmetry == Permutations(MCRequests)
=============================================================================
