----------------------------- MODULE MCLogQueue -----------------------------
(* The logger with small packs and few threads. *)
EXTENDS LogQueue, TLC

PosterSymmetry == Permutations(Posters)
=============================================================================
