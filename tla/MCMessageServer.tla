--------------------------- MODULE MCMessageServer ---------------------------
(* The message server on small sets of threads. *)
EXTENDS MessageServer, TLC

ThreadSymmetry == Permutations(Producers) \cup Permutations(Workers)
=============================================================================
