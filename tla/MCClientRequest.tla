--------------------------- MODULE MCClientRequest ---------------------------
(* Blocking calls on a small set of callers. *)
EXTENDS ClientRequest, TLC

CallerSymmetry == Permutations(Callers)
=============================================================================
