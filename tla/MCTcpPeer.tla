----------------------------- MODULE MCTcpPeer -----------------------------
(* One connection in each of its roles, with few messages. *)
EXTENDS TcpPeer, TLC

AllRoles == {"client", "server"} \X BOOLEAN
UserSymmetry == Permutations(Users)
=============================================================================
