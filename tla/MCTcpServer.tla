----------------------------- MODULE MCTcpServer -----------------------------
(* The TCP server on small sets of connections and business threads, with the
   sweep and without it. *)
EXTENDS TcpServer, TLC

CONSTANTS t1, t2
SweptOrNot == [threads : {{t1, t2}}, clean_inactive : BOOLEAN]
=============================================================================
