---------------------------- MODULE MCTcpClient ----------------------------
(* Two sessions of one client with two addresses, one of which may go. *)
EXTENDS TcpClient, TLC

TwoThenOne == {<<"a", "b">>, <<"b">>}
=============================================================================
