---------------------------- MODULE MCTcpServer -----------------------------
(* Instances of TcpServer for TLC.                                          *)
EXTENDS TcpServer, TLC
=============================================================================
