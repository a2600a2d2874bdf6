------------------------ MODULE MCTcpServerThreaded -------------------------
(* Instances of TcpServerThreaded for TLC.                                  *)
EXTENDS TcpServerThreaded, TLC
=============================================================================
