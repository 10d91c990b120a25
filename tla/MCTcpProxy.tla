------------------------------ MODULE MCTcpProxy ------------------------------
(* A small instance of TcpProxy.                                           *)
EXTENDS TcpProxy

=============================================================================
