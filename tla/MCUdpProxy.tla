------------------------------ MODULE MCUdpProxy ------------------------------
(* Small instances of UdpProxy.                                            *)
EXTENDS UdpProxy

CONSTANTS x1, x2, r1, r2

=============================================================================
