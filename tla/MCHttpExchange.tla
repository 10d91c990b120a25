---------------------------- MODULE MCHttpExchange ----------------------------
(* Small instances of HttpExchange.                                        *)
EXTENDS HttpExchange

CONSTANTS q1, q2

=============================================================================
