------------------------------- MODULE MCDaemon -------------------------------
(* A small instance of Daemon: two processes for the same name, each a     *)
(* daemon or a command in the foreground, one after the other or at once.  *)
EXTENDS Daemon

MCKind == [n \in Name |-> "http"]
MCNameOf == [t \in Tunnel |-> CHOOSE n \in Name : TRUE]

=============================================================================
