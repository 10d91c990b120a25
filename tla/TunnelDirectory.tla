--------------------------- MODULE TunnelDirectory ---------------------------
(***************************************************************************)
(* What the relay server promises of its tunnels, without handlers,        *)
(* tokens, listeners or a database: a directory of names.  A name leads to *)
(* one session at most; it is given only to a session that has not ended,  *)
(* and only when it is free or already belongs to the same tunnel; and a   *)
(* session ends only after every name that leads to it is gone, so that a  *)
(* public request is never routed to a session that ended.                 *)
(***************************************************************************)

CONSTANTS
    Name,       \* names a tunnel can be reached by
    TunnelId,   \* tunnels, the empty id included
    Session     \* relay sessions

VARIABLES
    bound,      \* set of [name, tid, session]
    ended       \* sessions that ended

vars == <<bound, ended>>

Entry == [name : Name, tid : TunnelId, session : Session]

DirectoryTypeOK ==
    /\ bound \in SUBSET Entry
    /\ ended \in SUBSET Session

Init ==
    /\ bound = {}
    /\ ended = {}

(* A session is given a name that is free or is its own tunnel's already.  *)
Bind(e) ==
    /\ e.session \notin ended
    /\ \A b \in bound : b.name = e.name => b.tid = e.tid
    /\ bound' = {b \in bound : b.name # e.name} \cup {e}
    /\ UNCHANGED ended

(* Names are taken back: one by its handler, all of a tunnel's by a kill.  *)
Unbind ==
    /\ bound' \in SUBSET bound
    /\ UNCHANGED ended

(* A session ends; nothing may lead to it any more.                        *)
End(s) ==
    /\ \A b \in bound : b.session # s
    /\ ended' = ended \cup {s}
    /\ UNCHANGED bound

(* The server stops: the directory is in memory and every session ends.    *)
Stop ==
    /\ bound' = {}
    /\ ended' \in SUBSET Session
    /\ ended \subseteq ended'

Next ==
    \/ \E e \in Entry : Bind(e)
    \/ Unbind
    \/ \E s \in Session : End(s)
    \/ Stop

Spec == Init /\ [][Next]_vars

(* No name leads to a session that ended, and a name leads to one session. *)
NoRouteToEnded == \A b \in bound : b.session \notin ended
OneSessionPerName == \A b, c \in bound : b.name = c.name => b = c

=============================================================================
