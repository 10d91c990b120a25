------------------------------- MODULE MCRouting -------------------------------
(* A small instance of Routing: two connections, one after the other or    *)
(* both at once, for the subdomain "app", which is also the first label of *)
(* the custom domain requests are for, and one of them perhaps for "web".  *)
EXTENDS Routing

CONSTANTS s1, s2, t1, t2, c1, c2

MCKind == [n \in Name |-> "http"]
MCLabelOf == [h \in Host |-> "app"]
MCIdOf == [s \in Session |-> IF s = s1 THEN t1 ELSE t2]
MCWants == [s \in Session |-> IF s = s1 THEN {"web", "app"} ELSE {"app"}]
MCListsOf ==
    [s \in Session |-> IF s = s1 THEN {{{c1}}} ELSE {{}, {{c2}, Malformed}}]

=============================================================================
