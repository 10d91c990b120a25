------------------------------- MODULE TcpProxy -------------------------------
(***************************************************************************)
(* One public TCP connection through a tunnel: handleConn on the server    *)
(* (server/internal/relayserver/tcp.go), HandleTCPStream in the CLI        *)
(* (cli/internal/relayclient/tcp.go) and the yamux stream between them.    *)
(* Connections share nothing but the session and the registry's entry.     *)
(*                                                                         *)
(* The two handlers do the same once they have both their connections: two *)
(* goroutines copy, "in" from the outer end (the public caller, the local  *)
(* service) to the stream and "out" back; when the first of them ends, the *)
(* handler closes everything.  They are the sides of this module.          *)
(*                                                                         *)
(* Bytes are counted in chunks and keep their order: flow[e] is how many   *)
(* of the outer end of e were written by it, were carried into the stream, *)
(* and were delivered to the other outer end.                              *)
(***************************************************************************)
EXTENDS Naturals

CONSTANTS
    MaxChunks,    \* bound: chunks an outer end writes
    Window        \* chunks a stream takes that were not read

ASSUME MaxChunksAssumption == MaxChunks \in Nat
ASSUME WindowAssumption == Window \in Nat \ {0}

VARIABLES
    routed,       \* whether the registry has an entry for the port
    session,      \* whether the relay session works
    at,           \* where the handler of each side is
    end,          \* what the outer end of each side did
    copier,       \* which goroutines of each side are copying
    flow,         \* see above
    announced     \* tcp_open was written

vars == <<routed, session, at, end, copier, flow, announced>>

Side == {"server", "client"}
Other(e) == IF e = "server" THEN "client" ELSE "server"

Init ==
    /\ routed = TRUE
    /\ session = TRUE
    /\ at = [e \in Side |-> "none"]
    /\ end = [e \in Side |-> "none"]
    /\ copier = [e \in Side |-> {}]
    /\ flow = [e \in Side |-> [written |-> 0, carried |-> 0, delivered |-> 0]]
    /\ announced = FALSE

Moves(e, from, to) == at[e] = from /\ at' = [at EXCEPT ![e] = to]

-----------------------------------------------------------------------------
(* The tunnel and the outer ends.                                          *)

Unregister ==
    /\ routed
    /\ routed' = FALSE
    /\ UNCHANGED <<session, at, end, copier, flow, announced>>

(* What the stream has not delivered may be lost.                          *)
SessionEnds ==
    /\ session
    /\ session' = FALSE
    /\ \E kept \in [Side -> 0 .. MaxChunks] :
          /\ \A e \in Side : kept[e] \in flow[e].delivered .. flow[e].carried
          /\ flow' = [e \in Side |-> [flow[e] EXCEPT !.carried = kept[e]]]
    /\ UNCHANGED <<routed, at, end, copier, announced>>

Writes(e) ==
    /\ end[e] = "open"
    /\ flow[e].written < MaxChunks
    /\ flow' = [flow EXCEPT ![e].written = @ + 1]
    /\ UNCHANGED <<routed, session, at, end, copier, announced>>

(* An outer end shuts down its writing, or closes.                         *)
Ends(e) ==
    /\ \/ end[e] = "open" /\ end' = [end EXCEPT ![e] = "shut"]
       \/ end[e] \in {"open", "shut"} /\ end' = [end EXCEPT ![e] = "closed"]
    /\ UNCHANGED <<routed, session, at, copier, flow, announced>>

-----------------------------------------------------------------------------
(* The server's handler, up to the copies.                                 *)

(* acceptLoop *)
Accept ==
    /\ Moves("server", "none", "looking")
    /\ end' = [end EXCEPT !["server"] = "open"]
    /\ UNCHANGED <<routed, session, copier, flow, announced>>

LookupTCP ==
    /\ Moves("server", "looking", IF routed THEN "opening" ELSE "returning")
    /\ UNCHANGED <<routed, session, end, copier, flow, announced>>

OpenStream ==
    /\ Moves("server", "opening", IF session THEN "announcing" ELSE "returning")
    /\ UNCHANGED <<routed, session, end, copier, flow, announced>>

(* tcp_open, whose error is ignored, and the two goroutines.               *)
Announce ==
    /\ Moves("server", "announcing", "copying")
    /\ announced' = session
    /\ copier' = [copier EXCEPT !["server"] = {"in", "out"}]
    /\ UNCHANGED <<routed, session, end, flow>>

-----------------------------------------------------------------------------
(* The CLI's handler, up to the copies.                                    *)

AcceptStream ==
    /\ session
    /\ at["server"] \in {"announcing", "copying"} \/ announced
    /\ Moves("client", "none", "opening")
    /\ UNCHANGED <<routed, session, end, copier, flow, announced>>

(* ReadJSON of tcp_open, which is lost with the session.                   *)
ReadOpen ==
    /\ \/ announced /\ Moves("client", "opening", "dialing")
       \/ ~ session /\ Moves("client", "opening", "returning")
    /\ UNCHANGED <<routed, session, end, copier, flow, announced>>

(* net.Dial of the local service.                                          *)
Dial ==
    /\ \/ /\ Moves("client", "dialing", "copying")
          /\ end' = [end EXCEPT !["client"] = "open"]
          /\ copier' = [copier EXCEPT !["client"] = {"in", "out"}]
       \/ Moves("client", "dialing", "returning") /\ UNCHANGED <<end, copier>>
    /\ UNCHANGED <<routed, session, flow, announced>>

-----------------------------------------------------------------------------
(* The copies.                                                             *)

Stops(e, way) ==
    /\ way \in copier[e]
    /\ copier' = [copier EXCEPT ![e] = @ \ {way}]
    /\ UNCHANGED <<routed, session, at, end, flow, announced>>

Copies(e, way) ==
    /\ way \in copier[e] /\ at[e] # "done"
    /\ UNCHANGED <<routed, session, at, end, copier, announced>>

(* io.Copy from the outer end to the stream.  It blocks on a full window.  *)
CopyIn(e) ==
    /\ session /\ flow[e].carried - flow[e].delivered < Window
    /\ flow[e].written > flow[e].carried
    /\ flow' = [flow EXCEPT ![e].carried = @ + 1]
    /\ Copies(e, "in")

(* It ends at EOF, when the stream takes no more, or when one of the two   *)
(* is closed here.  An outer end that closed may reset the connection, and *)
(* then what it sent last is lost.                                         *)
CopyInEnds(e) ==
    /\ \/ flow[e].written = flow[e].carried /\ end[e] = "shut"
       \/ end[e] = "closed"
       \/ flow[e].written > flow[e].carried /\ ~ session
       \/ at[e] = "done"
    /\ Stops(e, "in")

(* Mutant: the last chunk again and again.                                 *)
CopyOutAgain(e) ==
    /\ end[e] # "closed"
    /\ flow' = [flow EXCEPT ![Other(e)].delivered = @ + 1]
    /\ Copies(e, "out")

(* io.Copy from the stream to the outer end.                               *)
CopyOut(e) ==
    /\ end[e] # "closed"
    /\ flow[Other(e)].carried > flow[Other(e)].delivered
    /\ flow' = [flow EXCEPT ![Other(e)].delivered = @ + 1]
    /\ Copies(e, "out")

(* It ends at EOF, when the outer end takes no more, or some time after    *)
(* the stream is closed here: yamux ends the read when the other side      *)
(* closes too, or after StreamCloseTimeout.                                *)
CopyOutEnds(e) ==
    LET o == Other(e)
    IN  /\ \/ flow[o].carried = flow[o].delivered /\ (~ session \/ at[o] = "done")
           \/ flow[o].carried > flow[o].delivered /\ end[e] = "closed"
           \/ at[e] = "done"
        /\ Stops(e, "out")

(* Mutant: the handler looks at the outer end, not at the copies.          *)
WaitForEnd(e) ==
    /\ end[e] \in {"shut", "closed"} \/ copier[e] # {"in", "out"}
    /\ Moves(e, "copying", "returning")
    /\ UNCHANGED <<routed, session, end, copier, flow, announced>>

(* Mutant: both directions are waited for.                                 *)
WaitForBoth(e) ==
    /\ copier[e] = {}
    /\ Moves(e, "copying", "returning")
    /\ UNCHANGED <<routed, session, end, copier, flow, announced>>

(* <-copyErr: the first of the two.                                        *)
Wait(e) ==
    /\ copier[e] # {"in", "out"}
    /\ Moves(e, "copying", "returning")
    /\ UNCHANGED <<routed, session, end, copier, flow, announced>>

(* The deferred Close of the connection and of the stream, as far as the   *)
(* handler had come to have them.                                          *)
Close(e) ==
    /\ Moves(e, "returning", "done")
    /\ UNCHANGED <<routed, session, end, copier, flow, announced>>

-----------------------------------------------------------------------------
(* Specification.                                                          *)

ServerStep == LookupTCP \/ OpenStream \/ Announce
ClientStep == AcceptStream \/ ReadOpen \/ Dial
HandlerStep(e) == Wait(e) \/ Close(e)
InStep(e) == CopyIn(e) \/ CopyInEnds(e)
OutStep(e) == CopyOut(e) \/ CopyOutEnds(e)

Next ==
    \/ Unregister \/ SessionEnds \/ Accept
    \/ ServerStep \/ ClientStep
    \/ \E e \in Side :
          Writes(e) \/ Ends(e) \/ HandlerStep(e) \/ InStep(e) \/ OutStep(e)

(* Goroutines run when they can; outer ends need not do anything.          *)
Fairness ==
    /\ WF_vars(ServerStep) /\ WF_vars(ClientStep)
    /\ \A e \in Side : WF_vars(HandlerStep(e)) /\ WF_vars(InStep(e))
                          /\ WF_vars(OutStep(e))

Spec == Init /\ [][Next]_vars /\ Fairness

-----------------------------------------------------------------------------
(* Properties.                                                             *)

FlowState ==
    {f \in [written : 0 .. MaxChunks, carried : 0 .. MaxChunks,
            delivered : 0 .. MaxChunks] :
        f.delivered <= f.carried /\ f.carried <= f.written}

TypeOK ==
    /\ routed \in BOOLEAN /\ session \in BOOLEAN /\ announced \in BOOLEAN
    /\ at \in [Side -> {"none", "looking", "opening", "announcing", "dialing",
                        "copying", "returning", "done"}]
    /\ end \in [Side -> {"none", "open", "shut", "closed"}]
    /\ copier \in [Side -> SUBSET {"in", "out"}]
    /\ flow \in [Side -> FlowState]

(* An end that only listens and sees its connection closed has everything  *)
(* the other end sent before it finished, although each handler closes     *)
(* both connections as soon as one of its copies is over (tcp.go:93): the  *)
(* copy that is cut off is never the one that still has bytes for it.      *)
ShutDeliversAll ==
    \A e \in Side :
        (at[Other(e)] = "done" /\ session
            /\ end[e] # "closed" /\ end[Other(e)] = "open")
        => flow[e].delivered = flow[e].written

Finished ==
    \A e \in Side : at[e] \in {"none", "done"} /\ copier[e] = {}

(* When an outer end finishes or the session ends, both handlers and all   *)
(* four copies come to an end, also a copy that is blocked on a window     *)
(* nobody reads from or on an end that says nothing (tcp.go:93).           *)
OneEndEndsAll ==
    (~ session \/ \E e \in Side : end[e] \in {"shut", "closed"}) ~> Finished

=============================================================================
