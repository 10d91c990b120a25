------------------------------ MODULE TunnelLoop ------------------------------
(***************************************************************************)
(* The CLI's processes and the tunnels they keep up: runStart with one     *)
(* runTunnelLoop per configured tunnel, the one-tunnel commands runHTTP,   *)
(* runTCP and runUDP (cli/cmd/portopener/main.go), and the relay client    *)
(* they call (RegisterHTTP, RegisterTCP, RegisterUDP of                    *)
(* cli/internal/relayclient).  At the other end stands the relay handler   *)
(* of RelayServer.tla reduced to what a client can tell: it answers,       *)
(* registers or refuses, cleans up by name and closes.                     *)
(*                                                                         *)
(* A session is a slot for one connection, used again when both ends have  *)
(* left it; the new tunnel id each connection chooses is named by its slot.*)
(***************************************************************************)
EXTENDS Registry, Naturals

CONSTANTS
    Proc,        \* CLI processes, each a process id
    Tunnel,      \* the tunnels of the configuration
    NameOf,      \* [Tunnel -> Name]: its subdomain or external port
    None,        \* no connection
    FirstBackoff,\* backoff, 2 in the code
    MaxBackoff,  \* maxBackoff, 30 in the code
    MaxFaults    \* bound: failures of the network, the server, processes

ASSUME SlotIsId == TunnelId = Session /\ Session \subseteq Nat
ASSUME ProcAssumption == Proc \subseteq Nat
ASSUME TunnelAssumption == Tunnel # {}   \* Validate accepts no other
ASSUME NameOfAssumption == NameOf \in [Tunnel -> Name]
ASSUME BackoffAssumption ==
    /\ FirstBackoff \in Nat /\ MaxBackoff \in Nat
    /\ FirstBackoff <= MaxBackoff
ASSUME MaxFaultsAssumption == MaxFaults \in Nat
ASSUME NoneAssumption == None \notin Session

Loop == Proc \X Tunnel

VARIABLES
    proc,        \* state of each process
    oneShot,     \* those started as portopener http, tcp or udp
    signalled,   \* processes that got SIGTERM: their context is done
    at,          \* program counter of each tunnel's loop
    backoff,     \* seconds each loop waits next
    conn,        \* connection each loop holds
    up,          \* whether the server runs
    handler,     \* program counter of the server's handler of each slot
    hello,       \* tunnel named in the hello of each slot
    reply,       \* what the handler answered to the hello
    intact,      \* whether the slot's connection still works
    reg,         \* the server's registry
    faults       \* failures so far

procVars == <<proc, oneShot, signalled>>
loopVars == <<at, backoff, conn>>
serverVars == <<up, handler, hello, reg>>
linkVars == <<intact, reply>>
clientVars == <<procVars, loopVars, serverVars, linkVars, faults>>

Holds(l) == conn[l] # None
Working(l) == at[l] \in {"dialing", "greeting", "serving", "waiting"}
LoopsOf(p) == {l \in Loop : l[1] = p}
Broken(l) == Holds(l) /\ ~ intact[conn[l]]

Fault == faults < MaxFaults /\ faults' = faults + 1

ClientInit ==
    /\ proc = [p \in Proc |-> "none"]
    /\ oneShot = {}
    /\ signalled = {}
    /\ at = [l \in Loop |-> "idle"]
    /\ backoff = [l \in Loop |-> FirstBackoff]
    /\ conn = [l \in Loop |-> None]
    /\ up = TRUE
    /\ handler = [s \in Session |-> "free"]
    /\ hello = [s \in Session |-> CHOOSE t \in Tunnel : TRUE]
    /\ reply = [s \in Session |-> "none"]
    /\ intact = [s \in Session |-> FALSE]
    /\ reg = EmptyRegistry
    /\ faults = 0

-----------------------------------------------------------------------------
(* Processes.                                                              *)

(* Every connection of the process is closed, by its defers or the kernel. *)
Hangup(ls) ==
    /\ intact' = [s \in Session |-> intact[s] /\ \A l \in ls : conn[l] # s]
    /\ reply' = [s \in Session |->
                    IF \E l \in ls : conn[l] = s THEN "none" ELSE reply[s]]
    /\ conn' = [l \in Loop |-> IF l \in ls THEN None ELSE conn[l]]

(* exec, with a process id not used before.                                *)
Start(p) ==
    /\ proc[p] = "none" /\ \A q \in Proc : q < p => proc[q] # "none"
    /\ proc' = [proc EXCEPT ![p] = "starting"]

(* The loops are over, and with them all they knew.                        *)
Ends(ls) ==
    /\ at' = [l \in Loop |-> IF l \in ls THEN "ended" ELSE at[l]]
    /\ backoff' = [l \in Loop |->
                      IF l \in ls THEN FirstBackoff ELSE backoff[l]]
    /\ Hangup(ls)

(* log.Fatalf, the end of main, or a kill.                                 *)
Dies(p) ==
    /\ proc' = [proc EXCEPT ![p] = "exited"]
    /\ oneShot' = oneShot \ {p}
    /\ signalled' = signalled \ {p}
    /\ Ends(LoopsOf(p))
    /\ UNCHANGED serverVars

(* runStart, after Load and Validate: a goroutine for every tunnel.  A     *)
(* one-tunnel command makes the same connection for the tunnel it is given.*)
StartLoops(p) ==
    /\ proc[p] = "starting"
    /\ proc' = [proc EXCEPT ![p] = "running"]
    /\ \E ts \in SUBSET Tunnel :
          /\ IF p \in oneShot THEN \E t \in Tunnel : ts = {t} ELSE ts = Tunnel
          /\ at' = [l \in Loop |->
                IF l[1] = p /\ l[2] \in ts THEN "dialing" ELSE at[l]]
    /\ UNCHANGED <<oneShot, signalled, backoff, conn, serverVars, linkVars, faults>>

ConfigRejected(p) ==
    /\ proc[p] = "starting"
    /\ Dies(p)
    /\ UNCHANGED faults

(* SIGTERM, before signal.NotifyContext ends the process, after it cancels *)
(* the context.                                                            *)
Signal(p) ==
    /\ IF proc[p] = "starting" THEN Dies(p)
       ELSE /\ signalled' = signalled \cup {p}
            /\ UNCHANGED <<proc, oneShot, loopVars, serverVars, linkVars>>
    /\ UNCHANGED faults

(* <-ctx.Done() and wg.Wait(); a one-tunnel command does not wait.         *)
Exit(p) ==
    /\ proc[p] = "running"
    /\ p \in signalled
    /\ \A l \in LoopsOf(p) : ~ Working(l)
    /\ Dies(p)
    /\ UNCHANGED faults

ProcessKilled(p) ==
    /\ proc[p] = "running"
    /\ Fault
    /\ Dies(p)

-----------------------------------------------------------------------------
(* runTunnelLoop and the relay client.                                     *)

Is(l, state) == at[l] = state /\ l[1] \notin signalled
Goto(l, state) == at' = [at EXCEPT ![l] = state]

(* Mutant: without the maximum.                                            *)
NextBackoffUncapped(b) == 2 * b

(* backoff *= 2, at most maxBackoff.                                       *)
NextBackoff(b) == IF 2 * b > MaxBackoff THEN MaxBackoff ELSE 2 * b

(* Slots both ends have left.                                              *)
FreeSlots == {s \in Session :
                 handler[s] = "free" /\ \A o \in Loop : conn[o] # s}

(* The context's check, websocket.Dial, yamux.Client, OpenStream and the   *)
(* hello.                                                                  *)
Dial(l) ==
    /\ Is(l, "dialing") /\ up
    /\ \E s \in FreeSlots :
           /\ \A o \in FreeSlots : s <= o
           /\ conn' = [conn EXCEPT ![l] = s]
           /\ handler' = [handler EXCEPT ![s] = "accepted"]
           /\ hello' = [hello EXCEPT ![s] = l[2]]
           /\ intact' = [intact EXCEPT ![s] = TRUE]
    /\ Goto(l, "greeting")
    /\ UNCHANGED <<procVars, backoff, up, reg, reply, faults>>

(* Mutant: any error ends the loop.                                        *)
FailsForGood(l) == Ends({l}) /\ UNCHANGED <<procVars, serverVars>>

(* Register returned an error that is not context.Canceled: the loop logs  *)
(* it and waits, a one-tunnel command ends with log.Fatalf.                *)
Fails(l) ==
    IF l[1] \in oneShot THEN Dies(l[1])
    ELSE /\ Goto(l, "waiting")
         /\ Hangup({l})
         /\ UNCHANGED <<procVars, backoff, serverVars>>

DialFails(l) ==
    /\ Is(l, "dialing")
    /\ \/ ~ up /\ UNCHANGED faults
       \/ Fault
    /\ Fails(l)

(* The answer is hello_ok: the client accepts streams, whether or not its  *)
(* registration will be refused.                                           *)
ReadHelloOk(l) ==
    /\ Is(l, "greeting") /\ reply[conn[l]] = "ok"
    /\ Goto(l, "serving")
    /\ UNCHANGED <<procVars, backoff, conn, serverVars, linkVars, faults>>

ReadError(l) ==
    /\ Is(l, "greeting") /\ reply[conn[l]] = "error"
    /\ Fails(l)
    /\ UNCHANGED faults

(* The answer does not come, or AcceptStream fails: errCh.                 *)
Disconnected(l) ==
    /\ Is(l, "greeting") \/ Is(l, "serving")
    /\ Broken(l)
    /\ Fails(l)
    /\ UNCHANGED faults

(* time.After(backoff)                                                     *)
BackoffElapses(l) ==
    /\ Is(l, "waiting")
    /\ Goto(l, "dialing")
    /\ backoff' = [backoff EXCEPT ![l] = NextBackoff(@)]
    /\ UNCHANGED <<procVars, conn, serverVars, linkVars, faults>>

(* Mutant: a tunnel that is served does not look at the context.           *)
CancelledUnlessServing(l) ==
    /\ l[1] \in signalled /\ Working(l) /\ at[l] # "serving"
    /\ Ends({l})
    /\ UNCHANGED <<procVars, serverVars, faults>>

(* The context is done: Dial, the connection and both selects give up, and *)
(* the deferred closes run.                                                *)
Cancelled(l) ==
    /\ l[1] \in signalled /\ Working(l)
    /\ Ends({l})
    /\ UNCHANGED <<procVars, serverVars, faults>>

-----------------------------------------------------------------------------
(* The server's end.                                                       *)

Handles(s, from, to) ==
    /\ handler[s] = from
    /\ handler' = [handler EXCEPT ![s] = to]
    /\ UNCHANGED <<procVars, loopVars, up, hello>>

(* The hello is read and answered with hello_ok; or reading it fails, or   *)
(* writing the answer, and only then the clean-up has been deferred.       *)
Greet(s) ==
    /\ \/ /\ intact[s]
          /\ Handles(s, "accepted", "greeted")
          /\ reply' = [reply EXCEPT ![s] = "ok"]
       \/ /\ ~ intact[s]
          /\ Handles(s, "accepted", "free") \/ Handles(s, "accepted", "releasing")
          /\ UNCHANGED reply
    /\ UNCHANGED <<intact, reg, faults>>

(* The token cannot be looked up.                                          *)
GreetFails(s) ==
    /\ Fault
    /\ Handles(s, "accepted", "releasing")
    /\ reply' = [reply EXCEPT ![s] = "error"]
    /\ UNCHANGED <<intact, reg>>

Available(s) ==
    LET n == NameOf[hello[s]]
    IN  IF Kind[n] = "http" THEN HTTPAvailable(reg, n)
        ELSE TCPAvailable(reg, n, s)

Register(s) ==
    /\ IF Available(s)
       THEN /\ Handles(s, "greeted", "serving")
            /\ reg' = Put(reg, NameOf[hello[s]], s, s)
       ELSE /\ Handles(s, "greeted", "releasing")
            /\ UNCHANGED reg
    /\ UNCHANGED <<reply, intact, faults>>

(* Mutant: a connection on which nothing comes any more is kept.           *)
NoticesNever(s) ==
    /\ ~ intact[s]
    /\ Handles(s, "serving", "serving")
    /\ UNCHANGED <<reply, intact, reg, faults>>

(* A read of the control stream fails.                                     *)
Notices(s) ==
    /\ ~ intact[s]
    /\ Handles(s, "serving", "releasing")
    /\ UNCHANGED <<reply, intact, reg, faults>>

(* Mutant: the session is not closed, and a refused client not told.       *)
CleanUpOnly(s) ==
    /\ Handles(s, "releasing", "free")
    /\ reg' = Remove(reg, NameOf[hello[s]])
    /\ UNCHANGED <<reply, intact, faults>>

(* The deferred clean-up: by name, whoever holds it now; session.Close.    *)
CleanUp(s) ==
    /\ Handles(s, "releasing", "free")
    /\ reg' = Remove(reg, NameOf[hello[s]])
    /\ intact' = [intact EXCEPT ![s] = FALSE]
    /\ UNCHANGED <<reply, faults>>

ConnectionLost(s) ==
    /\ intact[s]
    /\ Fault
    /\ intact' = [intact EXCEPT ![s] = FALSE]
    /\ UNCHANGED <<procVars, loopVars, serverVars, reply>>

ServerStops ==
    /\ up
    /\ Fault
    /\ up' = FALSE
    /\ handler' = [s \in Session |-> "free"]
    /\ intact' = [s \in Session |-> FALSE]
    /\ reg' = EmptyRegistry
    /\ UNCHANGED <<procVars, loopVars, hello, reply>>

ServerStarts ==
    /\ ~ up
    /\ up' = TRUE
    /\ UNCHANGED <<procVars, loopVars, handler, hello, reply, intact, reg,
                   faults>>

-----------------------------------------------------------------------------
LoopStep(l) ==
    \/ Dial(l) \/ DialFails(l) \/ ReadHelloOk(l) \/ ReadError(l)
    \/ Disconnected(l) \/ BackoffElapses(l) \/ Cancelled(l)

HandlerStep(s) == Greet(s) \/ Register(s) \/ Notices(s) \/ CleanUp(s)

-----------------------------------------------------------------------------
(* The part of Daemon's type invariant that is about these variables.      *)

Place == {"idle", "dialing", "greeting", "serving", "waiting", "ended"}

ClientTypeOK ==
    /\ proc \in [Proc -> {"none", "starting", "running", "exited"}]
    /\ oneShot \in SUBSET Proc
    /\ signalled \in SUBSET Proc
    /\ at \in [Loop -> Place]
    /\ backoff \in [Loop -> FirstBackoff .. MaxBackoff]
    /\ conn \in [Loop -> Session \cup {None}]
    /\ up \in BOOLEAN
    /\ handler \in [Session -> {"free", "accepted", "greeted", "serving",
                                "releasing"}]
    /\ hello \in [Session -> Tunnel]
    /\ reply \in [Session -> {"none", "ok", "error"}]
    /\ intact \in [Session -> BOOLEAN]
    /\ reg \in SUBSET Binding
    /\ faults \in 0 .. MaxFaults

=============================================================================
