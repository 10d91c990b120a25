-------------------------------- MODULE Daemon --------------------------------
(***************************************************************************)
(* The commands portopener daemon start | stop | status                    *)
(* (cli/internal/daemon/daemon.go), which know the background process only *)
(* by the PID file, portopener init, which writes the configuration the    *)
(* others read, and beside them the processes of TunnelLoop.               *)
(*                                                                         *)
(* The operator runs one command at a time, and daemon start only when     *)
(* status finds no daemon; but the process that start leaves behind runs   *)
(* on its own from the moment of exec, and a command may be interrupted    *)
(* between any two of its steps.                                           *)
(***************************************************************************)
EXTENDS TunnelLoop

CONSTANTS
    Absent,      \* no PID file
    Blank        \* a PID file without contents

VARIABLES
    pidfile,     \* what ~/.portopener/daemon.pid holds
    config,      \* whether the configuration file is whole
    command,     \* the command under way: next step and process
    reported     \* processes whose start ended with "daemon started"

daemonVars == <<pidfile, config, command, reported>>
vars == <<clientVars, daemonVars>>

Idle == [step |-> "none", pid |-> Absent]
At(step) == command.step = step
Then(step, p) == command' = [step |-> step, pid |-> p]
Done == command' = Idle

Runs(p) == proc[p] \in {"starting", "running"}

Init ==
    /\ ClientInit
    /\ pidfile = Absent
    /\ config = "whole"
    /\ command = Idle
    /\ reported = {}

-----------------------------------------------------------------------------
(* daemon status and daemon start.                                         *)

(* readPID: the file is there and has a number.                            *)
PIDRecorded == pidfile \in Proc

(* Status: the PID file names a process that signal 0 finds.               *)
Status == PIDRecorded /\ Runs(pidfile)

(* daemon start, after status said "daemon not running": runDaemonStart    *)
(* loads and validates the configuration, daemon.Start executes the        *)
(* program.                                                                *)
DaemonStart ==
    /\ At("none") /\ ~ Status
    /\ config = "whole"
    /\ \E p \in Proc : Start(p) /\ Then("writePID", p)
    /\ UNCHANGED <<oneShot, signalled, loopVars, serverVars, linkVars, faults,
                   pidfile, config, reported>>

(* Mutant: a PID file that is there is kept.                               *)
WritePIDOnce ==
    /\ At("writePID")
    /\ pidfile' = IF pidfile = Absent THEN command.pid ELSE pidfile
    /\ reported' = reported \cup {command.pid}
    /\ Done
    /\ UNCHANGED <<clientVars, config>>

(* writePID; when it fails start reports an error, and the process runs.   *)
WritePID ==
    /\ At("writePID")
    /\ pidfile' = command.pid
    /\ reported' = reported \cup {command.pid}
    /\ Done
    /\ UNCHANGED <<clientVars, config>>

WritePIDFails ==
    /\ At("writePID")
    /\ Fault
    /\ pidfile' \in {pidfile, Blank}
    /\ Done
    /\ UNCHANGED <<procVars, loopVars, serverVars, linkVars, config, reported>>

-----------------------------------------------------------------------------
(* daemon stop.                                                            *)

(* Stop, as far as SIGTERM: without a process of the recorded id it ends   *)
(* in error, and the file stays.                                           *)
DaemonStop ==
    /\ At("none") /\ Status
    /\ Signal(pidfile)
    /\ Then("remove", Absent)
    /\ UNCHANGED <<pidfile, config, reported>>

RemovePIDFile ==
    /\ At("remove")
    /\ pidfile' = Absent
    /\ Done
    /\ UNCHANGED <<clientVars, config, reported>>

-----------------------------------------------------------------------------
(* init, and the other processes.                                          *)

(* runInit: a file that is there must load; Save truncates it and writes.  *)
SaveTruncates ==
    /\ At("none") /\ config = "whole"
    /\ config' = "torn"
    /\ Then("save", Absent)
    /\ UNCHANGED <<clientVars, pidfile, reported>>

SaveWrites ==
    /\ At("save")
    /\ config' = "whole"
    /\ Done
    /\ UNCHANGED <<clientVars, pidfile, reported>>

(* The command is interrupted before its next step.                        *)
CommandDies ==
    /\ ~ At("none")
    /\ Fault
    /\ Done
    /\ UNCHANGED <<procVars, loopVars, serverVars, linkVars, pidfile, config,
                   reported>>

(* A command in the foreground: started, and stopped by ^C.                *)
Foreground(p) ==
    /\ Start(p)
    /\ oneShot' = oneShot \cup {p}
    /\ UNCHANGED <<signalled, loopVars, serverVars, linkVars, faults,
                   daemonVars>>

Interrupt(p) ==
    /\ p \in oneShot \ signalled /\ Runs(p)
    /\ Signal(p)
    /\ UNCHANGED daemonVars

(* runStart's own Load: it runs whenever the new process gets there.       *)
LoadConfig(p) ==
    /\ IF config = "whole" THEN StartLoops(p) ELSE ConfigRejected(p)
    /\ UNCHANGED daemonVars

-----------------------------------------------------------------------------
OperatorStep ==
    \/ DaemonStart \/ DaemonStop \/ SaveTruncates \/ CommandDies
    \/ \E p \in Proc : Foreground(p) \/ Interrupt(p)

CommandStep == WritePID \/ WritePIDFails \/ RemovePIDFile \/ SaveWrites

ProcessStep(p) == LoadConfig(p) \/ (Exit(p) /\ UNCHANGED daemonVars)

LoopRuns(l) == LoopStep(l) /\ UNCHANGED daemonVars
ServerStep(s) == HandlerStep(s) /\ UNCHANGED daemonVars
Restart == ServerStarts /\ UNCHANGED daemonVars

Failure ==
    /\ \/ \E p \in Proc : ProcessKilled(p)
       \/ \E s \in Session : GreetFails(s) \/ ConnectionLost(s)
       \/ ServerStops
    /\ UNCHANGED daemonVars

Next ==
    \/ OperatorStep \/ CommandStep \/ Failure \/ Restart
    \/ \E p \in Proc : ProcessStep(p)
    \/ \E l \in Loop : LoopRuns(l)
    \/ \E s \in Session : ServerStep(s)

(* What runs without waiting for the operator: goroutines, timers, the     *)
(* server, which is started again when it stopped, and commands.           *)
Fairness ==
    /\ WF_vars(Restart)
    /\ \A p \in Proc : WF_vars(ProcessStep(p))
    /\ \A l \in Loop : WF_vars(LoopRuns(l))
    /\ \A s \in Session : WF_vars(ServerStep(s))

Spec == Init /\ [][Next]_vars /\ Fairness

-----------------------------------------------------------------------------
(* daemon start knows the process whose PID file it is to write.           *)
CommandState ==
    {c \in [step : {"none", "writePID", "remove", "save"},
            pid : Proc \cup {Absent}] :
        c.step = "writePID" => c.pid \in Proc}

TypeOK ==
    /\ ClientTypeOK
    /\ pidfile \in Proc \cup {Absent, Blank}
    /\ config \in {"whole", "torn"}
    /\ command \in CommandState
    /\ reported \in SUBSET Proc

(* A daemon whose start was reported, that runs and was not told to stop,  *)
(* is the one the PID file names: status sees it and stop reaches it,      *)
(* however starts, stops, interrupted commands, failed writes and deaths   *)
(* follow on each other (daemon.go:39, :49, :61).                          *)
RunningDaemonIsRecorded ==
    \A p \in reported : (Runs(p) /\ p \notin signalled) => pidfile = p

(* Whatever fails, the loop of a daemon that was not told to stop does not *)
(* end (main.go:388): no error of Register is taken for a cancellation.    *)
LoopSurvives ==
    \A l \in Loop :
        (proc[l[1]] = "running" /\ l[1] \notin oneShot /\ at[l] = "ended")
            => l[1] \in signalled

(* SIGTERM ends a process and closes its connections, whatever its loops   *)
(* are doing: dialing, waiting for an answer, serving or backing off       *)
(* (main.go:236: wg.Wait needs every loop to come to its end).             *)
SignalEndsProcess ==
    \A p \in Proc :
        p \in signalled ~>
            proc[p] = "exited" /\ \A l \in LoopsOf(p) : conn[l] = None

(* When no CLI process is left, the server comes to hold no name for one:  *)
(* no order of drops, refusals and clean-ups keeps an entry whose client   *)
(* ended.                                                                  *)
NamesReleased ==
    (\A p \in Proc : ~ Runs(p)) ~> (reg = {} \/ \E p \in Proc : Runs(p))

(* When nothing fails any more, a tunnel of a running daemon comes to be   *)
(* served at both ends and stays so: a registration refused after hello_ok *)
(* (server.go:132, :137) is noticed and tried again, also when two         *)
(* processes want the same name.                                           *)
EventuallyServes ==
    \A p \in Proc, t \in Tunnel :
        <>[](proc[p] = "running" /\ p \notin signalled \cup oneShot)
            => <>[](/\ at[<<p, t>>] = "serving"
                    /\ handler[conn[<<p, t>>]] = "serving")

=============================================================================
