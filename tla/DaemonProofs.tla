----------------------------- MODULE DaemonProofs -----------------------------
(***************************************************************************)
(* What the CLI's processes and the PID file keep, for every number of     *)
(* processes, tunnels, connections and failures.                           *)
(***************************************************************************)
EXTENDS Daemon, TLAPS

(* The end of loops and processes, whoever calls it.                       *)
LEMMA EndsTyped ==
    ASSUME ClientTypeOK, NEW ls, Ends(ls)
    PROVE  /\ at' \in [Loop -> Place]
           /\ backoff' \in [Loop -> FirstBackoff .. MaxBackoff]
           /\ conn' \in [Loop -> Session \cup {None}]
           /\ intact' \in [Session -> BOOLEAN]
           /\ reply' \in [Session -> {"none", "ok", "error"}]
<1> USE DEF ClientTypeOK
<1>1. at' \in [Loop -> Place] BY DEF Ends, Place
<1>2. backoff' \in [Loop -> FirstBackoff .. MaxBackoff]
  BY BackoffAssumption DEF Ends
<1>3. conn' \in [Loop -> Session \cup {None}] BY DEF Ends, Hangup
<1>4. intact' \in [Session -> BOOLEAN] BY DEF Ends, Hangup
<1>5. reply' \in [Session -> {"none", "ok", "error"}] BY DEF Ends, Hangup
<1> QED BY <1>1, <1>2, <1>3, <1>4, <1>5

(* A fault is only injected while the budget lasts. *)
LEMMA FaultTyped ==
    ASSUME ClientTypeOK, Fault \/ UNCHANGED faults
    PROVE  faults' \in 0 .. MaxFaults
BY MaxFaultsAssumption DEF ClientTypeOK, Fault

(* The death of a process keeps its loops and sessions typed. *)
LEMMA DiesTyped ==
    ASSUME ClientTypeOK, NEW p, Dies(p), Fault \/ UNCHANGED faults
    PROVE  ClientTypeOK'
<1>1. Ends(LoopsOf(p)) /\ UNCHANGED serverVars BY DEF Dies
<1>2. proc' \in [Proc -> {"none", "starting", "running", "exited"}]
  BY DEF Dies, ClientTypeOK
<1>3. oneShot' \in SUBSET Proc /\ signalled' \in SUBSET Proc
  BY DEF Dies, ClientTypeOK
<1> QED BY <1>1, <1>2, <1>3, EndsTyped, FaultTyped DEF ClientTypeOK, serverVars

(* A failed attempt sends a loop to its timer, or ends the loop. *)
LEMMA FailsTyped ==
    ASSUME ClientTypeOK, NEW l \in Loop, Fails(l), Fault \/ UNCHANGED faults
    PROVE  ClientTypeOK'
<1>1. CASE l[1] \in oneShot BY <1>1, DiesTyped DEF Fails
<1>2. CASE l[1] \notin oneShot
  <2>1. /\ Goto(l, "waiting") /\ Hangup({l})
        /\ UNCHANGED <<procVars, backoff, serverVars>>
    BY <1>2 DEF Fails
  <2>2. at' \in [Loop -> Place] BY <2>1 DEF Goto, ClientTypeOK, Place
  <2>3. /\ conn' \in [Loop -> Session \cup {None}]
        /\ intact' \in [Session -> BOOLEAN]
        /\ reply' \in [Session -> {"none", "ok", "error"}]
    BY <2>1 DEF Hangup, ClientTypeOK
  <2> QED BY <2>1, <2>2, <2>3, FaultTyped
          DEF ClientTypeOK, procVars, serverVars
<1> QED BY <1>1, <1>2

(* A step of a CLI loop keeps the client's side typed. *)
LEMMA LoopTyped ==
    ASSUME ClientTypeOK, NEW l \in Loop, LoopStep(l)
    PROVE  ClientTypeOK'
<1> USE DEF procVars, serverVars, linkVars
<1>1. CASE Dial(l)
  <2>1. PICK s \in Session :
            /\ conn' = [conn EXCEPT ![l] = s]
            /\ handler' = [handler EXCEPT ![s] = "accepted"]
            /\ hello' = [hello EXCEPT ![s] = l[2]]
            /\ intact' = [intact EXCEPT ![s] = TRUE]
    BY <1>1 DEF Dial, FreeSlots
  <2>2. l[2] \in Tunnel BY DEF Loop
  <2>3. at' \in [Loop -> Place] BY <1>1 DEF Dial, Goto, ClientTypeOK, Place
  <2> QED BY <1>1, <2>1, <2>2, <2>3 DEF Dial, ClientTypeOK
<1>2. CASE DialFails(l) BY <1>2, FailsTyped DEF DialFails
<1>3. CASE ReadHelloOk(l)
  BY <1>3 DEF ReadHelloOk, Goto, ClientTypeOK, Place
<1>4. CASE ReadError(l) BY <1>4, FailsTyped DEF ReadError
<1>5. CASE Disconnected(l) BY <1>5, FailsTyped DEF Disconnected
<1>6. CASE BackoffElapses(l)
  <2>1. \A b \in FirstBackoff .. MaxBackoff :
            NextBackoff(b) \in FirstBackoff .. MaxBackoff
    BY BackoffAssumption DEF NextBackoff
  <2>2. backoff' \in [Loop -> FirstBackoff .. MaxBackoff]
    BY <1>6, <2>1 DEF BackoffElapses, ClientTypeOK
  <2>3. at' \in [Loop -> Place]
    BY <1>6 DEF BackoffElapses, Goto, ClientTypeOK, Place
  <2> QED BY <1>6, <2>2, <2>3 DEF BackoffElapses, ClientTypeOK
<1>7. CASE Cancelled(l)
  BY <1>7, EndsTyped DEF Cancelled, ClientTypeOK
<1> QED BY <1>1, <1>2, <1>3, <1>4, <1>5, <1>6, <1>7 DEF LoopStep

(* So does a step of the server's handler, refusals included. *)
LEMMA HandlerTyped ==
    ASSUME ClientTypeOK, NEW s \in Session, HandlerStep(s) \/ GreetFails(s)
    PROVE  ClientTypeOK'
<1> USE DEF Handles, procVars, loopVars, ClientTypeOK
<1>1. CASE Greet(s) BY <1>1 DEF Greet
<1>2. CASE GreetFails(s) BY <1>2, FaultTyped DEF GreetFails
<1>3. CASE Register(s)
  <2>1. NameOf[hello[s]] \in Name BY NameOfAssumption
  <2>2. reg' \in SUBSET Binding
    BY <1>3, <2>1, SlotIsId DEF Register, Put, Binding
  <2> QED BY <1>3, <2>2 DEF Register
<1>4. CASE Notices(s) BY <1>4 DEF Notices
<1>5. CASE CleanUp(s) BY <1>5 DEF CleanUp, Remove
<1> QED BY <1>1, <1>2, <1>3, <1>4, <1>5 DEF HandlerStep

-----------------------------------------------------------------------------
(* Every step of commands, loops, server and faults keeps the types. *)
LEMMA TypeInductive == TypeOK /\ [Next]_vars => TypeOK'
<1> SUFFICES ASSUME TypeOK, [Next]_vars PROVE TypeOK'
    OBVIOUS
<1>0. ClientTypeOK BY DEF TypeOK
<1>1. ASSUME NEW p \in Proc, Start(p),
             UNCHANGED <<signalled, loopVars, serverVars, linkVars, faults>>,
             oneShot' \in {oneShot, oneShot \cup {p}}
      PROVE  ClientTypeOK'
  BY <1>0, <1>1 DEF ClientTypeOK, Start, loopVars, serverVars, linkVars
<1>2. ASSUME NEW p \in Proc, Signal(p) PROVE ClientTypeOK'
  <2>1. CASE proc[p] = "starting" BY <1>0, <1>2, <2>1, DiesTyped DEF Signal
  <2>2. CASE proc[p] # "starting"
    BY <1>0, <1>2, <2>2
       DEF Signal, ClientTypeOK, loopVars, serverVars, linkVars
  <2> QED BY <2>1, <2>2
<1>3. ASSUME UNCHANGED clientVars PROVE ClientTypeOK'
  BY <1>0, <1>3 DEF ClientTypeOK, clientVars, procVars, loopVars, serverVars,
                    linkVars
<1>4. ASSUME Fault,
             UNCHANGED <<procVars, loopVars, serverVars, linkVars>>
      PROVE  ClientTypeOK'
  BY <1>0, <1>4, FaultTyped DEF ClientTypeOK, procVars, loopVars, serverVars,
                                linkVars
<1>5. ASSUME UNCHANGED daemonVars, ClientTypeOK' PROVE TypeOK'
  BY <1>5 DEF TypeOK, daemonVars
<1>6. CASE DaemonStart
  <2>1. PICK p \in Proc : Start(p) /\ command' = [step |-> "writePID", pid |-> p]
    BY <1>6 DEF DaemonStart, Then
  <2>2. ClientTypeOK' BY <1>1, <1>6, <2>1 DEF DaemonStart
  <2>3. command' \in CommandState BY <2>1 DEF CommandState
  <2> QED BY <1>6, <2>2, <2>3 DEF DaemonStart, TypeOK
<1>7. Idle \in CommandState BY DEF Idle, CommandState
<1>8. CASE WritePID
  <2>1. command.pid \in Proc BY <1>8 DEF WritePID, At, TypeOK, CommandState
  <2> QED BY <1>3, <1>7, <1>8, <2>1 DEF WritePID, Done, TypeOK
<1>9. CASE WritePIDFails
  BY <1>4, <1>7, <1>9 DEF WritePIDFails, Done, TypeOK
<1>10. CASE DaemonStop
  <2>1. ClientTypeOK' BY <1>2, <1>10 DEF DaemonStop, Status, PIDRecorded
  <2>2. command' \in CommandState
    BY <1>10 DEF DaemonStop, Then, CommandState
  <2> QED BY <1>10, <2>1, <2>2 DEF DaemonStop, TypeOK
<1>11. CASE RemovePIDFile \/ SaveWrites
  BY <1>3, <1>7, <1>11 DEF RemovePIDFile, SaveWrites, Done, TypeOK
<1>12. CASE SaveTruncates
  <2>1. command' \in CommandState
    BY <1>12 DEF SaveTruncates, Then, CommandState
  <2> QED BY <1>3, <1>12, <2>1 DEF SaveTruncates, TypeOK
<1>13. CASE CommandDies
  BY <1>4, <1>7, <1>13 DEF CommandDies, Done, TypeOK
<1>14. ASSUME NEW p \in Proc, Foreground(p) PROVE TypeOK'
  BY <1>1, <1>5, <1>14 DEF Foreground
<1>15. ASSUME NEW p \in Proc, Interrupt(p) PROVE TypeOK'
  BY <1>2, <1>5, <1>15 DEF Interrupt
<1>16. ASSUME NEW p \in Proc, ProcessStep(p) PROVE TypeOK'
  <2>1. CASE StartLoops(p) /\ UNCHANGED daemonVars
    <3>1. at' \in [Loop -> Place]
      BY <1>0, <2>1 DEF StartLoops, ClientTypeOK, Place
    <3>2. ClientTypeOK'
      BY <1>0, <2>1, <3>1 DEF StartLoops, ClientTypeOK, serverVars, linkVars
    <3> QED BY <1>5, <2>1, <3>2
  <2>2. CASE (ConfigRejected(p) \/ Exit(p)) /\ UNCHANGED daemonVars
    BY <1>0, <1>5, <2>2, DiesTyped DEF ConfigRejected, Exit
  <2> QED BY <1>16, <2>1, <2>2 DEF ProcessStep, LoadConfig
<1>17. ASSUME NEW l \in Loop, LoopRuns(l) PROVE TypeOK'
  BY <1>0, <1>5, <1>17, LoopTyped DEF LoopRuns
<1>18. ASSUME NEW s \in Session, ServerStep(s) PROVE TypeOK'
  BY <1>0, <1>5, <1>18, HandlerTyped DEF ServerStep
<1>19. CASE Restart
  <2>1. ClientTypeOK'
    BY <1>0, <1>19 DEF Restart, ServerStarts, ClientTypeOK, procVars, loopVars
  <2> QED BY <1>5, <1>19, <2>1 DEF Restart
<1>20. CASE Failure
  <2>1. ASSUME NEW p \in Proc, ProcessKilled(p) PROVE ClientTypeOK'
    BY <1>0, <2>1, DiesTyped DEF ProcessKilled
  <2>2. ASSUME NEW s \in Session, ConnectionLost(s) PROVE ClientTypeOK'
    BY <1>0, <2>2, FaultTyped DEF ConnectionLost, ClientTypeOK, procVars,
       loopVars, serverVars
  <2>3. ASSUME ServerStops PROVE ClientTypeOK'
    <3>1. /\ Fault /\ up' = FALSE /\ reg' = {}
          /\ handler' = [s \in Session |-> "free"]
          /\ intact' = [s \in Session |-> FALSE]
          /\ UNCHANGED <<procVars, loopVars, hello, reply>>
      BY <2>3 DEF ServerStops, EmptyRegistry
    <3>2. faults' \in 0 .. MaxFaults BY <1>0, <3>1, FaultTyped
    <3> QED BY <1>0, <3>1, <3>2 DEF ClientTypeOK, procVars, loopVars
  <2> QED BY <1>0, <1>5, <1>20, <2>1, <2>2, <2>3, HandlerTyped DEF Failure
<1>21. CASE UNCHANGED vars BY <1>3, <1>5, <1>21 DEF vars
<1> QED BY <1>6, <1>8, <1>9, <1>10, <1>11, <1>12, <1>13, <1>14, <1>15, <1>16,
           <1>17, <1>18, <1>19, <1>20, <1>21
        DEF Next, OperatorStep, CommandStep

(* However processes, commands and failures interleave, the state keeps    *)
(* its shape: backoff stays between its bounds (main.go:419), and the      *)
(* registry holds entries of the connections there are.                    *)
THEOREM DaemonTypeCorrect == Spec => []TypeOK
<1>1. Init => TypeOK
  <2> SUFFICES ASSUME Init PROVE TypeOK
      OBVIOUS
  <2>1. ClientTypeOK
    BY TunnelAssumption, BackoffAssumption, MaxFaultsAssumption
       DEF Init, ClientInit, ClientTypeOK, Place, EmptyRegistry
  <2> QED BY <2>1 DEF Init, TypeOK, Idle, CommandState
<1> QED BY <1>1, TypeInductive, PTL DEF Spec

-----------------------------------------------------------------------------
(* The processes that run and were not told to stop.                       *)
Unstopped == {p \in Proc \ signalled : Runs(p)}

(* Processes begin once, and one that ended or was told to stop stays so.  *)
ProcessesGoOn ==
    \A p \in Proc : proc[p] # "none" =>
        proc'[p] # "none" /\ (p \in Unstopped' => p \in Unstopped)

(* A death starts nothing, and lets no other process stop being stopped. *)
LEMMA DiesGoesOn ==
    ASSUME TypeOK, NEW p, Dies(p) PROVE ProcessesGoOn
BY DEF TypeOK, ClientTypeOK, Dies, ProcessesGoOn, Unstopped, Runs

(* Every step lets processes only go on. *)
LEMMA GoOn == ASSUME TypeOK, [Next]_vars PROVE ProcessesGoOn
<1>1. ASSUME UNCHANGED procVars PROVE ProcessesGoOn
  BY <1>1 DEF procVars, ProcessesGoOn, Unstopped, Runs
<1>2. ASSUME NEW p, Start(p), UNCHANGED signalled PROVE ProcessesGoOn
  BY <1>2 DEF TypeOK, ClientTypeOK, Start, ProcessesGoOn, Unstopped, Runs
<1>3. ASSUME NEW p, Signal(p) PROVE ProcessesGoOn
  <2>1. CASE proc[p] = "starting" BY <1>3, <2>1, DiesGoesOn DEF Signal
  <2>2. CASE proc[p] # "starting"
    BY <1>3, <2>2 DEF Signal, ProcessesGoOn, Unstopped, Runs
  <2> QED BY <2>1, <2>2
<1>4. CASE DaemonStart BY <1>2, <1>4 DEF DaemonStart
<1>5. CASE DaemonStop BY <1>3, <1>5 DEF DaemonStop
<1>6. CASE CommandStep \/ CommandDies \/ SaveTruncates
  BY <1>1, <1>6 DEF CommandStep, WritePID, WritePIDFails, RemovePIDFile,
     SaveWrites, CommandDies, SaveTruncates, clientVars
<1>7. ASSUME NEW p \in Proc, Foreground(p) \/ Interrupt(p)
      PROVE  ProcessesGoOn
  BY <1>2, <1>3, <1>7 DEF Foreground, Interrupt
<1>8. ASSUME NEW p \in Proc, ProcessStep(p) \/ ProcessKilled(p)
      PROVE  ProcessesGoOn
  <2>1. CASE StartLoops(p)
    BY <2>1 DEF TypeOK, ClientTypeOK, StartLoops, ProcessesGoOn, Unstopped,
                Runs
  <2>2. CASE ConfigRejected(p) \/ Exit(p) \/ ProcessKilled(p)
    BY <2>2, DiesGoesOn DEF ConfigRejected, Exit, ProcessKilled
  <2> QED BY <1>8, <2>1, <2>2 DEF ProcessStep, LoadConfig
<1>9. ASSUME NEW l \in Loop, LoopRuns(l) PROVE ProcessesGoOn
  <2>1. ASSUME Fails(l) PROVE ProcessesGoOn
    BY <1>1, <2>1, DiesGoesOn DEF Fails
  <2> QED BY <1>1, <1>9, <2>1
          DEF LoopRuns, LoopStep, Dial, DialFails, ReadHelloOk, ReadError,
              Disconnected, BackoffElapses, Cancelled
<1>10. ASSUME NEW s \in Session,
              ServerStep(s) \/ GreetFails(s) \/ ConnectionLost(s)
       PROVE  ProcessesGoOn
  BY <1>1, <1>10 DEF ServerStep, HandlerStep, Greet, GreetFails, Register,
     Notices, CleanUp, Handles, ConnectionLost
<1>11. CASE Restart \/ ServerStops \/ UNCHANGED vars
  BY <1>1, <1>11 DEF Restart, ServerStarts, ServerStops, vars, clientVars
<1> QED BY <1>4, <1>5, <1>6, <1>7, <1>8, <1>9, <1>10, <1>11
        DEF Next, OperatorStep, Failure

(* A command that is about to change the PID file started when no daemon   *)
(* ran that another start had reported, or has just told it to stop.       *)
CommandInv ==
    /\ \A p \in reported : proc[p] # "none"
    /\ command.step = "writePID" => proc[command.pid] # "none"
    /\ command.step \in {"writePID", "remove"} =>
          \A p \in reported : p \notin Unstopped

PIDInv == CommandInv /\ RunningDaemonIsRecorded

(* Every step keeps what commands know of the PID file true. *)
LEMMA PIDInductive == TypeOK /\ PIDInv /\ [Next]_vars => PIDInv'
<1> SUFFICES ASSUME TypeOK, PIDInv, [Next]_vars PROVE PIDInv'
    OBVIOUS
<1>0. TypeOK' BY TypeInductive
<1>1. \A p \in reported : p \in Proc BY DEF TypeOK
<1>2. \A p \in Proc : /\ proc[p] # "none" => proc'[p] # "none"
                      /\ proc[p] # "none" /\ p \in Unstopped' => p \in Unstopped
  BY GoOn DEF ProcessesGoOn
<1>3. \A p \in reported : p \in Unstopped => pidfile = p
  BY DEF PIDInv, RunningDaemonIsRecorded, Unstopped
<1>4. \A p \in reported : /\ proc'[p] # "none"
                          /\ p \in Unstopped' => p \in Unstopped
  BY <1>1, <1>2 DEF PIDInv, CommandInv
<1>5. ASSUME UNCHANGED reported, \A p \in reported : p \in Unstopped' => pidfile' = p,
             command'.step = "writePID" => proc'[command'.pid] # "none",
             command'.step \in {"writePID", "remove"} =>
                 \A p \in reported : p \notin Unstopped'
      PROVE  PIDInv'
  BY <1>0, <1>4, <1>5
     DEF PIDInv, CommandInv, RunningDaemonIsRecorded, Unstopped, TypeOK
<1>6. ASSUME UNCHANGED <<reported, pidfile>>, command' = Idle PROVE PIDInv'
  BY <1>3, <1>4, <1>5, <1>6 DEF Idle
<1>7. ASSUME UNCHANGED daemonVars PROVE PIDInv'
  <2>1. command.step = "writePID" => command.pid \in Proc
    BY DEF TypeOK, CommandState
  <2> QED BY <1>2, <1>3, <1>4, <1>5, <1>7, <2>1
          DEF daemonVars, PIDInv, CommandInv
<1>8. CASE DaemonStart
  <2>1. PICK p \in Proc : /\ Start(p)
                          /\ command' = [step |-> "writePID", pid |-> p]
    BY <1>8 DEF DaemonStart, Then
  <2>2. proc'[p] # "none" BY <2>1 DEF Start, TypeOK, ClientTypeOK
  <2>3. \A q \in reported : q \notin Unstopped
    BY <1>1, <1>3, <1>8 DEF DaemonStart, Status, PIDRecorded, Unstopped
  <2> QED BY <1>3, <1>4, <1>5, <1>8, <2>1, <2>2, <2>3 DEF DaemonStart
<1>9. CASE WritePID
  <2>1. /\ reported' = reported \cup {command.pid} /\ pidfile' = command.pid
        /\ command' = Idle /\ UNCHANGED procVars
        /\ command.step = "writePID"
    BY <1>9 DEF WritePID, Done, At, clientVars
  <2>2. \A p \in reported : p \notin Unstopped'
    BY <1>4, <2>1 DEF PIDInv, CommandInv
  <2>3. proc'[command.pid] # "none"
    BY <2>1 DEF PIDInv, CommandInv, procVars
  <2>4. CommandInv' BY <1>4, <2>1, <2>3 DEF CommandInv, Idle
  <2>5. RunningDaemonIsRecorded'
    BY <1>1, <2>1, <2>2 DEF RunningDaemonIsRecorded, Unstopped, Runs, procVars
  <2> QED BY <2>4, <2>5 DEF PIDInv
<1>10. CASE WritePIDFails \/ RemovePIDFile
  <2>1. /\ UNCHANGED reported /\ command' = Idle
        /\ command.step \in {"writePID", "remove"}
    BY <1>10 DEF WritePIDFails, RemovePIDFile, Done, At
  <2>2. \A p \in reported : p \notin Unstopped'
    BY <1>4, <2>1 DEF PIDInv, CommandInv
  <2> QED BY <1>5, <2>1, <2>2 DEF Idle
<1>11. CASE DaemonStop
  <2>1. /\ Signal(pidfile) /\ UNCHANGED <<reported, pidfile>>
        /\ command' = [step |-> "remove", pid |-> Absent]
        /\ pidfile \in Proc
    BY <1>11 DEF DaemonStop, Then, Status, PIDRecorded
  <2>2. pidfile \notin Unstopped'
    BY <2>1 DEF Signal, Dies, Unstopped, Runs, TypeOK, ClientTypeOK
  <2>3. \A p \in reported : p \notin Unstopped' BY <1>3, <1>4, <2>2
  <2> QED BY <1>5, <2>1, <2>3
<1>12. CASE SaveTruncates
  BY <1>3, <1>4, <1>5, <1>12 DEF SaveTruncates, Then
<1>13. CASE SaveWrites \/ CommandDies
  BY <1>6, <1>13 DEF SaveWrites, CommandDies, Done
<1>14. CASE \/ \E p \in Proc : Foreground(p) \/ Interrupt(p) \/ ProcessStep(p)
            \/ \E l \in Loop : LoopRuns(l)
            \/ \E s \in Session : ServerStep(s)
            \/ Failure \/ Restart \/ UNCHANGED vars
  BY <1>7, <1>14 DEF Foreground, Interrupt, ProcessStep, LoadConfig, LoopRuns,
                     ServerStep, Failure, Restart, vars
<1> QED BY <1>8, <1>9, <1>10, <1>11, <1>12, <1>13, <1>14
        DEF Next, OperatorStep, CommandStep

(* Daemon stop and status reach every daemon whose start was reported, in  *)
(* whatever order commands start, are cut short and fail, and processes    *)
(* come and go (daemon.go:39, :49, :61).                                   *)
THEOREM ReportedDaemonIsRecorded == Spec => []RunningDaemonIsRecorded
<1>1. Init => PIDInv
  BY DEF Init, PIDInv, CommandInv, RunningDaemonIsRecorded, Idle
<1>2. TypeOK /\ PIDInv /\ [Next]_vars => PIDInv' BY PIDInductive
<1>3. PIDInv => RunningDaemonIsRecorded BY DEF PIDInv
<1> QED BY <1>1, <1>2, <1>3, DaemonTypeCorrect, PTL DEF Spec

-----------------------------------------------------------------------------
(* The death of a process ends its own loops only.                         *)
LEMMA DiesSurvived ==
    ASSUME TypeOK, LoopSurvives, NEW p \in Proc, Dies(p) PROVE LoopSurvives'
<1> SUFFICES ASSUME NEW l \in Loop, proc'[l[1]] = "running",
                    l[1] \notin oneShot', at'[l] = "ended"
             PROVE  l[1] \in signalled'
    BY DEF LoopSurvives
<1> USE DEF TypeOK, ClientTypeOK, Dies
<1>1. l[1] # p BY DEF Loop
<1>2. at'[l] = at[l] BY <1>1 DEF Ends, LoopsOf
<1>3. proc'[l[1]] = proc[l[1]] BY <1>1 DEF Loop
<1> QED BY <1>1, <1>2, <1>3 DEF LoopSurvives

(* A loop that is not one-shot ends only with the signal to its process. *)
LEMMA SurvivesInductive ==
    TypeOK /\ LoopSurvives /\ [Next]_vars => LoopSurvives'
<1> SUFFICES ASSUME TypeOK, LoopSurvives, [Next]_vars PROVE LoopSurvives'
    OBVIOUS
<1> USE DEF procVars, loopVars
<1>1. ASSUME UNCHANGED <<proc, at>>, oneShot \subseteq oneShot',
             signalled \subseteq signalled'
      PROVE  LoopSurvives'
  BY <1>1 DEF LoopSurvives
<1>2. ASSUME NEW p \in Proc, Start(p), UNCHANGED <<signalled, at>>,
             oneShot \subseteq oneShot'
      PROVE  LoopSurvives'
  BY <1>2 DEF Start, LoopSurvives, TypeOK, ClientTypeOK
<1>3. ASSUME NEW p \in Proc, Signal(p) PROVE LoopSurvives'
  <2>1. CASE proc[p] = "starting" BY <1>3, <2>1, DiesSurvived DEF Signal
  <2>2. CASE proc[p] # "starting" BY <1>1, <1>3, <2>2 DEF Signal
  <2> QED BY <2>1, <2>2
<1>4. ASSUME NEW l \in Loop, NEW state, state # "ended",
             Goto(l, state), UNCHANGED procVars
      PROVE  LoopSurvives'
  BY <1>4 DEF Goto, LoopSurvives, TypeOK, ClientTypeOK
<1>5. CASE DaemonStart BY <1>2, <1>5 DEF DaemonStart
<1>6. CASE DaemonStop
  BY <1>3, <1>6 DEF DaemonStop, Status, PIDRecorded
<1>7. CASE CommandStep \/ CommandDies \/ SaveTruncates
  BY <1>1, <1>7 DEF CommandStep, WritePID, WritePIDFails, RemovePIDFile,
     SaveWrites, CommandDies, SaveTruncates, clientVars
<1>8. ASSUME NEW p \in Proc, Foreground(p) \/ Interrupt(p)
      PROVE  LoopSurvives'
  BY <1>2, <1>3, <1>8 DEF Foreground, Interrupt
<1>9. ASSUME NEW p \in Proc, ProcessStep(p) \/ ProcessKilled(p)
      PROVE  LoopSurvives'
  <2>1. CASE StartLoops(p)
    <3> SUFFICES ASSUME NEW l \in Loop, proc'[l[1]] = "running",
                        l[1] \notin oneShot', at'[l] = "ended"
                 PROVE  l[1] \in signalled'
      BY DEF LoopSurvives
    <3>1. l[1] \in Proc /\ l[2] \in Tunnel BY DEF Loop
    <3>2. at' \in [Loop -> Place]
      BY <1>9, TypeInductive DEF TypeOK, ClientTypeOK
    <3>3. l[1] # p
      BY <2>1, <3>1 DEF StartLoops, TypeOK, ClientTypeOK
    <3>4. at'[l] = at[l] /\ proc'[l[1]] = proc[l[1]]
      BY <2>1, <3>1, <3>3 DEF StartLoops, TypeOK, ClientTypeOK
    <3> QED BY <2>1, <3>4 DEF StartLoops, LoopSurvives
  <2>2. CASE ConfigRejected(p) \/ Exit(p) \/ ProcessKilled(p)
    BY <2>2, DiesSurvived DEF ConfigRejected, Exit, ProcessKilled
  <2> QED BY <1>9, <2>1, <2>2 DEF ProcessStep, LoadConfig
<1>10. ASSUME NEW l \in Loop, LoopRuns(l) PROVE LoopSurvives'
  <2>1. ASSUME Fails(l) PROVE LoopSurvives'
    <3>1. CASE l[1] \in oneShot
      BY <2>1, <3>1, DiesSurvived DEF Fails, Loop
    <3>2. CASE l[1] \notin oneShot BY <1>4, <2>1, <3>2 DEF Fails
    <3> QED BY <3>1, <3>2
  <2>2. CASE Cancelled(l)
    <3>1. \A k \in Loop : at'[k] = at[k] \/ k = l
      BY <2>2 DEF Cancelled, Ends
    <3> QED BY <2>2, <3>1 DEF Cancelled, LoopSurvives
  <2>3. CASE Dial(l) \/ ReadHelloOk(l) \/ BackoffElapses(l)
    BY <1>4, <2>3 DEF Dial, ReadHelloOk, BackoffElapses
  <2>4. CASE DialFails(l) \/ ReadError(l) \/ Disconnected(l)
    BY <2>1, <2>4 DEF DialFails, ReadError, Disconnected
  <2> QED BY <1>10, <2>2, <2>3, <2>4 DEF LoopRuns, LoopStep
<1>11. ASSUME NEW s \in Session,
              ServerStep(s) \/ GreetFails(s) \/ ConnectionLost(s)
       PROVE  LoopSurvives'
  BY <1>1, <1>11 DEF ServerStep, HandlerStep, Greet, GreetFails, Register,
     Notices, CleanUp, Handles, ConnectionLost
<1>12. CASE Restart \/ ServerStops \/ UNCHANGED vars
  BY <1>1, <1>12 DEF Restart, ServerStarts, ServerStops, vars, clientVars
<1> QED BY <1>5, <1>6, <1>7, <1>8, <1>9, <1>10, <1>11, <1>12
        DEF Next, OperatorStep, Failure

(* The loop of a daemon ends only when the daemon was told to stop,        *)
(* whatever dialing, the handshake, the connection or the server runs into *)
(* (main.go:388).                                                          *)
THEOREM DaemonLoopSurvives == Spec => []LoopSurvives
<1>1. Init => LoopSurvives BY DEF Init, ClientInit, LoopSurvives, Loop
<1>2. TypeOK /\ LoopSurvives /\ [Next]_vars => LoopSurvives'
  BY SurvivesInductive
<1> QED BY <1>1, <1>2, DaemonTypeCorrect, PTL DEF Spec

=============================================================================
