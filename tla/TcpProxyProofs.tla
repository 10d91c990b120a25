---------------------------- MODULE TcpProxyProofs ----------------------------
(***************************************************************************)
(* What one TCP connection delivers, for every number of chunks and every  *)
(* window of the stream.                                                   *)
(***************************************************************************)
EXTENDS TcpProxy, TLAPS

(* A side that stopped copying, or is about to.                            *)
Quits(e) ==
    \/ at[e] \in {"returning", "done"}
    \/ at[e] = "copying" /\ copier[e] # {"in", "out"}

(* Why a side stops first: its outer end closed, or said all it had to say *)
(* and that is in the stream; the server never had a stream; the CLI never *)
(* reached the service.                                                    *)
Reason(e) ==
    \/ end[e] = "closed"
    \/ end[e] = "shut" /\ flow[e].written = flow[e].carried
    \/ e = "server" /\ at["client"] = "none" /\ ~ announced
    \/ e = "client" /\ end["client"] = "none"

(* As long as the session works a side stops for a reason of its own, or   *)
(* because the other did, closed the stream, and left nothing in it.       *)
QuitInv ==
    session => \A e \in Side : Quits(e) =>
        \/ Reason(e)
        \/ /\ at[Other(e)] = "done" /\ Reason(Other(e))
           /\ flow[Other(e)].carried = flow[Other(e)].delivered

(* The order in which the two handlers come to their copies.               *)
StartInv ==
    /\ at["server"] \in {"none", "looking", "opening"} =>
          at["client"] = "none" /\ ~ announced
    /\ session /\ at["server"] = "copying" => announced
    /\ at["client"] \in {"none", "opening", "dialing"} => end["client"] = "none"
    /\ \A e \in Side : end[e] = "none" => flow[e].written = 0

-----------------------------------------------------------------------------
(* Counters of one direction, when they grow or the session cuts them.     *)
LEMMA FlowTyped ==
    ASSUME NEW f \in FlowState
    PROVE  /\ f.written < MaxChunks =>
                  [f EXCEPT !.written = @ + 1] \in FlowState
           /\ f.carried < f.written =>
                  [f EXCEPT !.carried = @ + 1] \in FlowState
           /\ f.delivered < f.carried =>
                  [f EXCEPT !.delivered = @ + 1] \in FlowState
           /\ \A k \in f.delivered .. f.carried :
                  [f EXCEPT !.carried = k] \in FlowState
BY MaxChunksAssumption DEF FlowState

(* Every step of the two handlers and four copies keeps the types. *)
LEMMA TypeInductive == TypeOK /\ [Next]_vars => TypeOK'
<1> SUFFICES ASSUME TypeOK, [Next]_vars PROVE TypeOK'
    OBVIOUS
<1> USE DEF TypeOK, Moves, Side
<1>1. CASE Unregister BY <1>1 DEF Unregister
<1>2. CASE SessionEnds
  <2>1. PICK kept \in [Side -> 0 .. MaxChunks] :
            /\ \A e \in Side : kept[e] \in flow[e].delivered .. flow[e].carried
            /\ flow' = [e \in Side |-> [flow[e] EXCEPT !.carried = kept[e]]]
    BY <1>2 DEF SessionEnds
  <2>2. flow' \in [Side -> FlowState] BY <2>1, FlowTyped
  <2> QED BY <1>2, <2>2 DEF SessionEnds
<1>3. CASE Accept \/ ServerStep
  BY <1>3 DEF Accept, ServerStep, LookupTCP, OpenStream, Announce
<1>4. CASE ClientStep
  BY <1>4 DEF ClientStep, AcceptStream, ReadOpen, Dial
<1>5. ASSUME NEW e \in Side, Ends(e) \/ HandlerStep(e) PROVE TypeOK'
  BY <1>5 DEF Ends, HandlerStep, Wait, Close
<1>6. ASSUME NEW e \in Side, CopyInEnds(e) \/ CopyOutEnds(e) PROVE TypeOK'
  BY <1>6 DEF CopyInEnds, CopyOutEnds, Stops
<1>7. ASSUME NEW e \in Side, Writes(e) \/ CopyIn(e) \/ CopyOut(e)
      PROVE  TypeOK'
  <2>1. PICK o \in Side, g \in FlowState : flow' = [flow EXCEPT ![o] = g]
    <3>1. CASE Writes(e)
      <4>1. [flow[e] EXCEPT !.written = @ + 1] \in FlowState
        BY <3>1, FlowTyped DEF Writes
      <4> QED BY <3>1, <4>1 DEF Writes
    <3>2. CASE CopyIn(e)
      <4>1. flow[e].carried < flow[e].written
        BY <3>2 DEF CopyIn, FlowState
      <4>2. [flow[e] EXCEPT !.carried = @ + 1] \in FlowState
        BY <4>1, FlowTyped
      <4> QED BY <3>2, <4>2 DEF CopyIn
    <3>3. CASE CopyOut(e)
      <4> DEFINE o == Other(e)
      <4>1. o \in Side BY DEF Other
      <4> HIDE DEF o
      <4>2. flow[o].delivered < flow[o].carried
            /\ flow' = [flow EXCEPT ![o].delivered = @ + 1]
        BY <3>3, <4>1 DEF CopyOut, FlowState, o
      <4>3. [flow[o] EXCEPT !.delivered = @ + 1] \in FlowState
        BY <4>1, <4>2, FlowTyped
      <4> QED BY <4>1, <4>2, <4>3
    <3> QED BY <1>7, <3>1, <3>2, <3>3
  <2> QED BY <1>7, <2>1 DEF Writes, CopyIn, CopyOut, Copies
<1>8. CASE UNCHANGED vars BY <1>8 DEF vars
<1> QED BY <1>1, <1>2, <1>3, <1>4, <1>5, <1>6, <1>7, <1>8
        DEF Next, InStep, OutStep

(* The counters of a connection stay in order: nothing is delivered that   *)
(* was not carried, or carried that was not written (tcp.go:78).           *)
THEOREM TcpTypeCorrect == Spec => []TypeOK
<1>1. Init => TypeOK
  <2>1. [written |-> 0, carried |-> 0, delivered |-> 0] \in FlowState
    BY MaxChunksAssumption DEF FlowState
  <2> QED BY <2>1 DEF Init, TypeOK
<1> QED BY <1>1, TypeInductive, PTL DEF Spec

-----------------------------------------------------------------------------
(* Handlers keep the order accept, announce, dial, copy. *)
LEMMA StartInductive == TypeOK /\ StartInv /\ [Next]_vars => StartInv'
<1> SUFFICES ASSUME TypeOK, StartInv, [Next]_vars PROVE StartInv'
    OBVIOUS
<1>0. TypeOK' BY TypeInductive
<1> USE DEF TypeOK, StartInv, Moves, Side
<1>1. CASE Unregister BY <1>1 DEF Unregister
<1>2. CASE SessionEnds
  <2>1. \A e \in Side : flow'[e].written = flow[e].written
    BY <1>2 DEF SessionEnds, FlowState
  <2> QED BY <1>2, <2>1 DEF SessionEnds
<1>3. CASE Accept BY <1>3 DEF Accept
<1>4. CASE ServerStep
  BY <1>4 DEF ServerStep, LookupTCP, OpenStream, Announce
<1>5. CASE ClientStep
  BY <1>5 DEF ClientStep, AcceptStream, ReadOpen, Dial
<1>6. ASSUME NEW e \in Side, Ends(e) \/ HandlerStep(e) PROVE StartInv'
  BY <1>6 DEF Ends, HandlerStep, Wait, Close
<1>7. ASSUME NEW e \in Side, CopyInEnds(e) \/ CopyOutEnds(e) PROVE StartInv'
  BY <1>7 DEF CopyInEnds, CopyOutEnds, Stops
<1>8. ASSUME NEW e \in Side, CopyIn(e) \/ CopyOut(e) PROVE StartInv'
  <2>1. \A o \in Side : flow'[o].written = flow[o].written
    BY <1>8 DEF CopyIn, CopyOut, Other, FlowState
  <2> QED BY <1>8, <2>1 DEF CopyIn, CopyOut, Copies
<1>9. ASSUME NEW e \in Side, Writes(e) PROVE StartInv'
  BY <1>9 DEF Writes
<1>10. CASE UNCHANGED vars BY <1>10 DEF vars
<1> QED BY <1>1, <1>2, <1>3, <1>4, <1>5, <1>6, <1>7, <1>8, <1>9, <1>10
        DEF Next, InStep, OutStep

-----------------------------------------------------------------------------
(* A handler that returned does not come back.                             *)
LEMMA DoneKept ==
    ASSUME TypeOK, [Next]_vars, NEW e \in Side, at[e] = "done"
    PROVE  at'[e] = "done"
BY DEF TypeOK, Side, Moves, Next, Unregister, SessionEnds, Accept, ServerStep,
       LookupTCP, OpenStream, Announce, ClientStep, AcceptStream, ReadOpen,
       Dial, Writes, Ends, HandlerStep, Wait, Close, InStep, OutStep, CopyIn,
       CopyOut, Copies, CopyInEnds, CopyOutEnds, Stops, vars

(* While the session works only the copies of a side empty and fill its    *)
(* direction of the stream.                                                *)
LEMMA FlowKept ==
    ASSUME TypeOK, [Next]_vars, session', NEW e \in Side
    PROVE  /\ session
           /\ end[e] \in {"shut", "closed"} =>
                  flow'[e].written = flow[e].written
           /\ flow[e].written = flow[e].carried /\ end[e] # "open" =>
                  flow'[e].written = flow'[e].carried
           /\ at[e] = "done" /\ flow[e].carried = flow[e].delivered =>
                  flow'[e].carried = flow'[e].delivered
<1> USE DEF TypeOK, Side
<1>1. CASE UNCHANGED <<session, flow>> BY <1>1
<1>2. CASE SessionEnds BY <1>2 DEF SessionEnds
<1>3. ASSUME NEW o \in Side, Writes(o)
      PROVE  /\ session /\ \A w \in Side :
                    /\ flow'[w].carried = flow[w].carried
                    /\ flow'[w].delivered = flow[w].delivered
                    /\ end[w] # "open" => flow'[w].written = flow[w].written
  BY <1>3 DEF Writes, FlowState
<1>4. ASSUME NEW o \in Side, CopyIn(o)
      PROVE  /\ session /\ at[o] # "done"
             /\ flow[o].carried # flow[o].written
             /\ \A w \in Side : w # o => flow'[w] = flow[w]
             /\ flow'[o].written = flow[o].written
  BY <1>4 DEF CopyIn, Copies, FlowState
<1>5. ASSUME NEW o \in Side, CopyOut(o)
      PROVE  /\ session
             /\ \A w \in Side : w # Other(o) => flow'[w] = flow[w]
             /\ flow[Other(o)].carried # flow[Other(o)].delivered
             /\ flow'[Other(o)].written = flow[Other(o)].written
             /\ flow'[Other(o)].carried = flow[Other(o)].carried
  BY <1>5 DEF CopyOut, Copies, FlowState, Other
<1>6. CASE \E o \in Side : Writes(o) BY <1>3, <1>6
<1>7. CASE \E o \in Side : CopyIn(o) BY <1>4, <1>7
<1>8. CASE \E o \in Side : CopyOut(o) BY <1>5, <1>8
<1>9. CASE \/ Unregister \/ Accept \/ ServerStep \/ ClientStep
           \/ \E o \in Side : \/ Ends(o) \/ HandlerStep(o)
                              \/ CopyInEnds(o) \/ CopyOutEnds(o)
           \/ UNCHANGED vars
  BY <1>1, <1>9 DEF Unregister, Accept, ServerStep, LookupTCP, OpenStream,
     Announce, ClientStep, AcceptStream, ReadOpen, Dial, Ends, HandlerStep,
     Wait, Close, CopyInEnds, CopyOutEnds, Stops, vars
<1> QED BY <1>2, <1>6, <1>7, <1>8, <1>9 DEF Next, InStep, OutStep

(* A reason to stop remains one.                                           *)
LEMMA ReasonKept ==
    ASSUME TypeOK, StartInv, [Next]_vars, session', NEW e \in Side,
           Quits(e), Reason(e)
    PROVE  Reason(e)'
<1> USE DEF TypeOK, Side, Moves
<1>1. \/ UNCHANGED <<at, end, announced>>
      \/ Accept \/ ServerStep \/ ClientStep
      \/ \E o \in Side : Ends(o) \/ HandlerStep(o)
  BY DEF Next, Unregister, SessionEnds, Writes, InStep, OutStep, CopyIn,
         CopyOut, Copies, CopyInEnds, CopyOutEnds, Stops, vars
<1>2. CASE end[e] = "closed"
  <2>1. end'[e] = "closed"
    BY <1>1, <1>2 DEF Accept, ServerStep, LookupTCP, OpenStream, Announce,
       ClientStep, AcceptStream, ReadOpen, Dial, StartInv, Quits, Ends,
       HandlerStep, Wait, Close
  <2> QED BY <2>1 DEF Reason
<1>3. CASE end[e] = "shut" /\ flow[e].written = flow[e].carried
  <2>1. end'[e] \in {"shut", "closed"}
    BY <1>1, <1>3 DEF Accept, ServerStep, LookupTCP, OpenStream, Announce,
       ClientStep, AcceptStream, ReadOpen, Dial, StartInv, Quits, Ends,
       HandlerStep, Wait, Close
  <2>2. flow'[e].written = flow'[e].carried BY <1>3, FlowKept
  <2> QED BY <2>1, <2>2 DEF Reason
<1>4. CASE e = "server" /\ at["client"] = "none" /\ ~ announced
  <2>1. at["server"] \in {"returning", "done"}
    BY <1>4, FlowKept DEF Quits, StartInv
  <2>2. ~ Accept /\ ~ ServerStep
    BY <2>1 DEF Accept, ServerStep, LookupTCP, OpenStream, Announce
  <2>3. ~ ClientStep
    BY <1>4, <2>1 DEF ClientStep, AcceptStream, ReadOpen, Dial
  <2>4. ASSUME NEW o \in Side, Ends(o) \/ HandlerStep(o)
        PROVE  at'["client"] = at["client"] /\ announced' = announced
    BY <1>4, <2>4 DEF Ends, HandlerStep, Wait, Close
  <2>5. at'["client"] = "none" /\ ~ announced'
    BY <1>1, <1>4, <2>2, <2>3, <2>4
  <2> QED BY <1>4, <2>5 DEF Reason
<1>5. CASE e = "client" /\ end["client"] = "none"
  <2>1. end'["client"] = "none"
    BY <1>1, <1>5 DEF Accept, ServerStep, LookupTCP, OpenStream, Announce,
       ClientStep, AcceptStream, ReadOpen, Dial, Quits, Ends, HandlerStep,
       Wait, Close
  <2> QED BY <1>5, <2>1 DEF Reason
<1> QED BY <1>2, <1>3, <1>4, <1>5 DEF Reason

(* A side that goes from copying to stopping does so for its own reason or *)
(* because the other side is gone.                                         *)
LEMMA FirstQuit ==
    ASSUME TypeOK, StartInv, [Next]_vars, session', NEW e \in Side,
           ~ Quits(e), Quits(e)'
    PROVE  \/ Reason(e)'
           \/ /\ at[Other(e)] = "done" /\ at[e] # "done"
              /\ flow[Other(e)].carried = flow[Other(e)].delivered
<1> USE DEF TypeOK, Side, Moves
<1>0. session BY FlowKept
<1>1. CASE e = "server" /\ LookupTCP
  BY <1>1 DEF LookupTCP, StartInv, Reason, Quits
<1>2. CASE e = "client" /\ Dial
  BY <1>2 DEF Dial, StartInv, Reason, Quits
<1>3. CASE CopyInEnds(e)
  BY <1>0, <1>3 DEF CopyInEnds, Stops, Quits, Reason
<1>4. CASE CopyOutEnds(e)
  BY <1>0, <1>4 DEF CopyOutEnds, Stops, Quits, Reason
<1>5. CASE ~ (CopyInEnds(e) \/ CopyOutEnds(e) \/ (e = "server" /\ LookupTCP)
              \/ (e = "client" /\ Dial))
  <2>1. ASSUME \/ UNCHANGED <<at, copier>> \/ Accept \/ OpenStream
               \/ Announce \/ (e = "client" /\ LookupTCP)
        PROVE  FALSE
    BY <1>0, <2>1 DEF Quits, Accept, OpenStream, Announce, LookupTCP
  <2>2. ASSUME AcceptStream \/ ReadOpen \/ (e = "server" /\ Dial)
        PROVE  FALSE
    BY <1>0, <2>2 DEF Quits, AcceptStream, ReadOpen, Dial
  <2>3. ASSUME NEW o \in Side,
               \/ HandlerStep(o)
               \/ o # e /\ (CopyInEnds(o) \/ CopyOutEnds(o))
        PROVE  FALSE
    <3>1. o # e BY <2>3 DEF Quits, HandlerStep, Wait, Close
    <3>2. at'[e] = at[e] /\ copier'[e] = copier[e]
      BY <2>3, <3>1 DEF HandlerStep, Wait, Close, CopyInEnds, CopyOutEnds, Stops
    <3> QED BY <3>2 DEF Quits
  <2>4. UNCHANGED <<at, copier>> \/ Accept \/ ServerStep \/ ClientStep
        \/ \E o \in Side :
              HandlerStep(o) \/ CopyInEnds(o) \/ CopyOutEnds(o)
    BY DEF Next, Unregister, SessionEnds, Writes, Ends, InStep, OutStep, CopyIn,
           CopyOut, Copies, vars
  <2>5. \A o \in Side : ~ HandlerStep(o) /\ ~ CopyInEnds(o) /\ ~ CopyOutEnds(o)
    BY <1>5, <2>3
  <2>6. \/ UNCHANGED <<at, copier>> \/ Accept \/ LookupTCP \/ OpenStream
        \/ Announce \/ AcceptStream \/ ReadOpen \/ Dial
    BY <2>4, <2>5 DEF ServerStep, ClientStep
  <2>7. CASE e = "server"
    <3>1. ~ LookupTCP BY <1>5, <2>7
    <3> QED BY <2>1, <2>2, <2>6, <2>7, <3>1
  <2>8. CASE e = "client"
    <3>1. ~ Dial BY <1>5, <2>8
    <3> QED BY <2>1, <2>2, <2>6, <2>8, <3>1
  <2> QED BY <2>7, <2>8
<1> QED BY <1>1, <1>2, <1>3, <1>4, <1>5

(* A side that stops has a reason, its own or the other side's. *)
LEMMA QuitInductive ==
    TypeOK /\ StartInv /\ QuitInv /\ [Next]_vars => QuitInv'
<1> SUFFICES ASSUME TypeOK, StartInv, QuitInv, [Next]_vars, session',
                    NEW e \in Side, Quits(e)'
             PROVE  \/ Reason(e)'
                    \/ /\ at'[Other(e)] = "done" /\ Reason(Other(e))'
                       /\ flow'[Other(e)].carried = flow'[Other(e)].delivered
    BY DEF QuitInv
<1> DEFINE o == Other(e)
<1>1. o \in Side /\ Other(o) = e BY DEF Other, Side
<1>2. session BY FlowKept
<1>3. ASSUME at[o] = "done", Reason(o), flow[o].carried = flow[o].delivered
      PROVE  /\ at'[o] = "done" /\ Reason(o)'
             /\ flow'[o].carried = flow'[o].delivered
  BY <1>1, <1>3, FlowKept, ReasonKept, DoneKept DEF Quits
<1>4. CASE Quits(e)
  <2>1. CASE Reason(e) BY <1>4, <2>1, ReasonKept
  <2>2. CASE ~ Reason(e) BY <1>2, <1>3, <1>4, <2>2 DEF QuitInv
  <2> QED BY <2>1, <2>2
<1>5. CASE ~ Quits(e)
  <2>1. CASE Reason(e)' BY <2>1
  <2>2. CASE ~ Reason(e)'
    <3>1. /\ at[o] = "done" /\ at[e] # "done"
          /\ flow[o].carried = flow[o].delivered
      BY <1>5, <2>2, FirstQuit
    <3>2. Reason(o) BY <1>1, <1>2, <3>1 DEF QuitInv, Quits
    <3> QED BY <1>3, <3>1, <3>2
  <2> QED BY <2>1, <2>2
<1> QED BY <1>4, <1>5

(* An end that only listens gets all the other end sent before it          *)
(* finished, whichever of the four copies is first to end and whichever    *)
(* handler closes first (tcp.go:93).                                       *)
THEOREM TcpShutDeliversAll == Spec => []ShutDeliversAll
<1>1. Init => StartInv /\ QuitInv
  BY DEF Init, StartInv, QuitInv, Quits, Side
<1>2. TypeOK /\ StartInv /\ QuitInv => ShutDeliversAll
  <2> SUFFICES ASSUME TypeOK, StartInv, QuitInv, NEW e \in Side,
                      at[Other(e)] = "done", session,
                      end[e] # "closed", end[Other(e)] = "open"
               PROVE  flow[e].delivered = flow[e].written
      BY DEF ShutDeliversAll
  <2> DEFINE o == Other(e)
  <2>1. o \in Side /\ Other(o) = e BY DEF Other, Side
  <2>2. ASSUME end[e] = "none" PROVE flow[e].delivered = flow[e].written
    BY <2>2 DEF TypeOK, StartInv, FlowState
  <2>3. CASE Reason(o) BY <2>2, <2>3 DEF Reason, StartInv, Other, Side
  <2>4. CASE ~ Reason(o)
    <3>1. at[e] = "done" /\ Reason(e) /\ flow[e].carried = flow[e].delivered
      BY <2>1, <2>4 DEF QuitInv, Quits
    <3> QED BY <2>2, <3>1 DEF Reason, Other
  <2> QED BY <2>3, <2>4
<1>3. StartInv /\ QuitInv /\ TypeOK /\ [Next]_vars => (StartInv /\ QuitInv)'
  BY StartInductive, QuitInductive
<1> QED BY <1>1, <1>2, <1>3, TcpTypeCorrect, PTL DEF Spec

=============================================================================
