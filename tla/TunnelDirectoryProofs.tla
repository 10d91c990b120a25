------------------------ MODULE TunnelDirectoryProofs ------------------------
(* What follows from the abstract directory alone; RelayServerProofs shows *)
(* that the server implements it.                                          *)
EXTENDS TunnelDirectory, TLAPS

(* A name is never left leading to a session that ended: what the handler  *)
(* clean-up of server.go:79-95 is for.                                     *)
THEOREM RoutesAreLive == Spec => []NoRouteToEnded
<1>1. Init => NoRouteToEnded
  BY DEF Init, NoRouteToEnded
<1>2. NoRouteToEnded /\ [Next]_vars => NoRouteToEnded'
  <2> SUFFICES ASSUME NoRouteToEnded, [Next]_vars
               PROVE  NoRouteToEnded'
    OBVIOUS
  <2>1. ASSUME NEW e \in Entry, Bind(e) PROVE NoRouteToEnded'
    BY <2>1 DEF Bind, NoRouteToEnded
  <2>2. CASE Unbind
    BY <2>2 DEF Unbind, NoRouteToEnded
  <2>3. ASSUME NEW s \in Session, End(s) PROVE NoRouteToEnded'
    BY <2>3 DEF End, NoRouteToEnded
  <2>4. CASE Stop
    BY <2>4 DEF Stop, NoRouteToEnded
  <2>5. CASE UNCHANGED vars
    BY <2>5 DEF vars, NoRouteToEnded
  <2> QED
    BY <2>1, <2>2, <2>3, <2>4, <2>5 DEF Next
<1> QED
  BY <1>1, <1>2, PTL DEF Spec

(* A name leads to one session, also when a tunnel takes its own name over *)
(* from an earlier connection (registry.go:131, 186).                      *)
THEOREM NamesAreUnique == Spec => []OneSessionPerName
<1>1. Init => OneSessionPerName
  BY DEF Init, OneSessionPerName
<1>2. OneSessionPerName /\ [Next]_vars => OneSessionPerName'
  <2> SUFFICES ASSUME OneSessionPerName, [Next]_vars
               PROVE  OneSessionPerName'
    OBVIOUS
  <2>1. ASSUME NEW e \in Entry, Bind(e) PROVE OneSessionPerName'
    BY <2>1 DEF Bind, OneSessionPerName
  <2>2. CASE Unbind
    BY <2>2 DEF Unbind, OneSessionPerName
  <2>3. ASSUME NEW s \in Session, End(s) PROVE OneSessionPerName'
    BY <2>3 DEF End, OneSessionPerName
  <2>4. CASE Stop
    BY <2>4 DEF Stop, OneSessionPerName
  <2>5. CASE UNCHANGED vars
    BY <2>5 DEF vars, OneSessionPerName
  <2> QED
    BY <2>1, <2>2, <2>3, <2>4, <2>5 DEF Next
<1> QED
  BY <1>1, <1>2, PTL DEF Spec

=============================================================================
