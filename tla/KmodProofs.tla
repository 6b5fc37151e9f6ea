----------------------------- MODULE KmodProofs -----------------------------
(*************************************************************************)
(* Kmod's safety for both settings of Is32Bit and every linkage.  Each   *)
(* invariant is strengthened by what holds between the steps of a call.  *)
(*************************************************************************)
EXTENDS Kmod, TLAPS

\* Between the steps of a call: what the glue has done so far and what it
\* has left to do.
Progress ==
  /\ pc \in {"start_cpp", "start_main", "start_undo"} =>
       kext = "unloaded" /\ body = "off"
  /\ pc \in {"stop_main", "stop_cpp"} => kext = "started"
  /\ pc = "stop_cpp" => body = "off" /\ cppStop
  /\ pc \in {"start_cpp", "start_undo"} => cppStart
  /\ pc = "none" /\ kext = "unloaded" => body = "off"

\* The runtime is up from a successful initialize to a successful finalize;
\* it is up on an unloaded module only when no finalize is linked in, or when
\* the last start has failed and an earlier one had to be undone.
RuntimeHistory ==
  /\ runtime = "up" => cppStart
  /\ pc = "start_main" /\ cppStart => runtime = "up"
  /\ pc = "start_undo" => realmain
  /\ pc \in {"none", "start_cpp"} /\ kext = "unloaded" /\ runtime = "up" /\ cppStop =>
       realmain /\ startFailed

KmodInv == TypeOK /\ Progress /\ BodyHasRuntime /\ RuntimeHistory

\* The strengthened invariant holds in every reachable state of the glue.
THEOREM KmodInvariant == Spec => []KmodInv
<1> USE DEF KmodInv, TypeOK, Progress, BodyHasRuntime, RuntimeHistory, linkage, PC
<1>1. Init => KmodInv
  BY Is32BitAssumption DEF Init
<1>2. KmodInv /\ [Next]_vars => KmodInv'
  <2> SUFFICES ASSUME KmodInv, [Next]_vars PROVE KmodInv'
    OBVIOUS
  <2> USE DEF StartReturns, StopReturns
  <2>1. CASE CallStart BY <2>1 DEF CallStart
  <2>2. CASE StartInitializeCPP BY <2>2 DEF StartInitializeCPP
  <2>3. CASE StartNoMain BY <2>3 DEF StartNoMain
  <2>4. CASE StartMain BY <2>4 DEF StartMain
  <2>5. CASE StartUndo BY <2>5 DEF StartUndo
  <2>6. CASE CallStop BY <2>6 DEF CallStop
  <2>7. CASE StopMainC BY <2>7 DEF StopMainC
  <2>8. CASE StopMainCPP BY <2>8 DEF StopMainCPP
  <2>9. CASE StopFinalizeCPP BY <2>9 DEF StopFinalizeCPP
  <2>10. CASE UNCHANGED vars BY <2>10 DEF vars
  <2> QED
    BY <2>1, <2>2, <2>3, <2>4, <2>5, <2>6, <2>7, <2>8, <2>9, <2>10 DEF Next
<1> HIDE DEF KmodInv
<1>3. QED BY <1>1, <1>2, PTL DEF Spec

\* The glue's state keeps its types: a result is only read when there is one.
THEOREM TypeCorrect == Spec => []TypeOK
<1>1. KmodInv => TypeOK BY DEF KmodInv
<1>2. QED BY <1>1, KmodInvariant, PTL

\* A module that needs the C++ runtime never runs without it.
THEOREM BodyAlwaysHasRuntime == Spec => []BodyHasRuntime
<1>1. KmodInv => BodyHasRuntime BY DEF KmodInv
<1>2. QED BY <1>1, KmodInvariant, PTL

\* An unloaded module's body is off, and its runtime is down but for the two
\* ways in which the glue leaves it up: a failed start that could not be undone,
\* and the C++ _start linked with the C _stop.
THEOREM UnloadIsClean == Spec => []CleanUnload
<1>1. KmodInv => CleanUnload
  BY DEF KmodInv, TypeOK, Progress, RuntimeHistory, CleanUnload
<1>2. QED BY <1>1, KmodInvariant, PTL
=============================================================================
