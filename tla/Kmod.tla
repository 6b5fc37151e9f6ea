-------------------------------- MODULE Kmod --------------------------------
(*************************************************************************)
(* The start and stop glue that libkmod links into every kernel          *)
(* extension (Library/kmod).  The linker satisfies _start and _stop      *)
(* either from c_start.c / c_stop.c or, in 32-bit builds, from           *)
(* cplus_start.c when .constructors_used is referenced and from          *)
(* cplus_stop.c when .destructors_used is.  The two references are       *)
(* independent, so all four combinations link.                           *)
(*                                                                       *)
(* The kernel (external) calls _start on an unloaded module and _stop on *)
(* a started one, never both at once, and takes KERN_SUCCESS for done.   *)
(* Each routine the glue calls through is a step of its own.             *)
(*************************************************************************)

CONSTANT Is32Bit  \* __i386__ || __ppc__: the C++ variants are compiled at all

ASSUME Is32BitAssumption == Is32Bit \in BOOLEAN

VARIABLES
  cppStart,   \* _start is the one of cplus_start.c
  cppStop,    \* _stop is the one of cplus_stop.c
  realmain,   \* _realmain is not null
  antimain,   \* _antimain is not null
  pc,         \* the call in progress, at the routine it is about to call
  kext,       \* what the kernel believes: "unloaded" or "started"
  runtime,    \* the module's C++ runtime: "up" between initialize and finalize
  body,       \* the module itself: "on" once _realmain has succeeded
  startFailed \* the last _start returned a failure

linkage == <<cppStart, cppStop, realmain, antimain>>
vars == <<linkage, pc, kext, runtime, body, startFailed>>

PC == {"none", "start_cpp", "start_main", "start_undo", "stop_main", "stop_cpp"}

Init ==
  /\ cppStart \in BOOLEAN /\ cppStop \in BOOLEAN
  /\ (cppStart \/ cppStop) => Is32Bit
  /\ realmain \in BOOLEAN /\ antimain \in BOOLEAN
  /\ pc = "none" /\ kext = "unloaded"
  /\ runtime = "down" /\ body = "off"
  /\ startFailed = FALSE

-----------------------------------------------------------------------------
\* What a returning _start or _stop leaves behind for the kernel.

StartReturns(ok) ==
  /\ pc' = "none"
  /\ kext' = IF ok THEN "started" ELSE "unloaded"
  /\ startFailed' = ~ok

StopReturns(ok) ==
  /\ pc' = "none"
  /\ kext' = IF ok THEN "unloaded" ELSE "started"
  /\ UNCHANGED startFailed

-----------------------------------------------------------------------------
\* Mutated forms of the operations below, each a plausible slip in the glue.

\* c_start.c without its else branch: the result is whatever was in the register.
StartNoMain_NoElse ==
  /\ pc = "start_main" /\ ~realmain
  /\ pc' = "none" /\ kext' = "undefined"
  /\ UNCHANGED <<linkage, runtime, body, startFailed>>

\* cplus_stop.c finalizing whatever _antimain returned.
StopMainCPP_IgnoreResult ==
  /\ pc = "stop_main" /\ cppStop
  /\ body' \in {"off", IF antimain THEN body ELSE "off"}
  /\ pc' = "stop_cpp"
  /\ UNCHANGED <<linkage, runtime, kext, startFailed>>

\* cplus_stop.c with "(void)OSRuntimeFinalizeCPP", as cplus_start.c has it.
StopFinalizeCPP_DropResult ==
  /\ pc = "stop_cpp"
  /\ runtime' \in {"down", runtime}
  /\ StopReturns(TRUE)
  /\ UNCHANGED <<linkage, body>>

-----------------------------------------------------------------------------
\* _start

CallStart ==
  /\ pc = "none" /\ kext = "unloaded"
  /\ pc' = IF cppStart THEN "start_cpp" ELSE "start_main"
  /\ UNCHANGED <<linkage, kext, runtime, body, startFailed>>

\* cplus_start.c: result = OSRuntimeInitializeCPP(ki, data)
StartInitializeCPP ==
  /\ pc = "start_cpp"
  /\ \/ /\ runtime' = "up"
        /\ pc' = "start_main"
        /\ UNCHANGED <<kext, startFailed>>
     \/ /\ StartReturns(FALSE)
        /\ UNCHANGED runtime
  /\ UNCHANGED <<linkage, body>>

\* No _realmain: both variants return success.
StartNoMain ==
  /\ pc = "start_main" /\ ~realmain
  /\ StartReturns(TRUE)
  /\ body' = "on"
  /\ UNCHANGED <<linkage, runtime>>

\* (*_realmain)(ki, data); only the C++ variant has something to undo.
StartMain ==
  /\ pc = "start_main" /\ realmain
  /\ \/ /\ StartReturns(TRUE)
        /\ body' = "on"
     \/ /\ ~cppStart
        /\ StartReturns(FALSE)
        /\ UNCHANGED body
     \/ /\ cppStart
        /\ pc' = "start_undo"
        /\ UNCHANGED <<kext, startFailed, body>>
  /\ UNCHANGED <<linkage, runtime>>

\* (void)OSRuntimeFinalizeCPP(ki, data): its result is dropped.
StartUndo ==
  /\ pc = "start_undo"
  /\ runtime' \in {"down", runtime}
  /\ StartReturns(FALSE)
  /\ UNCHANGED <<linkage, body>>

-----------------------------------------------------------------------------
\* _stop

CallStop ==
  /\ pc = "none" /\ kext = "started"
  /\ pc' = "stop_main"
  /\ UNCHANGED <<linkage, kext, runtime, body, startFailed>>

\* c_stop.c: (*_antimain)(ki, data) decides; without it the module just stops.
StopMainC ==
  /\ pc = "stop_main" /\ ~cppStop
  /\ \/ body' = "off" /\ StopReturns(TRUE)
     \/ antimain /\ StopReturns(FALSE) /\ UNCHANGED body
  /\ UNCHANGED <<linkage, runtime>>

\* cplus_stop.c: the same, but a failure ends the call before the finalizer.
StopMainCPP ==
  /\ pc = "stop_main" /\ cppStop
  /\ \/ body' = "off" /\ pc' = "stop_cpp" /\ UNCHANGED <<kext, startFailed>>
     \/ antimain /\ StopReturns(FALSE) /\ UNCHANGED body
  /\ UNCHANGED <<linkage, runtime>>

\* result = OSRuntimeFinalizeCPP(ki, data)
StopFinalizeCPP ==
  /\ pc = "stop_cpp"
  /\ \/ runtime' = "down" /\ StopReturns(TRUE)
     \/ StopReturns(FALSE) /\ UNCHANGED runtime
  /\ UNCHANGED <<linkage, body>>

Next ==
  \/ CallStart \/ StartInitializeCPP \/ StartNoMain \/ StartMain \/ StartUndo
  \/ CallStop \/ StopMainC \/ StopMainCPP \/ StopFinalizeCPP

Spec == Init /\ [][Next]_vars

-----------------------------------------------------------------------------
\* Every variable keeps its type; in particular _start always hands the kernel
\* a defined result (the else branch of c_start.c).
TypeOK ==
  /\ linkage \in BOOLEAN \X BOOLEAN \X BOOLEAN \X BOOLEAN
  /\ pc \in PC
  /\ kext \in {"unloaded", "started"}
  /\ runtime \in {"up", "down"}
  /\ body \in {"on", "off"}
  /\ startFailed \in BOOLEAN

\* A module whose _start brought the C++ runtime up never runs without it:
\* not when _antimain refuses to stop (cplus_stop.c returns before finalizing),
\* not across any number of failed starts and stops.
BodyHasRuntime == cppStart /\ body = "on" => runtime = "up"

\* What an unloaded module may leave behind: never its body, and the C++ runtime
\* only in the two cases that the glue lets through.  Either _realmain failed and
\* so did the OSRuntimeFinalizeCPP whose result cplus_start.c drops, and every
\* _start since has failed as well; or cplus_start.c is linked with c_stop.c,
\* which has no finalizer.  In particular a _stop of cplus_stop.c that returned
\* success has taken the runtime down.
CleanUnload ==
  pc = "none" /\ kext = "unloaded" =>
    /\ body = "off"
    /\ runtime = "up" => cppStart /\ (~cppStop \/ (realmain /\ startFailed))
=============================================================================
