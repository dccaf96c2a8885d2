----------------------------- MODULE PS5System ------------------------------
(***************************************************************************)
(* PS5System (src/eden-ps5/src_ps5/ps5_platform/ps5_system.h, which holds  *)
(* the implementation): the platform layer's static flags initialized_,    *)
(* etahen_available_ and high_performance_mode_, and the operations that   *)
(* change them.  The getters and the sleep calls change no state.          *)
(*                                                                         *)
(* InitializeEtaHEN is a placeholder that returns false in both builds,    *)
(* so etahen_available_ never becomes true, whatever the etaHEN plugin of  *)
(* EtaHenPlugin finds.                                                     *)
(***************************************************************************)

VARIABLES
    sysInitialized,    \* PS5System::initialized_
    etahenAvailable,   \* PS5System::etahen_available_
    highPerformance    \* PS5System::high_performance_mode_

sysVars == <<sysInitialized, etahenAvailable, highPerformance>>

\* The static initializers.
SysInit ==
    /\ sysInitialized = FALSE
    /\ etahenAvailable = FALSE
    /\ highPerformance = FALSE

\* InitializeEtaHEN: "return false; // Placeholder" (PS5 build), false
\* otherwise.
InitializeEtaHEN == FALSE

\* Initialize: returns true at once when initialized; otherwise records
\* InitializeEtaHEN's result (false in the development build) and sets
\* initialized_.  It always returns true.
SysInitialize ==
    IF sysInitialized THEN UNCHANGED sysVars
    ELSE /\ etahenAvailable' = InitializeEtaHEN
         /\ sysInitialized' = TRUE
         /\ UNCHANGED highPerformance

\* RequestHighPerformanceMode: sets the flag in both builds; returns true.
RequestHighPerformanceMode ==
    /\ highPerformance' = TRUE
    /\ UNCHANGED <<sysInitialized, etahenAvailable>>

\* ReleaseHighPerformanceMode: returns at once when the flag is clear.
ReleaseHighPerformanceMode ==
    /\ highPerformance' = FALSE
    /\ UNCHANGED <<sysInitialized, etahenAvailable>>

\* Shutdown: nothing when not initialized; otherwise releases high
\* performance mode if held and clears initialized_.  etahen_available_ is
\* left as it was.
SysShutdown ==
    IF ~sysInitialized THEN UNCHANGED sysVars
    ELSE /\ highPerformance' = FALSE
         /\ sysInitialized' = FALSE
         /\ UNCHANGED etahenAvailable

\* IsJailbroken and IsEtaHENAvailable both return etahen_available_.
IsJailbroken == etahenAvailable

SysTypeOK == {sysInitialized, etahenAvailable, highPerformance} \subseteq BOOLEAN

=============================================================================
