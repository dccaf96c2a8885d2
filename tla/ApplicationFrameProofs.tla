------------------------ MODULE ApplicationFrameProofs ------------------------
(***************************************************************************)
(* Proofs about the whole process (ASpec of Application) for every value  *)
(* of the constants.  The process changes the renderer only through       *)
(* Initialize, one frame and the end of the renderer member, and the      *)
(* audio manager only through its own calls and the frees of a dependent  *)
(* being destroyed; so RIInv of RendererProofs and AuIInv of              *)
(* AudioManagerProofs carry over, and with AppIInv of ApplicationProofs   *)
(* they give the frame buffers of FrameBuffersLive, the allocations of    *)
(* NoOverlap, the streams of StreamsOnLiveDevices and the types of        *)
(* ATypeOK.                                                                *)
(***************************************************************************)
EXTENDS ApplicationProofs, RendererProofs, AudioManagerProofs

\* The renderer calls main() and PS5Application make.
RendererCall ==
    \/ RInitializeSucceeds
    \/ RInitializeFails
    \/ RenderFrame
    \/ RDestroy
    \/ UNCHANGED rvars

\* Each renderer call keeps the renderer's invariant.
LEMMA RendererCallKeepsRIInv ==
    ASSUME RIInv, RendererCall PROVE RIInv'
BY RInitializeSucceedsKeepsRIInv, RInitializeFailsKeepsRIInv,
   RenderFrameKeepsRIInv, RDestroyKeepsRIInv, UnchangedKeepsRIInv
   DEF RendererCall

\* The end of a member: only the renderer's touches the renderer.
LEMMA EndMemberRenderer ==
    ASSUME NEW k, EndMember(k) PROVE RendererCall
<1> DEFINE s == ShutdownOrder[k]
<1>1. CASE s \in alive /\ s = "renderer"
  BY <1>1 DEF EndMember, TearDown, RendererCall
<1>2. CASE s \in alive /\ s # "renderer"
  BY <1>2 DEF EndMember, TearDown, RendererCall
<1>3. CASE s \notin alive
  BY <1>3 DEF EndMember, RendererCall
<1> QED
  BY <1>1, <1>2, <1>3

\* InitializeSubsystems: the renderer's Initialize, or nothing of it.
LEMMA InitSubsystemRenderer ==
    ASSUME InitSubsystem PROVE RendererCall
<1> DEFINE s == InitOrder[subIdx]
<1>1. PICK ok \in BOOLEAN :
        IF s = "renderer"
          THEN IF ok THEN RInitializeSucceeds ELSE RInitializeFails
          ELSE UNCHANGED rvars
  BY DEF InitSubsystem
<1> QED
  BY <1>1 DEF RendererCall

\* Every step of the process is one of the renderer calls.
LEMMA ANextRenderer ==
    ASSUME [ANext]_avars PROVE RendererCall
<1>1. CASE \/ InstallHandlers \/ PlatformAndEtaHEN \/ CreateApp
           \/ ProcessCommandLine \/ Run \/ LoopTest \/ AppShutdown
           \/ ResetApp \/ Signal
  BY <1>1 DEF InstallHandlers, PlatformAndEtaHEN, CreateApp,
              ProcessCommandLine, Run, LoopTest, AppShutdown, ResetApp,
              Signal, RendererCall
<1>2. CASE InitSubsystem
  BY <1>2, InitSubsystemRenderer
<1>3. CASE Iterate
  BY <1>3 DEF Iterate, RendererCall
<1>4. CASE ShutdownSubsystem \/ Unwind
  BY <1>4, EndMemberRenderer DEF ShutdownSubsystem, Unwind
<1>5. CASE \E c \in Dependents : ClientAudio(c)
  BY <1>5 DEF ClientAudio, RendererCall
<1>6. CASE Terminated \/ UNCHANGED avars
  BY <1>6 DEF Terminated, avars, RendererCall
<1> QED
  BY <1>1, <1>2, <1>3, <1>4, <1>5, <1>6 DEF ANext, MainStep

\* The renderer's invariant holds in every state of the process.
LEMMA RIInvInApplication == ASpec => []RIInv
<1>1. AInit => RIInv
  BY RIInvInit DEF AInit
<1>2. RIInv /\ [ANext]_avars => RIInv'
  BY ANextRenderer, RendererCallKeepsRIInv
<1> QED
  BY <1>1, <1>2, PTL DEF ASpec

(***************************************************************************)
(* FrameBuffersLive for every display whose six buffers fit below 2^32:   *)
(* whatever the order of Initialize failures, frames, signals and member  *)
(* ends, the color and depth addresses PS5Renderer hands to the GPU while *)
(* initialized are live allocations of its wrapper, the colors distinct.  *)
(***************************************************************************)
THEOREM FrameBuffersLiveHolds == FbFits => (ASpec => []FrameBuffersLive)
<1> SUFFICES ASSUME FbFits PROVE ASpec => []FrameBuffersLive
  OBVIOUS
<1>1. RIInv => FrameBuffersLive
  BY RIInvFrameBuffersLive
<1> QED
  BY <1>1, RIInvInApplication, PTL

(***************************************************************************)
(* NoOverlap in the process, for the same displays: the allocations of    *)
(* the GNM wrapper the clients still hold -- the frame buffers of         *)
(* CreateFramebuffers -- never share a byte.                              *)
(***************************************************************************)
THEOREM NoOverlapHolds == FbFits => (ASpec => []NoOverlap)
<1> SUFFICES ASSUME FbFits PROVE ASpec => []NoOverlap
  OBVIOUS
<1>1. RIInv => NoOverlap
  BY RIInvNoOverlap
<1> QED
  BY <1>1, RIInvInApplication, PTL

-----------------------------------------------------------------------------
(***************************************************************************)
(* The audio manager inside the process.  Its calls are those of AuNext,  *)
(* and one more: a frontend or core that is destroyed may free some of    *)
(* its streams, which AuNext does one at a time.                           *)
(***************************************************************************)

\* The streams whose address is in freed are erased; nothing else changes.
FreeStreams(freed) ==
    /\ streams' = {x \in streams : x.addr \notin freed}
    /\ UNCHANGED <<auInitialized, outputDevices, inputDevices,
                   defaultOutput, defaultInput, masterVolume,
                   muted, audio3dEnabled, audio3dAvailable>>

AudioCall == [AuNext]_auVars \/ \E freed : FreeStreams(freed)

LEMMA AudioCallKeepsAuIInv ==
    ASSUME AuIInv, AudioCall PROVE AuIInv'
<1>1. CASE [AuNext]_auVars
  BY <1>1, AuIInvNext
<1>2. CASE \E freed : FreeStreams(freed)
  <2>1. PICK freed : FreeStreams(freed)
    BY <1>2
  <2>2. streams' \subseteq streams
    BY <2>1 DEF FreeStreams
  <2> QED
    BY <2>1, <2>2 DEF FreeStreams, AuIInv, AuTypeOK, StreamsOnLiveDevices
<1> QED
  BY <1>1, <1>2 DEF AudioCall

\* The end of a member: the audio manager's Shutdown, a dependent's frees,
\* or nothing of the manager.
LEMMA EndMemberAudio ==
    ASSUME NEW k, EndMember(k) PROVE AudioCall
<1> DEFINE s == ShutdownOrder[k]
<1>1. CASE s \in alive /\ s = "audio" /\ auInitialized
  BY <1>1 DEF EndMember, TearDown, AudioCall, AuNext
<1>2. CASE s \in alive /\ ~(s = "audio" /\ auInitialized) /\ s \in Dependents
  <2>1. \E freed \in {{}, held[s]} : FreeStreams(freed)
    BY <1>2 DEF EndMember, TearDown, FreeStreams
  <2> QED
    BY <2>1 DEF AudioCall
<1>3. CASE s \in alive /\ ~(s = "audio" /\ auInitialized) /\ s \notin Dependents
  BY <1>3 DEF EndMember, TearDown, AudioCall
<1>4. CASE s \notin alive
  BY <1>4 DEF EndMember, AudioCall
<1> QED
  BY <1>1, <1>2, <1>3, <1>4

\* A dependent's audio calls are the manager's own, on addresses it holds.
LEMMA ClientAudioAudio ==
    ASSUME AppIInv, NEW c \in Dependents, ClientAudio(c) PROVE AudioCall
<1>1. held[c] \subseteq StreamAddrs
  BY DEF AppIInv
<1>2. CASE \E type \in StreamTypes, addr \in StreamAddrs : CreateStream(type, addr)
  BY <1>2 DEF AudioCall, AuNext
<1>3. CASE \E addr \in held[c] : DestroyStream(addr)
  BY <1>1, <1>3 DEF AudioCall, AuNext
<1>4. CASE \/ \E v \in Volumes : SetMasterVolume(v)
           \/ \E m \in BOOLEAN : SetMute(m)
           \/ \E e \in BOOLEAN : Enable3DAudio(e)
  BY <1>4 DEF AudioCall, AuNext
<1> QED
  BY <1>2, <1>3, <1>4 DEF ClientAudio

\* Every step of the process is one of the audio calls.
LEMMA ANextAudio ==
    ASSUME AppIInv, [ANext]_avars PROVE AudioCall
<1>1. CASE \/ InstallHandlers \/ PlatformAndEtaHEN \/ CreateApp
           \/ ProcessCommandLine \/ Run \/ LoopTest \/ AppShutdown
           \/ ResetApp \/ Signal \/ Iterate
  BY <1>1 DEF InstallHandlers, PlatformAndEtaHEN, CreateApp,
              ProcessCommandLine, Run, LoopTest, AppShutdown, ResetApp,
              Signal, Iterate, AudioCall
<1>2. CASE InitSubsystem
  BY <1>2 DEF InitSubsystem, AudioCall, AuNext
<1>3. CASE ShutdownSubsystem \/ Unwind
  BY <1>3, EndMemberAudio DEF ShutdownSubsystem, Unwind
<1>4. CASE \E c \in Dependents : ClientAudio(c)
  BY <1>4, ClientAudioAudio
<1>5. CASE Terminated \/ UNCHANGED avars
  BY <1>5 DEF Terminated, avars, AudioCall
<1> QED
  BY <1>1, <1>2, <1>3, <1>4, <1>5 DEF ANext, MainStep

-----------------------------------------------------------------------------
(***************************************************************************)
(* The types of the remaining state: flags main() and PS5Application set  *)
(* to Boolean results, and the count of signals delivered.                *)
(***************************************************************************)
AppTypes ==
    /\ etahenAvailable \in BOOLEAN
    /\ argHelp \in BOOLEAN /\ argGame \in BOOLEAN
    /\ appExists \in BOOLEAN /\ shutdownRequested \in BOOLEAN
    /\ aInitialized \in BOOLEAN /\ emulationPaused \in BOOLEAN
    /\ handled \in BOOLEAN
    /\ signalsSent \in 0..MaxSignals

\* The process's inductive invariant: main's, the renderer's, the audio
\* manager's, and the types of the rest.
ProcIInv == AppIInv /\ RIInv /\ AuIInv /\ AppTypes

LEMMA AppTypesInit == AInit => AppTypes
<1> SUFFICES ASSUME AInit PROVE AppTypes
  OBVIOUS
<1>1. /\ etahenAvailable = FALSE /\ argHelp \in BOOLEAN /\ argGame \in BOOLEAN
      /\ appExists = FALSE /\ shutdownRequested = FALSE
      /\ aInitialized = FALSE /\ emulationPaused = FALSE /\ handled = FALSE
      /\ signalsSent = 0
  BY DEF AInit, SysInit
<1>2. 0 \in 0..MaxSignals
  BY SignalAssumption
<1> QED
  BY <1>1, <1>2 DEF AppTypes

\* The flags stay Boolean and the signal count within its bound.
LEMMA AppTypesNext == AppTypes /\ [ANext]_avars => AppTypes'
<1> SUFFICES ASSUME AppTypes, [ANext]_avars PROVE AppTypes'
  OBVIOUS
<1>1. CASE \/ InstallHandlers \/ CreateApp \/ ProcessCommandLine
           \/ LoopTest \/ Iterate \/ Run \/ AppShutdown
  BY <1>1 DEF InstallHandlers, CreateApp, ProcessCommandLine, LoopTest,
              Iterate, Run, AppShutdown, AppTypes, sysVars
<1>2. CASE PlatformAndEtaHEN \/ ResetApp
  BY <1>2 DEF PlatformAndEtaHEN, ResetApp, SysInitialize, SysShutdown,
              InitializeEtaHEN, AppTypes, sysVars
<1>3. CASE InitSubsystem
  BY <1>3 DEF InitSubsystem, AppTypes, sysVars
<1>4. CASE ShutdownSubsystem \/ Unwind
  BY <1>4 DEF ShutdownSubsystem, Unwind, AppTypes, sysVars
<1>5. CASE \E c \in Dependents : ClientAudio(c)
  BY <1>5 DEF ClientAudio, AppTypes, sysVars
<1>6. CASE Signal
  <2>1. signalsSent' \in 0..MaxSignals
    BY <1>6, SignalAssumption DEF Signal, AppTypes
  <2>2. handled' \in BOOLEAN /\ shutdownRequested' \in BOOLEAN
    BY <1>6 DEF Signal, AppTypes
  <2>3. UNCHANGED <<etahenAvailable, argHelp, argGame, appExists,
                    aInitialized, emulationPaused>>
    BY <1>6 DEF Signal, sysVars
  <2> QED
    BY <2>1, <2>2, <2>3 DEF AppTypes
<1>7. CASE Terminated \/ UNCHANGED avars
  BY <1>7 DEF Terminated, avars, appVars, sysVars, AppTypes
<1> QED
  BY <1>1, <1>2, <1>3, <1>4, <1>5, <1>6, <1>7 DEF ANext, MainStep

LEMMA ProcIInvInit == AInit => ProcIInv
BY AppIInvInit, RIInvInit, AuIInvInit, AppTypesInit DEF AInit, ProcIInv

LEMMA ProcIInvNext == ProcIInv /\ [ANext]_avars => ProcIInv'
<1> SUFFICES ASSUME ProcIInv, [ANext]_avars PROVE ProcIInv'
  OBVIOUS
<1>1. AppIInv' /\ AppTypes'
  BY AppIInvNext, AppTypesNext DEF ProcIInv
<1>2. RIInv'
  BY ANextRenderer, RendererCallKeepsRIInv DEF ProcIInv
<1>3. AuIInv'
  BY ANextAudio, AudioCallKeepsAuIInv DEF ProcIInv
<1> QED
  BY <1>1, <1>2, <1>3 DEF ProcIInv

THEOREM ProcIInvHolds == ASpec => []ProcIInv
BY ProcIInvInit, ProcIInvNext, PTL DEF ASpec

(***************************************************************************)
(* StreamsOnLiveDevices in the process: whatever the frontend and the core *)
(* create and destroy, and whether they free their streams as they are    *)
(* destroyed, every stream PS5AudioManager owns plays on a device of the   *)
(* current enumeration, and no two owned streams share an address.        *)
(***************************************************************************)
THEOREM StreamsOnLiveDevicesInProcess == ASpec => []StreamsOnLiveDevices
<1>1. ProcIInv => StreamsOnLiveDevices
  BY DEF ProcIInv, AuIInv
<1> QED
  BY <1>1, ProcIInvHolds, PTL

\* The members alive are among PS5Application's five.
LEMMA AliveSubsystems == AppIInv => alive \subseteq Subsystems
<1> SUFFICES ASSUME AppIInv PROVE alive \subseteq Subsystems
  OBVIOUS
<1>1. PICK m \in 0..5 : alive = Prefix(m)
  BY AliveIsPrefix
<1> QED
  BY <1>1 DEF Prefix, Subsystems

(***************************************************************************)
(* Type correctness of the process: every variable of main(), of           *)
(* PS5Application, of the renderer with its GNM wrapper, of the audio      *)
(* manager and of the platform layer keeps its type in every state, for   *)
(* every value of the constants.                                           *)
(***************************************************************************)
THEOREM ATypeOKHolds == ASpec => []ATypeOK
<1>1. ProcIInv => ATypeOK
  <2> SUFFICES ASSUME ProcIInv PROVE ATypeOK
    OBVIOUS
  <2>1. RTypeOK /\ AuTypeOK
    BY DEF ProcIInv, RIInv, AuIInv
  <2>2. SysTypeOK
    BY DEF ProcIInv, AppIInv, AppTypes, SysTypeOK
  <2>3. /\ pc \in Pcs /\ subIdx \in 1..5
        /\ held \in [Dependents -> SUBSET StreamAddrs]
        /\ alive \subseteq Subsystems
    BY AliveSubsystems DEF ProcIInv, AppIInv
  <2>4. {argHelp, argGame, installed, appExists, shutdownRequested,
         aInitialized, gameLoaded, emulationRunning, emulationPaused,
         handled} \subseteq BOOLEAN
    BY DEF ProcIInv, AppIInv, AppTypes
  <2>5. signalsSent \in 0..MaxSignals
    BY DEF ProcIInv, AppTypes
  <2> QED
    BY <2>1, <2>2, <2>3, <2>4, <2>5 DEF ATypeOK
<1> QED
  BY <1>1, ProcIInvHolds, PTL
=============================================================================
