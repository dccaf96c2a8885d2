---------------------------- MODULE AudioManager ----------------------------
(***************************************************************************)
(* PS5AudioManager (src/eden-ps5/src_ps5/ps5_audio/ps5_audio_manager.cpp): *)
(* Initialize with device enumeration, Shutdown, the streams it creates    *)
(* and owns (streams_ of unique_ptr), and the volume, mute and 3D-audio    *)
(* settings.                                                               *)
(*                                                                         *)
(* A device is named by what EnumerateAudioDevices creates in the build;   *)
(* a stream by its address, drawn from StreamAddrs, so an address freed by *)
(* DestroyStream or Shutdown may be handed out again.  PS5AudioDevice and  *)
(* PS5AudioStream are not in the source: a stream's Initialize may fail,   *)
(* its Stop changes no modelled state.  Volumes are in hundredths of the   *)
(* float the code takes.                                                   *)
(***************************************************************************)
EXTENDS Integers

CONSTANTS
    Ps5Build,     \* PS5_BUILD is defined
    StreamAddrs,  \* addresses a new PS5AudioStream may be placed at
    Volumes       \* arguments of SetMasterVolume, in hundredths

ASSUME AudioAssumption ==
    /\ Ps5Build \in BOOLEAN
    /\ Volumes \subseteq Int

NoDevice == "none"        \* nullptr
StreamTypes == {"output", "input"}

VARIABLES
    auInitialized,     \* initialized_
    outputDevices,     \* output_devices_
    inputDevices,      \* input_devices_
    defaultOutput,     \* default_output_device_
    defaultInput,      \* default_input_device_
    streams,           \* streams_: [addr, type, dev] of every owned stream
    masterVolume,      \* master_volume_
    muted,             \* is_muted_
    audio3dEnabled,    \* is_3d_audio_enabled_
    audio3dAvailable   \* is_3d_audio_available_

auVars == <<auInitialized, outputDevices, inputDevices, defaultOutput,
            defaultInput, streams, masterVolume, muted, audio3dEnabled,
            audio3dAvailable>>

\* The addresses of the streams the manager owns.
Owned == {s.addr : s \in streams}

DefaultDevice(type) == IF type = "output" THEN defaultOutput ELSE defaultInput

-----------------------------------------------------------------------------

\* The constructor: no devices, no streams, volume 1.0, unmuted.
AuInit ==
    /\ auInitialized = FALSE
    /\ outputDevices = {}
    /\ inputDevices = {}
    /\ defaultOutput = NoDevice
    /\ defaultInput = NoDevice
    /\ streams = {}
    /\ masterVolume = 100
    /\ muted = FALSE
    /\ audio3dEnabled = FALSE
    /\ audio3dAvailable = FALSE

\* EnumerateAudioDevices: the lists are cleared and refilled; the PS5 build
\* has HDMI and headphones out and a microphone in, the development build
\* one mock device each way.  It returns !output_devices_.empty(): true.
EnumerateAudioDevices ==
    /\ outputDevices' = IF Ps5Build THEN {"hdmi", "headphones"} ELSE {"mockOut"}
    /\ inputDevices' = IF Ps5Build THEN {"mic"} ELSE {"mockIn"}
    /\ defaultOutput' = IF Ps5Build THEN "hdmi" ELSE "mockOut"
    /\ defaultInput' = IF Ps5Build THEN "mic" ELSE "mockIn"

\* CleanupAudioDevices: the defaults become null and the lists empty.
CleanupAudioDevices ==
    /\ defaultOutput' = NoDevice
    /\ defaultInput' = NoDevice
    /\ outputDevices' = {}
    /\ inputDevices' = {}

(***************************************************************************)
(* Initialize on an uninitialized manager (an initialized one returns true *)
(* at once): InitializePS5AudioSystem and EnumerateAudioDevices succeed in *)
(* both builds, 3D audio is available only in the PS5 build.  It returns   *)
(* true.                                                                    *)
(***************************************************************************)
AuInitialize ==
    /\ ~auInitialized
    /\ EnumerateAudioDevices
    /\ audio3dAvailable' = Ps5Build
    /\ auInitialized' = TRUE
    /\ UNCHANGED <<streams, masterVolume, muted, audio3dEnabled>>

\* Mutant: Shutdown does not clear streams_.
AuShutdownKeepsStreams ==
    /\ auInitialized
    /\ CleanupAudioDevices
    /\ auInitialized' = FALSE
    /\ UNCHANGED <<streams, masterVolume, muted, audio3dEnabled,
                   audio3dAvailable>>

(***************************************************************************)
(* Shutdown: every stream is stopped and streams_ cleared (which frees     *)
(* them), then CleanupAudioDevices; ShutdownPS5AudioSystem changes no      *)
(* modelled state.  The volume, mute and 3D settings are kept.             *)
(***************************************************************************)
AuShutdown ==
    /\ auInitialized
    /\ streams' = {}
    /\ CleanupAudioDevices
    /\ auInitialized' = FALSE
    /\ UNCHANGED <<masterVolume, muted, audio3dEnabled, audio3dAvailable>>

(***************************************************************************)
(* CreateOutputStream / CreateInputStream when they return a stream: the   *)
(* manager is initialized, the default device of the type is not null and *)
(* the new stream's Initialize succeeded; it is owned by streams_ and      *)
(* placed at an address no owned stream has.  The nullptr returns change   *)
(* nothing.                                                                 *)
(***************************************************************************)
CreateStream(type, addr) ==
    /\ auInitialized
    /\ DefaultDevice(type) # NoDevice
    /\ addr \notin Owned
    /\ streams' = streams \cup {[addr |-> addr, type |-> type,
                                 dev |-> DefaultDevice(type)]}
    /\ UNCHANGED <<auInitialized, outputDevices, inputDevices, defaultOutput,
                   defaultInput, masterVolume, muted, audio3dEnabled,
                   audio3dAvailable>>

\* Mutant: the stream at the front of streams_ is erased, not the one found.
DestroyStreamFront(addr) ==
    /\ streams' = IF addr \in Owned
                    THEN streams \ {CHOOSE s \in streams : TRUE}
                    ELSE streams
    /\ UNCHANGED <<auInitialized, outputDevices, inputDevices, defaultOutput,
                   defaultInput, masterVolume, muted, audio3dEnabled,
                   audio3dAvailable>>

\* DestroyStream: find_if by address; if found, Stop and erase (which
\* frees it); otherwise nothing.
DestroyStream(addr) ==
    /\ streams' = {s \in streams : s.addr # addr}
    /\ UNCHANGED <<auInitialized, outputDevices, inputDevices, defaultOutput,
                   defaultInput, masterVolume, muted, audio3dEnabled,
                   audio3dAvailable>>

\* std::clamp(volume, 0.0f, 1.0f).
Clamp(v) == IF v < 0 THEN 0 ELSE IF 100 < v THEN 100 ELSE v

SetMasterVolume(v) ==
    /\ masterVolume' = Clamp(v)
    /\ UNCHANGED <<auInitialized, outputDevices, inputDevices, defaultOutput,
                   defaultInput, streams, muted, audio3dEnabled,
                   audio3dAvailable>>

SetMute(m) ==
    /\ muted' = m
    /\ UNCHANGED <<auInitialized, outputDevices, inputDevices, defaultOutput,
                   defaultInput, streams, masterVolume, audio3dEnabled,
                   audio3dAvailable>>

\* Enable3DAudio returns at once when 3D audio is not available.
Enable3DAudio(e) ==
    /\ audio3dAvailable
    /\ audio3dEnabled' = e
    /\ UNCHANGED <<auInitialized, outputDevices, inputDevices, defaultOutput,
                   defaultInput, streams, masterVolume, muted,
                   audio3dAvailable>>

\* The manager on its own: any public call at any time.
AuNext ==
    \/ AuInitialize
    \/ AuShutdown
    \/ \E type \in StreamTypes, addr \in StreamAddrs : CreateStream(type, addr)
    \/ \E addr \in StreamAddrs : DestroyStream(addr)
    \/ \E v \in Volumes : SetMasterVolume(v)
    \/ \E m \in BOOLEAN : SetMute(m)
    \/ \E e \in BOOLEAN : Enable3DAudio(e)

AuSpec == AuInit /\ [][AuNext]_auVars

-----------------------------------------------------------------------------

Devices == {"hdmi", "headphones", "mic", "mockOut", "mockIn"}
Stream == [addr : StreamAddrs, type : StreamTypes, dev : Devices]

AuTypeOK ==
    /\ auInitialized \in BOOLEAN
    /\ outputDevices \subseteq Devices
    /\ inputDevices \subseteq Devices
    /\ defaultOutput \in Devices \cup {NoDevice}
    /\ defaultInput \in Devices \cup {NoDevice}
    /\ streams \subseteq Stream
    /\ masterVolume \in 0..100
    /\ {muted, audio3dEnabled, audio3dAvailable} \subseteq BOOLEAN

(***************************************************************************)
(* StreamsOnLiveDevices: every stream the manager owns plays on a device   *)
(* of the current enumeration, of its own direction, and no two owned      *)
(* streams share an address.  Shutdown destroys the devices, so it must    *)
(* free the streams first.                                                 *)
(***************************************************************************)
StreamsOnLiveDevices ==
    /\ \A s \in streams :
          s.dev \in IF s.type = "output" THEN outputDevices ELSE inputDevices
    /\ \A s, t \in streams : s.addr = t.addr => s = t

=============================================================================
