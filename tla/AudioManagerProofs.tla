------------------------- MODULE AudioManagerProofs -------------------------
(***************************************************************************)
(* Proofs about PS5AudioManager on its own (AuSpec of AudioManager), for   *)
(* every build, every set of stream addresses and every set of volumes.    *)
(***************************************************************************)
EXTENDS AudioManager, TLAPS

(***************************************************************************)
(* The inductive strengthening of StreamsOnLiveDevices.  The property     *)
(* alone is not inductive: CreateStream binds a stream to the default      *)
(* device of its direction, so that device must be one of the enumerated  *)
(* ones whenever the manager is initialized; and AuInitialize replaces the *)
(* device lists, so no stream may survive into an uninitialized manager.  *)
(***************************************************************************)
AuIInv ==
    /\ AuTypeOK
    /\ auInitialized => /\ defaultOutput \in outputDevices
                        /\ defaultInput \in inputDevices
    /\ ~auInitialized => /\ defaultOutput = NoDevice
                         /\ defaultInput = NoDevice
                         /\ streams = {}
    /\ StreamsOnLiveDevices

\* The constructor establishes the strengthening.
LEMMA AuIInvInit == AuInit => AuIInv
<1> SUFFICES ASSUME AuInit PROVE AuIInv
  OBVIOUS
<1>1. AuTypeOK
  <2>1. /\ auInitialized \in BOOLEAN
        /\ {muted, audio3dEnabled, audio3dAvailable} \subseteq BOOLEAN
    BY DEF AuInit
  <2>2. /\ outputDevices \subseteq Devices /\ inputDevices \subseteq Devices
        /\ streams \subseteq Stream
    BY DEF AuInit
  <2>3. /\ defaultOutput \in Devices \cup {NoDevice}
        /\ defaultInput \in Devices \cup {NoDevice}
    BY DEF AuInit
  <2>4. masterVolume \in 0..100
    BY DEF AuInit
  <2> QED
    BY <2>1, <2>2, <2>3, <2>4 DEF AuTypeOK
<1>2. StreamsOnLiveDevices
  BY DEF AuInit, StreamsOnLiveDevices
<1> QED
  BY <1>1, <1>2 DEF AuInit, AuIInv

\* A created stream lands on a live device of its direction at a fresh
\* address, so StreamsOnLiveDevices survives CreateStream.
LEMMA CreateStreamKeepsIInv ==
    ASSUME AuIInv,
           NEW type \in StreamTypes, NEW addr \in StreamAddrs,
           CreateStream(type, addr)
    PROVE  AuIInv'
<1> DEFINE new == [addr |-> addr, type |-> type, dev |-> DefaultDevice(type)]
<1>1. auInitialized /\ DefaultDevice(type) # NoDevice
  BY DEF CreateStream
<1>2. new.dev \in IF new.type = "output" THEN outputDevices ELSE inputDevices
  BY <1>1 DEF AuIInv, DefaultDevice, StreamTypes
<1>3. \A s \in streams : s.addr # addr
  BY DEF CreateStream, Owned
<1>4. new \in Stream
  BY <1>1, <1>2 DEF AuIInv, AuTypeOK, Stream, DefaultDevice, StreamTypes
<1>5. streams' = streams \cup {new}
  BY DEF CreateStream
<1> QED
  BY <1>2, <1>3, <1>4, <1>5
  DEF CreateStream, AuIInv, AuTypeOK, StreamsOnLiveDevices

\* Every call of the manager keeps the strengthening.
LEMMA AuIInvNext == AuIInv /\ [AuNext]_auVars => AuIInv'
<1> SUFFICES ASSUME AuIInv, [AuNext]_auVars PROVE AuIInv'
  OBVIOUS
<1> USE AudioAssumption
<1>1. CASE AuInitialize
  BY <1>1 DEF AuInitialize, EnumerateAudioDevices, AuIInv, AuTypeOK,
              StreamsOnLiveDevices, Devices, NoDevice
<1>2. CASE AuShutdown
  BY <1>2 DEF AuShutdown, CleanupAudioDevices, AuIInv, AuTypeOK,
              StreamsOnLiveDevices, NoDevice
<1>3. CASE \E type \in StreamTypes, addr \in StreamAddrs : CreateStream(type, addr)
  BY <1>3, CreateStreamKeepsIInv
<1>4. CASE \E addr \in StreamAddrs : DestroyStream(addr)
  BY <1>4 DEF DestroyStream, AuIInv, AuTypeOK, StreamsOnLiveDevices
<1>5. CASE \E v \in Volumes : SetMasterVolume(v)
  BY <1>5 DEF SetMasterVolume, Clamp, AuIInv, AuTypeOK, StreamsOnLiveDevices
<1>6. CASE \E m \in BOOLEAN : SetMute(m)
  BY <1>6 DEF SetMute, AuIInv, AuTypeOK, StreamsOnLiveDevices
<1>7. CASE \E e \in BOOLEAN : Enable3DAudio(e)
  BY <1>7 DEF Enable3DAudio, AuIInv, AuTypeOK, StreamsOnLiveDevices
<1>8. CASE UNCHANGED auVars
  BY <1>8 DEF auVars, AuIInv, AuTypeOK, StreamsOnLiveDevices, Owned
<1> QED
  BY <1>1, <1>2, <1>3, <1>4, <1>5, <1>6, <1>7, <1>8 DEF AuNext

(***************************************************************************)
(* For every build and every choice of addresses and volumes, every stream *)
(* PS5AudioManager owns is bound to a device of the current enumeration of *)
(* its direction, and no two owned streams share an address: Shutdown      *)
(* frees the streams before CleanupAudioDevices destroys the devices.     *)
(***************************************************************************)
THEOREM StreamsOnLiveDevicesHolds == AuSpec => []StreamsOnLiveDevices
<1>1. AuIInv => StreamsOnLiveDevices
  BY DEF AuIInv
<1> QED
  BY <1>1, AuIInvInit, AuIInvNext, PTL DEF AuSpec

=============================================================================
