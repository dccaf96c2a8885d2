------------------------- MODULE ApplicationProofs -------------------------
(***************************************************************************)
(* Proofs about the process of Application: main() and PS5Application     *)
(* with the renderer, the audio manager and the platform layer composed    *)
(* in.  They hold for every value of the constants: display size, widths, *)
(* stream addresses, volumes and the number of signals.                    *)
(***************************************************************************)
EXTENDS Application, TLAPS

\* The first m members of PS5Application in declaration order.
Prefix(m) == {InitOrder[k] : k \in 1..m}

(***************************************************************************)
(* The inductive invariant.  The member lifetimes follow main's program    *)
(* counter: none before the subsystems, the first subIdx - 1 while they    *)
(* are created, all five while running, the first 6 - subIdx while they    *)
(* are shut down, and at most that many while the exit unwinds them.      *)
(* Each component's state follows whether its member is alive: the GNM    *)
(* wrapper outlives a failed renderer Initialize until the renderer is    *)
(* destroyed, so only a dead renderer guarantees a shut-down wrapper.      *)
(***************************************************************************)
Lifetimes ==
    /\ pc \in {"install", "platform", "create", "cmdline", "reset", "done",
               "exited", "killed"} => alive = {}
    /\ pc = "initSub" => alive = Prefix(subIdx - 1)
    /\ pc \in {"run", "loopTest", "iter", "appShutdown"} => alive = Prefix(5)
    /\ pc = "shutSub" => alive = Prefix(6 - subIdx)
    /\ pc = "unwind" => \E m \in 0..(6 - subIdx) : alive = Prefix(m)
    /\ ~installed => pc \in {"install", "killed"}
    /\ pc \in {"install", "platform", "create", "cmdline"} => subIdx = 1

Components ==
    /\ "renderer" \notin alive => ~rInitialized /\ ~initialized
    /\ "audio" \in alive => rInitialized
    /\ pc = "initSub" /\ "renderer" \in alive => rInitialized
    /\ "audio" \notin alive => ~auInitialized
    /\ ~auInitialized => streams = {}
    /\ \A c \in Dependents : c \notin alive => held[c] = {}
    /\ emulationRunning => gameLoaded /\ pc \in {"loopTest", "iter", "appShutdown"}
    /\ ~highPerformance
    /\ pc = "done" => ~sysInitialized

AppIInv ==
    /\ pc \in Pcs
    /\ subIdx \in 1..5
    /\ held \in [Dependents -> SUBSET StreamAddrs]
    /\ rInitialized \in BOOLEAN /\ initialized \in BOOLEAN
    /\ auInitialized \in BOOLEAN /\ installed \in BOOLEAN
    /\ emulationRunning \in BOOLEAN /\ gameLoaded \in BOOLEAN
    /\ sysInitialized \in BOOLEAN /\ highPerformance \in BOOLEAN
    /\ Lifetimes
    /\ Components
    /\ StreamsHeldOwned

\* The part of the invariant that ties the components to their members,
\* which the end of a member must keep.
MemberState ==
    /\ "renderer" \notin alive => ~rInitialized /\ ~initialized
    /\ "audio" \in alive => rInitialized
    /\ "audio" \notin alive => ~auInitialized
    /\ ~auInitialized => streams = {}
    /\ \A c \in Dependents : c \notin alive => held[c] = {}
    /\ StreamsHeldOwned

-----------------------------------------------------------------------------
(***************************************************************************)
(* Lemmas about the member order.                                          *)
(***************************************************************************)

\* The prefixes of the declaration order, one by one.
LEMMA PrefixTable ==
    /\ Prefix(0) = {}
    /\ Prefix(1) = {"renderer"}
    /\ Prefix(2) = {"renderer", "audio"}
    /\ Prefix(3) = {"renderer", "audio", "input"}
    /\ Prefix(4) = {"renderer", "audio", "input", "frontend"}
    /\ Prefix(5) = {"renderer", "audio", "input", "frontend", "core"}
BY DEF Prefix, InitOrder

\* ShutdownSubsystems visits the members in reverse declaration order.
LEMMA ShutdownReversed ==
    \A k \in 1..5 : ShutdownOrder[k] = InitOrder[6 - k]
BY DEF ShutdownOrder, InitOrder

\* Creating the next member extends the prefix; destroying the youngest
\* shrinks it; destroying a member outside the prefix leaves it.
LEMMA PrefixSteps ==
    /\ \A m \in 0..4 : Prefix(m) \cup {InitOrder[m + 1]} = Prefix(m + 1)
    /\ \A m \in 1..5 : Prefix(m) \ {InitOrder[m]} = Prefix(m - 1)
    /\ \A m \in 0..5, k \in 1..5 : InitOrder[k] \in Prefix(m) <=> k <= m
<1>1. \A m \in 0..4 : Prefix(m) \cup {InitOrder[m + 1]} = Prefix(m + 1)
  BY PrefixTable DEF InitOrder
<1>2. \A m \in 1..5 : Prefix(m) \ {InitOrder[m]} = Prefix(m - 1)
  BY PrefixTable DEF InitOrder
<1>3. \A m \in 0..5, k \in 1..5 : InitOrder[k] \in Prefix(m) <=> k <= m
  BY PrefixTable DEF InitOrder
<1> QED
  BY <1>1, <1>2, <1>3

\* A frontend or core alive implies the first three members alive.
LEMMA DependentsNeedProviders ==
    \A m \in 0..5 : Prefix(m) \cap Dependents # {} =>
                        Providers \cup {"audio"} \subseteq Prefix(m)
BY PrefixTable DEF Dependents, Providers

(***************************************************************************)
(* What the components' actions do to the state the invariant reads.      *)
(***************************************************************************)

LEMMA RendererEffects ==
    /\ RInitializeSucceeds => rInitialized' = TRUE /\ initialized' = TRUE
    /\ RInitializeFails => rInitialized' = rInitialized /\ initialized' = TRUE
    /\ RenderFrame => rInitialized' = rInitialized /\ initialized' = initialized
    /\ UNCHANGED rvars => rInitialized' = rInitialized /\ initialized' = initialized
BY DEF RInitializeSucceeds, RInitializeFails, RenderFrame, rvars, gnmVars,
       rendererVars

\* ~PS5Renderer (after Shutdown or alone) leaves renderer and wrapper shut down.
LEMMA RDestroyEffect ==
    ASSUME rInitialized \in BOOLEAN, initialized \in BOOLEAN, RDestroy
    PROVE  rInitialized' = FALSE /\ initialized' = FALSE
BY DEF RDestroy, RShutdown, Shutdown, rvars, gnmVars, rendererVars

\* The addresses the audio manager owns after each of its calls.
LEMMA AudioEffects ==
    /\ AuInitialize => auInitialized' /\ streams' = streams
    /\ AuShutdown => ~auInitialized' /\ streams' = {}
    /\ \A t, a : CreateStream(t, a) =>
          /\ auInitialized /\ a \notin Owned
          /\ auInitialized' = auInitialized
          /\ Owned' = Owned \cup {a}
    /\ \A a : DestroyStream(a) =>
          /\ auInitialized' = auInitialized
          /\ Owned' = Owned \ {a}
    /\ \A v : SetMasterVolume(v) => UNCHANGED <<auInitialized, streams>>
    /\ \A m : SetMute(m) => UNCHANGED <<auInitialized, streams>>
    /\ \A e : Enable3DAudio(e) => UNCHANGED <<auInitialized, streams>>
<1>1. AuInitialize => auInitialized' /\ streams' = streams
  BY DEF AuInitialize
<1>2. AuShutdown => ~auInitialized' /\ streams' = {}
  BY DEF AuShutdown
<1>3. ASSUME NEW t, NEW a, CreateStream(t, a)
      PROVE  /\ auInitialized /\ a \notin Owned
             /\ auInitialized' = auInitialized
             /\ Owned' = Owned \cup {a}
  <2> DEFINE new == [addr |-> a, type |-> t, dev |-> DefaultDevice(t)]
  <2>1. streams' = streams \cup {new} /\ new.addr = a
    BY <1>3 DEF CreateStream
  <2>2. {x.addr : x \in streams \cup {new}} = {x.addr : x \in streams} \cup {a}
    BY <2>1
  <2>3. auInitialized /\ a \notin Owned /\ auInitialized' = auInitialized
    BY <1>3 DEF CreateStream
  <2> QED
    BY <2>1, <2>2, <2>3 DEF Owned
<1>4. ASSUME NEW a, DestroyStream(a)
      PROVE  auInitialized' = auInitialized /\ Owned' = Owned \ {a}
  BY <1>4 DEF DestroyStream, Owned
<1> QED
  BY <1>1, <1>2, <1>3, <1>4 DEF SetMasterVolume, SetMute, Enable3DAudio

\* The frontend or core freeing some of its streams as it is destroyed.
LEMMA FreeEffect ==
    ASSUME NEW freed, streams' = {x \in streams : x.addr \notin freed}
    PROVE  Owned' = Owned \ freed
BY DEF Owned

LEMMA PlatformEffects ==
    /\ SysInitialize => highPerformance' = highPerformance
    /\ ~highPerformance /\ SysShutdown =>
          ~sysInitialized' /\ ~highPerformance'
BY DEF SysInitialize, SysShutdown, sysVars

-----------------------------------------------------------------------------
(***************************************************************************)
(* The invariant is inductive.                                             *)
(***************************************************************************)

LEMMA AppIInvInit == AInit => AppIInv
<1> SUFFICES ASSUME AInit PROVE AppIInv
  OBVIOUS
<1>1. alive = {} /\ pc = "install" /\ installed = FALSE /\ subIdx = 1
  BY DEF AInit
<1>2. held = [c \in Dependents |-> {}]
  BY DEF AInit
<1>3. /\ rInitialized = FALSE /\ initialized = FALSE
      /\ auInitialized = FALSE /\ streams = {}
      /\ sysInitialized = FALSE /\ highPerformance = FALSE
  BY DEF AInit, RInit, Init, AuInit, SysInit
<1>4. emulationRunning = FALSE /\ gameLoaded = FALSE
  BY DEF AInit
<1>5. held \in [Dependents -> SUBSET StreamAddrs] /\ \A c \in Dependents : held[c] = {}
  BY <1>2
<1>6. StreamsHeldOwned
  BY <1>5 DEF StreamsHeldOwned, Dependents
<1>7. Lifetimes
  BY <1>1 DEF Lifetimes
<1>8. Components
  BY <1>1, <1>3, <1>4, <1>5 DEF Components
<1>9. pc \in Pcs
  BY <1>1 DEF Pcs
<1>10. subIdx \in 1..5
  BY <1>1
<1>11. /\ rInitialized \in BOOLEAN /\ initialized \in BOOLEAN
       /\ auInitialized \in BOOLEAN /\ installed \in BOOLEAN
  BY <1>1, <1>3
<1>12. /\ emulationRunning \in BOOLEAN /\ gameLoaded \in BOOLEAN
       /\ sysInitialized \in BOOLEAN /\ highPerformance \in BOOLEAN
  BY <1>3, <1>4
<1> QED
  BY <1>5, <1>6, <1>7, <1>8, <1>9, <1>10, <1>11, <1>12 DEF AppIInv

\* The steps of main that only move the program counter between statements
\* before the subsystems exist or after they are gone.
LEMMA PcStepsKeepIInv ==
    ASSUME AppIInv,
           \/ InstallHandlers \/ PlatformAndEtaHEN \/ CreateApp
           \/ ProcessCommandLine \/ Run \/ LoopTest \/ AppShutdown
    PROVE  AppIInv'
<1> USE DEF sysVars, auVars, rvars, gnmVars, rendererVars
<1>1. CASE InstallHandlers
  BY <1>1 DEF InstallHandlers, Goto, AppIInv, Lifetimes, Components,
              StreamsHeldOwned, Owned, Pcs, Terminal
<1>2. CASE PlatformAndEtaHEN
  <2>1. /\ pc = "platform" /\ pc' = "create"
        /\ UNCHANGED <<auInitialized, streams, held, rInitialized, initialized,
                       subIdx, installed, alive, emulationRunning, gameLoaded>>
    BY <1>2 DEF PlatformAndEtaHEN, Goto
  <2>2. /\ sysInitialized' \in BOOLEAN
        /\ highPerformance' = highPerformance
    BY <1>2 DEF PlatformAndEtaHEN, SysInitialize, AppIInv
  <2> QED
    BY <2>1, <2>2 DEF AppIInv, Lifetimes, Components, StreamsHeldOwned, Owned,
                      Pcs, Terminal
<1>3. CASE CreateApp
  BY <1>3 DEF CreateApp, Goto, AppIInv, Lifetimes, Components,
              StreamsHeldOwned, Owned, Pcs, Terminal
<1>4. CASE ProcessCommandLine
  BY <1>4, PrefixTable DEF ProcessCommandLine, AppIInv, Lifetimes, Components,
              StreamsHeldOwned, Owned, Pcs, Terminal
<1>5. CASE Run
  BY <1>5 DEF Run, Goto, AppIInv, Lifetimes, Components,
              StreamsHeldOwned, Owned, Pcs, Terminal
<1>6. CASE LoopTest
  BY <1>6 DEF LoopTest, AppIInv, Lifetimes, Components,
              StreamsHeldOwned, Owned, Pcs, Terminal
<1>7. CASE AppShutdown
  <2>1. /\ pc = "appShutdown" /\ pc' = "shutSub" /\ subIdx' = 1
        /\ emulationRunning' = FALSE /\ gameLoaded' = FALSE
        /\ UNCHANGED <<auInitialized, streams, held, rInitialized, initialized,
                       installed, alive, sysInitialized, highPerformance>>
    BY <1>7 DEF AppShutdown, Goto
  <2>2. alive' = Prefix(6 - subIdx')
    <3>1. alive = Prefix(5)
      BY <2>1 DEF AppIInv, Lifetimes
    <3>2. 6 - subIdx' = 5
      BY <2>1
    <3> QED
      BY <2>1, <3>1, <3>2
  <2>3. Lifetimes'
    BY <2>1, <2>2 DEF AppIInv, Lifetimes
  <2>4. Components'
    BY <2>1 DEF AppIInv, Components
  <2>5. StreamsHeldOwned'
    BY <2>1 DEF AppIInv, StreamsHeldOwned, Owned
  <2>6. pc' \in Pcs /\ subIdx' \in 1..5
    BY <2>1 DEF Pcs, Terminal
  <2>7. /\ held' \in [Dependents -> SUBSET StreamAddrs]
        /\ rInitialized' \in BOOLEAN /\ initialized' \in BOOLEAN
        /\ auInitialized' \in BOOLEAN /\ installed' \in BOOLEAN
        /\ emulationRunning' \in BOOLEAN /\ gameLoaded' \in BOOLEAN
        /\ sysInitialized' \in BOOLEAN /\ highPerformance' \in BOOLEAN
    BY <2>1 DEF AppIInv
  <2> QED
    BY <2>3, <2>4, <2>5, <2>6, <2>7 DEF AppIInv
<1> QED
  BY <1>1, <1>2, <1>3, <1>4, <1>5, <1>6, <1>7

\* InitializeSubsystems creating one member: the prefix grows by it, and
\* the renderer is initialized whenever main goes on past it.
LEMMA InitSubsystemKeepsIInv ==
    ASSUME AppIInv, InitSubsystem
    PROVE  AppIInv'
<1> USE DEF sysVars, auVars, rvars, gnmVars, rendererVars
<1>1. /\ pc = "initSub" /\ alive = Prefix(subIdx - 1) /\ subIdx \in 1..5
      /\ installed = TRUE /\ emulationRunning = FALSE
  BY DEF AppIInv, Lifetimes, Components, InitSubsystem
<1>2. /\ alive' = alive \cup {InitOrder[subIdx]}
      /\ UNCHANGED <<held, installed, emulationRunning, gameLoaded,
                     sysInitialized, highPerformance>>
  BY DEF InitSubsystem
<1>3. \/ pc' = "unwind" /\ subIdx' = 1
      \/ pc' = "run" /\ subIdx = 5 /\ subIdx' = 5
      \/ pc' = "initSub" /\ subIdx < 5 /\ subIdx' = subIdx + 1
  BY <1>1 DEF InitSubsystem, InitOrder
<1>4. subIdx = 1 =>
        /\ pc' # "unwind" => rInitialized' = TRUE
        /\ rInitialized' \in BOOLEAN /\ initialized' \in BOOLEAN
        /\ UNCHANGED <<auInitialized, streams>>
  <2> SUFFICES ASSUME subIdx = 1
               PROVE  /\ pc' # "unwind" => rInitialized' = TRUE
                      /\ rInitialized' \in BOOLEAN /\ initialized' \in BOOLEAN
                      /\ UNCHANGED <<auInitialized, streams>>
    OBVIOUS
  <2>1. \E ok \in BOOLEAN :
          /\ IF ok THEN RInitializeSucceeds ELSE RInitializeFails
          /\ UNCHANGED auVars
          /\ ~ok => pc' = "unwind"
    BY DEF InitSubsystem, InitOrder, MayFail
  <2>2. PICK ok \in BOOLEAN :
          /\ IF ok THEN RInitializeSucceeds ELSE RInitializeFails
          /\ UNCHANGED auVars
          /\ ~ok => pc' = "unwind"
    BY <2>1
  <2>3. CASE ok = TRUE
    BY <2>2, <2>3, RendererEffects
  <2>4. CASE ok = FALSE
    BY <2>2, <2>4, RendererEffects DEF AppIInv
  <2> QED
    BY <2>3, <2>4
<1>5. subIdx # 1 => UNCHANGED <<rInitialized, initialized>>
  BY <1>1, RendererEffects DEF InitSubsystem, InitOrder
<1>6. subIdx = 2 => auInitialized' = TRUE /\ streams' = streams
  BY <1>1, AudioEffects DEF InitSubsystem, InitOrder
<1>7. subIdx \notin {1, 2} => UNCHANGED <<auInitialized, streams>>
  BY <1>1 DEF InitSubsystem, InitOrder
<1>8. alive' = Prefix(subIdx)
  BY <1>1, <1>2, PrefixSteps
<1>9. Lifetimes'
  BY <1>1, <1>2, <1>3, <1>8 DEF Lifetimes
<1>10. Components'
  BY <1>1, <1>2, <1>3, <1>4, <1>5, <1>6, <1>7, <1>8, PrefixTable
     DEF AppIInv, Components
<1>11. StreamsHeldOwned'
  BY <1>1, <1>2, <1>4, <1>5, <1>6, <1>7 DEF AppIInv, StreamsHeldOwned, Owned
<1>12. pc' \in Pcs /\ subIdx' \in 1..5
  BY <1>1, <1>3 DEF Pcs, Terminal
<1>13. /\ held' \in [Dependents -> SUBSET StreamAddrs]
       /\ rInitialized' \in BOOLEAN /\ initialized' \in BOOLEAN
       /\ auInitialized' \in BOOLEAN /\ installed' \in BOOLEAN
       /\ emulationRunning' \in BOOLEAN /\ gameLoaded' \in BOOLEAN
       /\ sysInitialized' \in BOOLEAN /\ highPerformance' \in BOOLEAN
  BY <1>2, <1>4, <1>5, <1>6, <1>7 DEF AppIInv
<1> QED
  BY <1>9, <1>10, <1>11, <1>12, <1>13 DEF AppIInv

\* A frame, the reset of g_ps5_app, a signal, and the steps that change
\* nothing the invariant reads.
LEMMA OtherStepsKeepIInv ==
    ASSUME AppIInv,
           Iterate \/ ResetApp \/ Signal \/ Terminated \/ UNCHANGED avars
    PROVE  AppIInv'
<1> USE DEF sysVars, auVars, rvars, gnmVars, rendererVars, appVars
<1>1. CASE Iterate
  <2>1. /\ pc = "iter" /\ pc' = "loopTest" /\ alive = Prefix(5)
        /\ UNCHANGED <<auInitialized, streams, held, subIdx, installed, alive,
                       emulationRunning, gameLoaded, sysInitialized,
                       highPerformance>>
    BY <1>1 DEF Iterate, Goto, AppIInv, Lifetimes
  <2>2. UNCHANGED <<rInitialized, initialized>>
    BY <1>1, RendererEffects DEF Iterate
  <2> QED
    BY <2>1, <2>2 DEF AppIInv, Lifetimes, Components, StreamsHeldOwned, Owned,
                      Pcs, Terminal
<1>2. CASE ResetApp
  <2>1. /\ pc = "reset" /\ pc' = "done" /\ alive = {}
        /\ UNCHANGED <<auInitialized, streams, held, subIdx, installed, alive,
                       emulationRunning, gameLoaded, rInitialized, initialized>>
    BY <1>2 DEF ResetApp, Goto, AppIInv, Lifetimes
  <2>2. sysInitialized' = FALSE /\ highPerformance' = FALSE
    BY <1>2, PlatformEffects DEF ResetApp, AppIInv, Components
  <2>3. emulationRunning = FALSE
    BY <2>1 DEF AppIInv, Components
  <2>4. Lifetimes' /\ Components' /\ StreamsHeldOwned'
    BY <2>1, <2>2, <2>3 DEF AppIInv, Lifetimes, Components, StreamsHeldOwned,
                            Owned
  <2> QED
    BY <2>1, <2>2, <2>4 DEF AppIInv, Pcs, Terminal
<1>3. CASE Signal /\ installed
  BY <1>3 DEF Signal, AppIInv, Lifetimes, Components, StreamsHeldOwned, Owned
<1>4. CASE Signal /\ ~installed
  <2>1. /\ pc = "install" /\ pc' = "killed" /\ alive = {}
        /\ UNCHANGED <<auInitialized, streams, held, subIdx, installed, alive,
                       emulationRunning, gameLoaded, rInitialized, initialized,
                       sysInitialized, highPerformance>>
    BY <1>4 DEF Signal, AppIInv, Lifetimes, Terminal
  <2>2. emulationRunning = FALSE
    BY <2>1 DEF AppIInv, Components
  <2>3. Lifetimes' /\ Components' /\ StreamsHeldOwned'
    BY <2>1, <2>2 DEF AppIInv, Lifetimes, Components, StreamsHeldOwned, Owned
  <2> QED
    BY <2>1, <2>3 DEF AppIInv, Pcs, Terminal
<1>5. CASE Terminated \/ UNCHANGED avars
  <2>1. UNCHANGED <<pc, subIdx, held, alive, installed, emulationRunning,
                    gameLoaded, rInitialized, initialized, auInitialized,
                    streams, sysInitialized, highPerformance>>
    BY <1>5 DEF Terminated, avars
  <2> QED
    BY <2>1 DEF AppIInv, Lifetimes, Components, StreamsHeldOwned, Owned
<1> QED
  BY <1>1, <1>2, <1>3, <1>4, <1>5

\* A frontend or core call into the audio manager during an iteration.  A
\* new stream's address is not owned, so no other client holds it; a
\* destroyed one was held by the caller only.
LEMMA ClientAudioKeepsIInv ==
    ASSUME AppIInv, NEW c \in Dependents, ClientAudio(c)
    PROVE  AppIInv'
<1> USE DEF sysVars, auVars, rvars, gnmVars, rendererVars
<1>1. /\ pc = "iter" /\ alive = Prefix(5)
      /\ UNCHANGED <<pc, subIdx, installed, alive, emulationRunning, gameLoaded,
                     rInitialized, initialized, sysInitialized, highPerformance>>
  BY DEF ClientAudio, Calling, AppIInv, Lifetimes
<1>2. c \in alive
  BY <1>1, PrefixTable DEF Dependents
<1>3. /\ \A d \in Dependents : held[d] \subseteq Owned
      /\ \A d \in Dependents : d # c => held[d] \cap held[c] = {}
  BY DEF AppIInv, StreamsHeldOwned, Dependents
<1>7. /\ Lifetimes' /\ pc' \in Pcs /\ subIdx' \in 1..5
      /\ rInitialized' \in BOOLEAN /\ initialized' \in BOOLEAN
      /\ auInitialized' \in BOOLEAN /\ installed' \in BOOLEAN
      /\ emulationRunning' \in BOOLEAN /\ gameLoaded' \in BOOLEAN
      /\ sysInitialized' \in BOOLEAN /\ highPerformance' \in BOOLEAN
  <2>1. auInitialized' = auInitialized
    BY AudioEffects DEF ClientAudio
  <2> QED
    BY <1>1, <2>1 DEF AppIInv, Lifetimes
<1>4. CASE \E type \in StreamTypes, addr \in StreamAddrs :
             /\ CreateStream(type, addr)
             /\ held' = [held EXCEPT ![c] = @ \cup {addr}]
  <2>1. PICK type \in StreamTypes, addr \in StreamAddrs :
             /\ CreateStream(type, addr)
             /\ held' = [held EXCEPT ![c] = @ \cup {addr}]
    BY <1>4
  <2>2. /\ auInitialized /\ addr \notin Owned /\ auInitialized' = auInitialized
        /\ Owned' = Owned \cup {addr}
    BY <2>1, AudioEffects
  <2>3. \A d \in Dependents : held'[d] \subseteq Owned'
    BY <2>1, <2>2, <1>3 DEF AppIInv
  <2>4. held'["frontend"] \cap held'["core"] = {}
    BY <2>1, <2>2, <1>3 DEF AppIInv, Dependents
  <2>5. held' \in [Dependents -> SUBSET StreamAddrs]
    BY <2>1 DEF AppIInv
  <2>6. Components'
    BY <1>1, <2>2, PrefixTable DEF AppIInv, Components, Dependents
  <2> QED
    BY <1>7, <2>3, <2>4, <2>5, <2>6 DEF AppIInv, StreamsHeldOwned
<1>5. CASE \E addr \in held[c] :
             /\ DestroyStream(addr)
             /\ held' = [held EXCEPT ![c] = @ \ {addr}]
  <2>1. PICK addr \in held[c] :
             /\ DestroyStream(addr)
             /\ held' = [held EXCEPT ![c] = @ \ {addr}]
    BY <1>5
  <2>2. auInitialized' = auInitialized /\ Owned' = Owned \ {addr}
    BY <2>1, AudioEffects
  <2>3. streams' \subseteq streams
    BY <2>1 DEF DestroyStream
  <2>4. \A d \in Dependents : held'[d] \subseteq Owned'
    BY <2>1, <2>2, <1>3 DEF AppIInv
  <2>5. held'["frontend"] \cap held'["core"] = {}
    BY <2>1, <1>3 DEF AppIInv, Dependents
  <2>6. held' \in [Dependents -> SUBSET StreamAddrs]
    BY <2>1 DEF AppIInv
  <2>7. Components'
    BY <1>1, <2>2, <2>3, PrefixTable DEF AppIInv, Components, Dependents
  <2> QED
    BY <1>7, <2>4, <2>5, <2>6, <2>7 DEF AppIInv, StreamsHeldOwned
<1>6. CASE /\ \/ \E v \in Volumes : SetMasterVolume(v)
              \/ \E m \in BOOLEAN : SetMute(m)
              \/ \E e \in BOOLEAN : Enable3DAudio(e)
           /\ UNCHANGED held
  <2>1. UNCHANGED <<auInitialized, streams, held>>
    BY <1>6, AudioEffects
  <2> QED
    BY <1>1, <2>1 DEF AppIInv, Lifetimes, Components, StreamsHeldOwned, Owned
<1> QED
  BY <1>4, <1>5, <1>6 DEF ClientAudio

\* The end of the k-th member in shutdown order, while the members alive
\* are a prefix that does not reach past it: if it is alive it is the
\* youngest, and destroying it keeps every component tied to its member.
LEMMA EndMemberKeepsMembers ==
    ASSUME AppIInv, NEW k \in 1..5, NEW m \in 0..(6 - k), alive = Prefix(m),
           EndMember(k)
    PROVE  /\ alive' = IF m = 6 - k THEN Prefix(5 - k) ELSE alive
           /\ MemberState'
           /\ rInitialized' \in BOOLEAN /\ initialized' \in BOOLEAN
           /\ auInitialized' \in BOOLEAN
           /\ held' \in [Dependents -> SUBSET StreamAddrs]
<1> USE DEF auVars, rvars, gnmVars, rendererVars
<1> DEFINE s == ShutdownOrder[k]
<1>1. MemberState
  BY DEF AppIInv, Components, MemberState
<1>2. s = InitOrder[6 - k] /\ (s \in alive <=> m = 6 - k)
  BY ShutdownReversed, PrefixSteps
<1>3. CASE s \notin alive
  <2>1. UNCHANGED <<rInitialized, initialized, auInitialized, streams, alive,
                    held>>
    BY <1>3 DEF EndMember
  <2> QED
    BY <1>1, <1>2, <1>3, <2>1 DEF AppIInv, MemberState, StreamsHeldOwned, Owned
<1>4. CASE s \in alive
  <2>1. m = 6 - k /\ TearDown(s)
    BY <1>2, <1>4 DEF EndMember
  <2>2. alive' = Prefix(5 - k) /\ alive' = alive \ {s}
    BY <1>2, <2>1, PrefixSteps DEF TearDown
  <2> SUFFICES /\ MemberState'
               /\ rInitialized' \in BOOLEAN /\ initialized' \in BOOLEAN
               /\ auInitialized' \in BOOLEAN
               /\ held' \in [Dependents -> SUBSET StreamAddrs]
    BY <2>1, <2>2
  <2>3. CASE k = 5
    <3>1. s = "renderer" /\ alive' = {} /\ alive = {"renderer"}
      BY <2>1, <2>2, <2>3, PrefixTable DEF ShutdownOrder
    <3>2. rInitialized' = FALSE /\ initialized' = FALSE
      BY <2>1, <3>1, RDestroyEffect DEF TearDown, AppIInv
    <3>3. UNCHANGED <<auInitialized, streams, held>>
      BY <2>1, <3>1 DEF TearDown, Dependents
    <3> QED
      BY <1>1, <3>1, <3>2, <3>3
         DEF AppIInv, MemberState, StreamsHeldOwned, Owned, Dependents
  <2>4. CASE k = 4
    <3>1. s = "audio" /\ alive' = {"renderer"} /\ alive = {"renderer", "audio"}
      BY <2>1, <2>2, <2>4, PrefixTable DEF ShutdownOrder
    <3>2. /\ auInitialized' = FALSE /\ streams' = {}
      <4>1. CASE auInitialized
        BY <2>1, <3>1, <4>1, AudioEffects DEF TearDown
      <4>2. CASE ~auInitialized
        BY <2>1, <3>1, <4>2, <1>1 DEF TearDown, AppIInv, MemberState
      <4> QED
        BY <4>1, <4>2
    <3>3. UNCHANGED <<rInitialized, initialized, held>>
      BY <2>1, <3>1 DEF TearDown, Dependents
    <3>4. \A c \in Dependents : held[c] = {}
      BY <1>1, <3>1 DEF MemberState, Dependents
    <3> QED
      BY <1>1, <2>1, <2>2, <3>1, <3>2, <3>3, <3>4
         DEF AppIInv, MemberState, StreamsHeldOwned, Owned
  <2>5. CASE k = 3
    <3>1. s = "input" /\ "renderer" \in alive' /\ "audio" \in alive'
      BY <2>1, <2>2, <2>5, PrefixTable DEF ShutdownOrder
    <3>2. UNCHANGED <<rInitialized, initialized, auInitialized, streams, held>>
      BY <2>1, <3>1 DEF TearDown, Dependents
    <3> QED
      BY <1>1, <2>2, <3>1, <3>2
         DEF AppIInv, MemberState, StreamsHeldOwned, Owned, Dependents
  <2>6. CASE k \in 1..2
    <3>1. /\ s \in Dependents /\ "renderer" \in alive' /\ "audio" \in alive'
          /\ "audio" \in alive
      BY <2>1, <2>2, <2>6, PrefixTable DEF ShutdownOrder, Dependents
    <3>2. PICK freed \in {{}, held[s]} :
            /\ streams' = {x \in streams : x.addr \notin freed}
            /\ auInitialized' = auInitialized
      BY <2>1, <3>1 DEF TearDown
    <3>3. /\ Owned' = Owned \ freed /\ streams' \subseteq streams
          /\ held' = [held EXCEPT ![s] = {}]
          /\ UNCHANGED <<rInitialized, initialized>>
      BY <2>1, <3>1, <3>2, FreeEffect DEF TearDown
    <3>4. /\ \A c \in Dependents : held[c] \subseteq Owned
          /\ \A c \in Dependents : c # s => held[c] \cap held[s] = {}
      BY <1>1, <3>1 DEF MemberState, StreamsHeldOwned, Dependents
    <3>5. StreamsHeldOwned'
      BY <3>2, <3>3, <3>4, <3>1 DEF AppIInv, StreamsHeldOwned, Dependents
    <3>6. \A c \in Dependents : c \notin alive' => held'[c] = {}
      BY <1>1, <2>2, <3>1, <3>3 DEF AppIInv, MemberState
    <3>7. held' \in [Dependents -> SUBSET StreamAddrs]
      BY <3>1, <3>3 DEF AppIInv
    <3>8. ~auInitialized' => streams' = {}
      BY <1>1, <3>1, <3>2, <3>3 DEF MemberState
    <3> QED
      BY <1>1, <3>1, <3>2, <3>3, <3>5, <3>6, <3>7, <3>8
         DEF AppIInv, MemberState
  <2> QED
    BY <2>3, <2>4, <2>5, <2>6
<1> QED
  BY <1>3, <1>4

\* ShutdownSubsystems and the exit after a failed Initialize: each step
\* ends the next member in shutdown order.
LEMMA ShutdownStepsKeepIInv ==
    ASSUME AppIInv, ShutdownSubsystem \/ Unwind
    PROVE  AppIInv'
<1> USE DEF sysVars
<1>1. /\ installed = TRUE /\ emulationRunning = FALSE
      /\ UNCHANGED <<installed, emulationRunning, gameLoaded, sysInitialized,
                     highPerformance>>
      /\ pc \in {"shutSub", "unwind"} /\ EndMember(subIdx)
  BY DEF AppIInv, Lifetimes, Components, ShutdownSubsystem, Unwind
<1>2. /\ \/ pc' = "shutSub" /\ subIdx < 5 /\ subIdx' = subIdx + 1
         \/ pc' = "reset" /\ subIdx = 5 /\ subIdx' = 5
         \/ pc' = "unwind" /\ subIdx < 5 /\ subIdx' = subIdx + 1
         \/ pc' = "exited" /\ subIdx = 5 /\ subIdx' = 5
      /\ pc = "shutSub" => pc' \in {"shutSub", "reset"}
      /\ pc = "unwind" => pc' \in {"unwind", "exited"}
  BY DEF ShutdownSubsystem, Unwind, ShutdownOrder, AppIInv
<1>3. PICK m \in 0..(6 - subIdx) :
        /\ alive = Prefix(m)
        /\ pc = "shutSub" => m = 6 - subIdx
  BY <1>1 DEF AppIInv, Lifetimes
<1>4. /\ alive' = IF m = 6 - subIdx THEN Prefix(5 - subIdx) ELSE alive
      /\ MemberState'
      /\ rInitialized' \in BOOLEAN /\ initialized' \in BOOLEAN
      /\ auInitialized' \in BOOLEAN
      /\ held' \in [Dependents -> SUBSET StreamAddrs]
  BY <1>1, <1>3, EndMemberKeepsMembers DEF AppIInv
<1>5. /\ pc' = "shutSub" => alive' = Prefix(6 - subIdx')
      /\ pc' = "unwind" => \E n \in 0..(6 - subIdx') : alive' = Prefix(n)
      /\ pc' \in {"reset", "exited"} => alive' = {}
  <2>1. CASE pc = "shutSub"
    <3>1. alive' = Prefix(5 - subIdx) /\ pc' \in {"shutSub", "reset"}
      BY <1>2, <1>3, <1>4, <2>1
    <3>2. pc' = "shutSub" => 5 - subIdx = 6 - subIdx'
      BY <1>2, <2>1 DEF AppIInv
    <3>3. pc' = "reset" => 5 - subIdx = 0
      BY <1>2, <2>1 DEF AppIInv
    <3> QED
      BY <3>1, <3>2, <3>3, PrefixTable
  <2>2. CASE pc = "unwind"
    <3>1. pc' \in {"unwind", "exited"}
      BY <1>2, <2>2
    <3>2. \E n \in 0..(5 - subIdx) : alive' = Prefix(n)
      <4>1. CASE m = 6 - subIdx
        BY <1>3, <1>4, <4>1 DEF AppIInv
      <4>2. CASE m # 6 - subIdx
        <5>1. m \in 0..(5 - subIdx) /\ alive' = Prefix(m)
          BY <1>3, <1>4, <4>2 DEF AppIInv
        <5> QED
          BY <5>1
      <4> QED
        BY <4>1, <4>2
    <3>3. pc' = "unwind" => 5 - subIdx = 6 - subIdx'
      BY <1>2, <2>2 DEF AppIInv
    <3>4. pc' = "exited" => 5 - subIdx = 0
      BY <1>2, <2>2 DEF AppIInv
    <3> QED
      BY <3>1, <3>2, <3>3, <3>4, PrefixTable
  <2> QED
    BY <1>1, <2>1, <2>2
<1>6. Lifetimes'
  BY <1>1, <1>2, <1>5 DEF Lifetimes
<1>7. Components' /\ StreamsHeldOwned'
  BY <1>1, <1>2, <1>4 DEF AppIInv, Components, MemberState
<1>8. pc' \in Pcs /\ subIdx' \in 1..5
  BY <1>2 DEF Pcs, Terminal, AppIInv
<1> QED
  BY <1>1, <1>4, <1>6, <1>7, <1>8 DEF AppIInv

LEMMA AppIInvNext == AppIInv /\ [ANext]_avars => AppIInv'
<1> SUFFICES ASSUME AppIInv, [ANext]_avars PROVE AppIInv'
  OBVIOUS
<1>1. CASE \/ InstallHandlers \/ PlatformAndEtaHEN \/ CreateApp
           \/ ProcessCommandLine \/ Run \/ LoopTest \/ AppShutdown
  BY <1>1, PcStepsKeepIInv
<1>2. CASE InitSubsystem
  BY <1>2, InitSubsystemKeepsIInv
<1>3. CASE ShutdownSubsystem \/ Unwind
  BY <1>3, ShutdownStepsKeepIInv
<1>4. CASE \E c \in Dependents : ClientAudio(c)
  BY <1>4, ClientAudioKeepsIInv
<1>5. CASE Iterate \/ ResetApp \/ Signal \/ Terminated \/ UNCHANGED avars
  BY <1>5, OtherStepsKeepIInv
<1> QED
  BY <1>1, <1>2, <1>3, <1>4, <1>5 DEF ANext, MainStep

\* The inductive invariant holds in every state of the process.
THEOREM AppIInvHolds == ASpec => []AppIInv
BY AppIInvInit, AppIInvNext, PTL DEF ASpec

-----------------------------------------------------------------------------
(***************************************************************************)
(* The safety properties of the Application runs, for every value of the  *)
(* constants.                                                              *)
(***************************************************************************)

\* The members alive are always the first m in declaration order.
LEMMA AliveIsPrefix == AppIInv => \E m \in 0..5 : alive = Prefix(m)
<1> SUFFICES ASSUME AppIInv PROVE \E m \in 0..5 : alive = Prefix(m)
  OBVIOUS
<1>1. CASE pc \in {"install", "platform", "create", "cmdline", "reset", "done",
                   "exited", "killed"}
  <2>1. alive = Prefix(0)
    BY <1>1, PrefixTable DEF AppIInv, Lifetimes
  <2> QED
    BY <2>1
<1>2. CASE pc = "initSub"
  BY <1>2 DEF AppIInv, Lifetimes
<1>3. CASE pc \in {"run", "loopTest", "iter", "appShutdown"}
  BY <1>3 DEF AppIInv, Lifetimes
<1>4. CASE pc = "shutSub"
  BY <1>4 DEF AppIInv, Lifetimes
<1>5. CASE pc = "unwind"
  BY <1>5 DEF AppIInv, Lifetimes
<1> QED
  BY <1>1, <1>2, <1>3, <1>4, <1>5 DEF AppIInv, Pcs, Terminal

\* NoDanglingSubsystem: whenever the frontend or the core exists, the
\* renderer, audio and input managers they point to exist and the renderer
\* is initialized -- by the creation and destruction orders of
\* InitializeSubsystems, ShutdownSubsystems and the exit path.
THEOREM NoDanglingSubsystemHolds == ASpec => []NoDanglingSubsystem
<1>1. AppIInv => NoDanglingSubsystem
  <2> SUFFICES ASSUME AppIInv, alive \cap Dependents # {}
               PROVE  Providers \subseteq alive /\ rInitialized
    BY DEF NoDanglingSubsystem
  <2>1. PICK m \in 0..5 : alive = Prefix(m)
    BY AliveIsPrefix
  <2>2. Providers \cup {"audio"} \subseteq alive
    BY <2>1, DependentsNeedProviders
  <2> QED
    BY <2>2 DEF AppIInv, Components
<1> QED
  BY <1>1, AppIInvHolds, PTL

\* EmulationNeedsCore: emulation runs only on a loaded game while the core
\* and the renderer it draws through are alive (Run, the main loop and the
\* first statement of Shutdown, which stops it).
THEOREM EmulationNeedsCoreHolds == ASpec => []EmulationNeedsCore
<1>1. AppIInv => EmulationNeedsCore
  BY PrefixTable DEF AppIInv, Lifetimes, Components, EmulationNeedsCore
<1> QED
  BY <1>1, AppIInvHolds, PTL

\* StreamsHeldOwned: every stream the frontend or core holds is owned by the
\* audio manager, and no stream is held by both.
THEOREM StreamsHeldOwnedHolds == ASpec => []StreamsHeldOwned
<1>1. AppIInv => StreamsHeldOwned
  BY DEF AppIInv
<1> QED
  BY <1>1, AppIInvHolds, PTL

\* ReleasedAtExit: when main() has returned, normally or with -1 after a
\* failed Initialize, no member is left, the renderer, the GNM wrapper and
\* the audio manager are shut down with no stream, and after the normal
\* return the platform layer is shut down too.
THEOREM ReleasedAtExitHolds == ASpec => []ReleasedAtExit
<1>1. AppIInv => ReleasedAtExit
  BY DEF AppIInv, Lifetimes, Components, ReleasedAtExit
<1> QED
  BY <1>1, AppIInvHolds, PTL

-----------------------------------------------------------------------------
(***************************************************************************)
(* Refinement: the members alive follow MemberStack, under the mapping     *)
(* Order <- InitOrder, members <- alive.                                   *)
(***************************************************************************)

\* Every step of the process leaves the members alone, creates the next one
\* in declaration order, or destroys the youngest.
LEMMA AliveSteps ==
    ASSUME AppIInv, [ANext]_avars
    PROVE  \/ alive' = alive
           \/ \E m \in 0..4 : alive = Prefix(m) /\ alive' = Prefix(m + 1)
           \/ \E m \in 1..5 : alive = Prefix(m) /\ alive' = Prefix(m - 1)
<1>1. CASE InitSubsystem
  <2>1. /\ subIdx - 1 \in 0..4 /\ alive = Prefix(subIdx - 1)
        /\ alive' = alive \cup {InitOrder[(subIdx - 1) + 1]}
    BY <1>1 DEF InitSubsystem, AppIInv, Lifetimes
  <2>2. alive' = Prefix((subIdx - 1) + 1)
    BY <2>1, PrefixSteps
  <2> QED
    BY <2>1, <2>2
<1>2. CASE ShutdownSubsystem \/ Unwind
  <2>1. pc \in {"shutSub", "unwind"} /\ EndMember(subIdx)
    BY <1>2 DEF ShutdownSubsystem, Unwind
  <2>2. PICK m \in 0..(6 - subIdx) : alive = Prefix(m)
    BY <2>1 DEF AppIInv, Lifetimes
  <2>3. alive' = IF m = 6 - subIdx THEN Prefix(5 - subIdx) ELSE alive
    BY <2>1, <2>2, EndMemberKeepsMembers DEF AppIInv
  <2>4. CASE m = 6 - subIdx
    <3>1. m \in 1..5 /\ 5 - subIdx = m - 1
      BY <2>2, <2>4 DEF AppIInv
    <3> QED
      BY <2>2, <2>3, <2>4, <3>1
  <2> QED
    BY <2>3, <2>4
<1>3. CASE \/ InstallHandlers \/ PlatformAndEtaHEN \/ CreateApp
           \/ ProcessCommandLine \/ Run \/ LoopTest \/ Iterate \/ AppShutdown
           \/ ResetApp \/ Signal
  BY <1>3 DEF InstallHandlers, PlatformAndEtaHEN, CreateApp,
              ProcessCommandLine, Run, LoopTest, Iterate, AppShutdown,
              ResetApp, Signal
<1>4. CASE \E c \in Dependents : ClientAudio(c)
  BY <1>4 DEF ClientAudio
<1>5. CASE Terminated \/ UNCHANGED avars
  BY <1>5 DEF Terminated, avars, appVars
<1> QED
  BY <1>1, <1>2, <1>3, <1>4, <1>5 DEF ANext, MainStep

\* MembersAsStack: PS5Application's members live as a stack -- created in
\* declaration order by InitializeSubsystems, destroyed youngest first by
\* ShutdownSubsystems and by the exit after a failed Initialize.
THEOREM MembersAsStackHolds == ASpec => MembersAsStack
<1>1. \A m \in 0..5 : Members!Prefix(m) = Prefix(m)
  BY DEF Members!Prefix, Prefix
<1>2. Len(InitOrder) = 5
  BY DEF InitOrder
<1>3. AInit => Members!MInit
  BY DEF AInit, Members!MInit
<1>4. AppIInv /\ [ANext]_avars =>
        [Members!Construct \/ Members!DestroyYoungest]_alive
  <2> SUFFICES ASSUME AppIInv, [ANext]_avars
               PROVE  [Members!Construct \/ Members!DestroyYoungest]_alive
    OBVIOUS
  <2>1. CASE \E m \in 0..4 : alive = Prefix(m) /\ alive' = Prefix(m + 1)
    <3>1. PICK m \in 0..4 : alive = Prefix(m) /\ alive' = Prefix(m + 1)
      BY <2>1
    <3>2. Members!Construct
      BY <3>1, <1>1, <1>2 DEF Members!Construct
    <3> QED
      BY <3>2
  <2>2. CASE \E m \in 1..5 : alive = Prefix(m) /\ alive' = Prefix(m - 1)
    <3>1. PICK m \in 1..5 : alive = Prefix(m) /\ alive' = Prefix(m - 1)
      BY <2>2
    <3>2. Members!DestroyYoungest
      BY <3>1, <1>1, <1>2 DEF Members!DestroyYoungest
    <3> QED
      BY <3>2
  <2> QED
    BY <2>1, <2>2, AliveSteps
<1> QED
  BY <1>3, <1>4, AppIInvHolds, PTL
     DEF ASpec, MembersAsStack, Members!MSpec

=============================================================================
