---------------------------- MODULE Application ----------------------------
(***************************************************************************)
(* The process: main() (main_ps5/main.cpp) driving PS5Application          *)
(* (main_ps5/ps5_application.cpp) through Initialize, Run and Shutdown,    *)
(* with the renderer of Renderer, the audio manager of AudioManager and    *)
(* the platform layer of PS5System composed in, and SignalHandler running  *)
(* asynchronously on SIGINT/SIGTERM.                                       *)
(*                                                                         *)
(* The main thread is a program counter over the statements of main(),     *)
(* Initialize, Run, MainLoop and Shutdown.  A signal handler runs between  *)
(* any two of them: it only reads g_ps5_app and sets the atomic            *)
(* shutdown_requested_, so a statement that touches neither may be taken   *)
(* as one step.  The emulator core, the frontend and etaHEN are external:  *)
(* their results are nondeterministic choices.                             *)
(***************************************************************************)
EXTENDS Renderer, AudioManager, PS5System, FiniteSets

CONSTANT MaxSignals   \* number of signals the environment may send

ASSUME SignalAssumption == MaxSignals \in Nat

\* The members of PS5Application in declaration order; InitializeSubsystems
\* creates them in this order, ShutdownSubsystems destroys them in reverse.
InitOrder == <<"renderer", "audio", "input", "frontend", "core">>
\* Mutant: the members are destroyed in creation order.
ShutdownOrderForward == InitOrder
ShutdownOrder == <<"core", "frontend", "input", "audio", "renderer">>
Subsystems == {InitOrder[k] : k \in 1..5}

\* Members constructed with raw pointers to the renderer, audio and input.
Dependents == {"frontend", "core"}
Providers == {"renderer", "audio", "input"}

\* Subsystems whose Initialize may fail: the renderer (through its command
\* buffer, texture manager and shader compiler), the input manager, the
\* frontend and the core, whose code is not in the source.  The audio
\* manager's Initialize always succeeds.
MayFail == {"renderer", "input", "frontend", "core"}

Terminal == {"done", "exited", "killed"}

VARIABLES
    pc,                 \* the main thread's next statement
    subIdx,             \* loop index inside Initialize/ShutdownSubsystems
    argHelp,            \* argv holds --help
    argGame,            \* argv holds --game <path>
    installed,          \* signal(SIGINT/SIGTERM, SignalHandler) has run
    appExists,          \* g_ps5_app != nullptr
    shutdownRequested,  \* shutdown_requested_
    aInitialized,       \* PS5Application::initialized_
    gameLoaded,         \* game_loaded_
    emulationRunning,   \* emulation_running_
    emulationPaused,    \* emulation_paused_
    alive,              \* members constructed and not yet reset
    signalsSent,        \* signals the environment delivered
    handled,            \* ghost: SignalHandler ran for some signal
    held                \* ghost: stream addresses each dependent holds

appVars == <<pc, subIdx, argHelp, argGame, installed, appExists,
             shutdownRequested, aInitialized, gameLoaded, emulationRunning,
             emulationPaused, alive, signalsSent, handled, held>>
avars == <<rvars, auVars, sysVars, appVars>>

-----------------------------------------------------------------------------

AInit ==
    /\ RInit
    /\ AuInit
    /\ SysInit
    /\ pc = "install"
    /\ subIdx = 1
    /\ argHelp \in BOOLEAN
    /\ argGame \in BOOLEAN
    /\ installed = FALSE
    /\ appExists = FALSE
    /\ shutdownRequested = FALSE
    /\ aInitialized = FALSE
    /\ gameLoaded = FALSE
    /\ emulationRunning = FALSE
    /\ emulationPaused = FALSE
    /\ alive = {}
    /\ signalsSent = 0
    /\ handled = FALSE
    /\ held = [c \in Dependents |-> {}]

\* A main-thread step from statement p to statement q.
Goto(p, q) == pc = p /\ pc' = q

\* main: signal(SIGINT, ...); signal(SIGTERM, ...).
InstallHandlers ==
    /\ Goto("install", "platform")
    /\ installed' = TRUE
    /\ UNCHANGED <<sysVars, auVars, held, rvars, subIdx, argHelp, argGame, appExists,
                   shutdownRequested, aInitialized, gameLoaded,
                   emulationRunning, emulationPaused, alive, signalsSent,
                   handled>>

(***************************************************************************)
(* main: PS5System::Initialize (returns true in both builds), then         *)
(* etaHEN's Initialize, RequestJailbreak and EnableDataAccess, whose       *)
(* outcome main only logs and which touch no state modelled here; the     *)
(* etaHEN calls may take a while (a TCP connect and request/response       *)
(* round trips), which is the window between InstallHandlers and           *)
(* CreateApp.                                                              *)
(***************************************************************************)
PlatformAndEtaHEN ==
    /\ Goto("platform", "create")
    /\ SysInitialize
    /\ UNCHANGED <<auVars, held, rvars, subIdx, argHelp, argGame, installed, appExists,
                   shutdownRequested, aInitialized, gameLoaded,
                   emulationRunning, emulationPaused, alive, signalsSent,
                   handled>>

\* main: g_ps5_app = std::make_unique<PS5Application>().
CreateApp ==
    /\ Goto("create", "cmdline")
    /\ appExists' = TRUE
    /\ UNCHANGED <<sysVars, auVars, held, rvars, subIdx, argHelp, argGame, installed,
                   shutdownRequested, aInitialized, gameLoaded,
                   emulationRunning, emulationPaused, alive, signalsSent,
                   handled>>

\* Initialize: ProcessCommandLine returns false on --help, and main then
\* returns -1; otherwise LoadSettings (logging only) and the subsystems.
ProcessCommandLine ==
    /\ pc = "cmdline"
    /\ pc' = IF argHelp THEN "exited" ELSE "initSub"
    /\ UNCHANGED <<sysVars, auVars, held, rvars, subIdx, argHelp, argGame, installed, appExists,
                   shutdownRequested, aInitialized, gameLoaded,
                   emulationRunning, emulationPaused, alive, signalsSent,
                   handled>>

(***************************************************************************)
(* InitializeSubsystems, one member per step: make_unique, then            *)
(* Initialize.  The audio manager's is AuInitialize, which succeeds.  A    *)
(* failure returns false up to main, which returns -1: the process then    *)
(* exits and the static g_ps5_app is destroyed (Unwind).  After the last   *)
(* member Initialize sets initialized_ and main calls Run.                 *)
(***************************************************************************)
InitSubsystem ==
    /\ pc = "initSub"
    /\ LET s == InitOrder[subIdx] IN
       /\ alive' = alive \cup {s}
       /\ \E ok \in IF s \in MayFail THEN BOOLEAN ELSE {TRUE} :
            /\ IF s = "renderer"
                 THEN IF ok THEN RInitializeSucceeds ELSE RInitializeFails
                 ELSE UNCHANGED rvars
            /\ IF s = "audio" THEN AuInitialize ELSE UNCHANGED auVars
            /\ IF ~ok
                 THEN pc' = "unwind" /\ subIdx' = 1
                      /\ UNCHANGED aInitialized
               ELSE IF subIdx = Len(InitOrder)
                 THEN pc' = "run" /\ aInitialized' = TRUE
                      /\ UNCHANGED subIdx
               ELSE pc' = "initSub" /\ subIdx' = subIdx + 1
                    /\ UNCHANGED aInitialized
    /\ UNCHANGED <<sysVars, held, argHelp, argGame, installed, appExists,
                   shutdownRequested, gameLoaded, emulationRunning,
                   emulationPaused, signalsSent, handled>>

(***************************************************************************)
(* Run: with --game, LoadGame (the core's LoadGame may fail) and, when it  *)
(* loaded, StartEmulation (the core's StartEmulation may fail).            *)
(***************************************************************************)
Run ==
    /\ Goto("run", "loopTest")
    /\ aInitialized
    /\ \E loadOk, startOk \in BOOLEAN :
         /\ gameLoaded' = (argGame /\ loadOk)
         /\ emulationRunning' = (gameLoaded' /\ startOk)
         /\ emulationPaused' = FALSE
    /\ UNCHANGED <<sysVars, auVars, held, rvars, subIdx, argHelp, argGame, installed, appExists,
                   shutdownRequested, aInitialized, alive, signalsSent,
                   handled>>

\* Mutant: the loop never reads shutdown_requested_.
LoopTestIgnoresRequest ==
    /\ pc = "loopTest"
    /\ pc' = "iter"
    /\ UNCHANGED <<sysVars, auVars, held, rvars, subIdx, argHelp, argGame, installed, appExists,
                   shutdownRequested, aInitialized, gameLoaded,
                   emulationRunning, emulationPaused, alive, signalsSent,
                   handled>>

\* MainLoop: while (!shutdown_requested_).
LoopTest ==
    /\ pc = "loopTest"
    /\ pc' = IF shutdownRequested THEN "appShutdown" ELSE "iter"
    /\ UNCHANGED <<sysVars, auVars, held, rvars, subIdx, argHelp, argGame, installed, appExists,
                   shutdownRequested, aInitialized, gameLoaded,
                   emulationRunning, emulationPaused, alive, signalsSent,
                   handled>>

(***************************************************************************)
(* One iteration: input, frontend and core updates (external), then        *)
(* renderer_->BeginFrame(), the core's and frontend's Render, EndFrame()   *)
(* and Present(); then the FPS counter and the sleep, which change no      *)
(* modelled state.                                                          *)
(***************************************************************************)
Iterate ==
    /\ Goto("iter", "loopTest")
    /\ IF "renderer" \in alive THEN RenderFrame ELSE UNCHANGED rvars
    /\ UNCHANGED <<sysVars, auVars, held, subIdx, argHelp, argGame, installed, appExists,
                   shutdownRequested, aInitialized, gameLoaded,
                   emulationRunning, emulationPaused, alive, signalsSent,
                   handled>>

(***************************************************************************)
(* The audio calls of a dependent during an iteration: frontend_->Update() *)
(* always, eden_core_->Update() only while emulation runs unpaused.  What  *)
(* they call is not in the source, so each may create a stream and keep    *)
(* the pointer, destroy one it holds and forget it, or change a setting.   *)
(***************************************************************************)
Calling(c) ==
    /\ pc = "iter"
    /\ c \in alive
    /\ c = "core" => emulationRunning /\ ~emulationPaused

ClientAudio(c) ==
    /\ Calling(c)
    /\ \/ \E type \in StreamTypes, addr \in StreamAddrs :
             /\ CreateStream(type, addr)
             /\ held' = [held EXCEPT ![c] = @ \cup {addr}]
       \/ \E addr \in held[c] :
             /\ DestroyStream(addr)
             /\ held' = [held EXCEPT ![c] = @ \ {addr}]
       \/ /\ \/ \E v \in Volumes : SetMasterVolume(v)
             \/ \E m \in BOOLEAN : SetMute(m)
             \/ \E e \in BOOLEAN : Enable3DAudio(e)
          /\ UNCHANGED held
    /\ UNCHANGED <<sysVars, rvars, pc, subIdx, argHelp, argGame, installed, appExists,
                   shutdownRequested, aInitialized, gameLoaded,
                   emulationRunning, emulationPaused, alive, signalsSent,
                   handled>>

(***************************************************************************)
(* Shutdown, first part: StopEmulation if running, UnloadGame if loaded    *)
(* (which would stop emulation first), SaveSettings (logging only).        *)
(***************************************************************************)
\* Mutant: Shutdown neither stops emulation nor unloads the game.
AppShutdownKeepsRunning ==
    /\ Goto("appShutdown", "shutSub")
    /\ aInitialized
    /\ subIdx' = 1
    /\ UNCHANGED <<sysVars, auVars, held, rvars, argHelp, argGame, installed, appExists,
                   shutdownRequested, aInitialized, gameLoaded,
                   emulationRunning, emulationPaused, alive, signalsSent,
                   handled>>

AppShutdown ==
    /\ Goto("appShutdown", "shutSub")
    /\ aInitialized
    /\ emulationRunning' = FALSE
    /\ emulationPaused' = FALSE
    /\ gameLoaded' = FALSE
    /\ subIdx' = 1
    /\ UNCHANGED <<sysVars, auVars, held, rvars, argHelp, argGame, installed, appExists,
                   shutdownRequested, aInitialized, alive, signalsSent,
                   handled>>

(***************************************************************************)
(* The end of member s: s->Shutdown() then s.reset(), as                   *)
(* ShutdownSubsystems does, or only its destructor, as the exit after a    *)
(* failed Initialize does; the two agree, since each destructor calls its  *)
(* Shutdown when initialized_.  The renderer ends as RDestroy, the audio   *)
(* manager as AuShutdown when initialized.  The frontend and the core are  *)
(* not in the source: their Shutdown may or may not destroy the streams    *)
(* they hold, and their pointers to them go with them.                     *)
(***************************************************************************)
TearDown(s) ==
    /\ alive' = alive \ {s}
    /\ IF s = "renderer" THEN RDestroy ELSE UNCHANGED rvars
    /\ IF s = "audio" /\ auInitialized THEN AuShutdown
       ELSE IF s \in Dependents
         THEN \E freed \in {{}, held[s]} :
                /\ streams' = {x \in streams : x.addr \notin freed}
                /\ UNCHANGED <<auInitialized, outputDevices, inputDevices,
                               defaultOutput, defaultInput, masterVolume,
                               muted, audio3dEnabled, audio3dAvailable>>
       ELSE UNCHANGED auVars
    /\ held' = IF s \in Dependents THEN [held EXCEPT ![s] = {}] ELSE held

\* The member the k-th step of ShutdownSubsystems (or of the destruction of
\* PS5Application's members) ends, if it exists (if (eden_core_) ...).
EndMember(k) ==
    LET s == ShutdownOrder[k] IN
    IF s \in alive THEN TearDown(s) ELSE UNCHANGED <<rvars, auVars, alive, held>>

(***************************************************************************)
(* ShutdownSubsystems, one member per step, in reverse creation order;     *)
(* after the last one Shutdown clears initialized_.                        *)
(***************************************************************************)
ShutdownSubsystem ==
    /\ pc = "shutSub"
    /\ EndMember(subIdx)
    /\ IF subIdx = Len(ShutdownOrder)
         THEN pc' = "reset" /\ aInitialized' = FALSE /\ UNCHANGED subIdx
         ELSE pc' = "shutSub" /\ subIdx' = subIdx + 1
              /\ UNCHANGED aInitialized
    /\ UNCHANGED <<sysVars, argHelp, argGame, installed, appExists, shutdownRequested,
                   gameLoaded, emulationRunning, emulationPaused, signalsSent,
                   handled>>

(***************************************************************************)
(* main returned -1 after a failed Initialize: exit destroys g_ps5_app.    *)
(* ~PS5Application skips Shutdown (initialized_ is false) and the members  *)
(* are destroyed in reverse declaration order, one per step.               *)
(***************************************************************************)
Unwind ==
    /\ pc = "unwind"
    /\ EndMember(subIdx)
    /\ IF subIdx = Len(ShutdownOrder)
         THEN pc' = "exited" /\ UNCHANGED subIdx
         ELSE pc' = "unwind" /\ subIdx' = subIdx + 1
    /\ UNCHANGED <<sysVars, argHelp, argGame, installed, appExists, shutdownRequested,
                   aInitialized, gameLoaded, emulationRunning, emulationPaused,
                   signalsSent, handled>>

\* main: g_ps5_app.reset(), etahen.Shutdown() (no state modelled here),
\* then PS5System::Shutdown().
ResetApp ==
    /\ Goto("reset", "done")
    /\ appExists' = FALSE
    /\ SysShutdown
    /\ UNCHANGED <<auVars, held, rvars, subIdx, argHelp, argGame, installed,
                   shutdownRequested, aInitialized, gameLoaded,
                   emulationRunning, emulationPaused, alive, signalsSent,
                   handled>>

(***************************************************************************)
(* A SIGINT or SIGTERM.  Before signal() has run, the default action       *)
(* terminates the process.  Afterwards SignalHandler runs:                 *)
(* if (g_ps5_app) g_ps5_app->RequestShutdown(); -- otherwise nothing.      *)
(***************************************************************************)
Signal ==
    /\ pc \notin Terminal
    /\ signalsSent < MaxSignals
    /\ signalsSent' = signalsSent + 1
    /\ IF installed
         THEN /\ handled' = TRUE
              /\ shutdownRequested' = (shutdownRequested \/ appExists)
              /\ UNCHANGED pc
         ELSE /\ pc' = "killed"
              /\ UNCHANGED <<handled, shutdownRequested>>
    /\ UNCHANGED <<sysVars, auVars, held, rvars, subIdx, argHelp, argGame, installed, appExists,
                   aInitialized, gameLoaded, emulationRunning,
                   emulationPaused, alive>>

\* The process has ended; nothing happens any more.
Terminated ==
    /\ pc \in Terminal
    /\ UNCHANGED avars

MainStep ==
    \/ InstallHandlers
    \/ PlatformAndEtaHEN
    \/ CreateApp
    \/ ProcessCommandLine
    \/ InitSubsystem
    \/ Run
    \/ LoopTest
    \/ Iterate
    \/ AppShutdown
    \/ ShutdownSubsystem
    \/ Unwind
    \/ ResetApp

ANext == MainStep \/ (\E c \in Dependents : ClientAudio(c)) \/ Signal \/ Terminated

\* The main thread is always scheduled again (MainLoop's sleep_for ends);
\* signals come from outside and are not assumed to come at all.
ASpec == AInit /\ [][ANext]_avars /\ WF_avars(MainStep)

-----------------------------------------------------------------------------

Pcs == {"install", "platform", "create", "cmdline", "initSub", "run",
        "loopTest", "iter", "appShutdown", "shutSub", "unwind", "reset"} \cup Terminal

ATypeOK ==
    /\ RTypeOK
    /\ AuTypeOK
    /\ SysTypeOK
    /\ pc \in Pcs
    /\ subIdx \in 1..5
    /\ {argHelp, argGame, installed, appExists, shutdownRequested,
        aInitialized, gameLoaded, emulationRunning, emulationPaused,
        handled} \subseteq BOOLEAN
    /\ alive \subseteq Subsystems
    /\ signalsSent \in 0..MaxSignals
    /\ held \in [Dependents -> SUBSET StreamAddrs]

(***************************************************************************)
(* NoDanglingSubsystem: the frontend and the core are built with raw       *)
(* pointers to the renderer, audio and input managers; whenever one of     *)
(* them exists, all three it points to exist and the renderer is           *)
(* initialized.  It depends on the creation order of                       *)
(* InitializeSubsystems and the destruction order of ShutdownSubsystems.   *)
(***************************************************************************)
NoDanglingSubsystem ==
    alive \cap Dependents # {} =>
        /\ Providers \subseteq alive
        /\ rInitialized

(***************************************************************************)
(* EmulationNeedsCore: emulation only runs on a loaded game, with the core *)
(* and the renderer it draws through still alive.                          *)
(***************************************************************************)
EmulationNeedsCore ==
    emulationRunning => gameLoaded /\ {"core", "renderer"} \subseteq alive

(***************************************************************************)
(* ShutdownHonoured: once shutdown has been requested, the process         *)
(* reaches the end of main() (or has already exited).                      *)
(***************************************************************************)
ShutdownHonoured == shutdownRequested ~> (pc \in Terminal)

(***************************************************************************)
(* SignalStops: SIGINT and SIGTERM are caught to shut the emulator down    *)
(* ("Received signal ..., shutting down..."); once the handler has run,    *)
(* the process eventually ends.                                            *)
(***************************************************************************)
SignalStops == handled ~> (pc \in Terminal)

(***************************************************************************)
(* StreamsHeldOwned: every audio stream pointer the frontend or the core   *)
(* holds points to a stream the audio manager still owns, and no stream is *)
(* held by both.  It depends on the manager outliving its clients (the     *)
(* shutdown order) and on DestroyStream freeing exactly the stream given.  *)
(***************************************************************************)
StreamsHeldOwned ==
    /\ \A c \in Dependents : held[c] \subseteq Owned
    /\ held["frontend"] \cap held["core"] = {}

(***************************************************************************)
(* ReleasedAtExit: when main() has returned, whether normally or with -1   *)
(* after a subsystem failed part-way through InitializeSubsystems, every   *)
(* member is destroyed, the renderer and its GNM wrapper are shut down and *)
(* the audio manager has freed its streams; on the normal return the      *)
(* platform layer is shut down too.                                        *)
(***************************************************************************)
ReleasedAtExit ==
    /\ pc \in {"done", "exited"} =>
          /\ alive = {}
          /\ ~rInitialized /\ ~initialized
          /\ ~auInitialized /\ streams = {}
    /\ pc = "done" => ~sysInitialized /\ ~highPerformance

Members == INSTANCE MemberStack WITH Order <- InitOrder, members <- alive

(***************************************************************************)
(* MembersAsStack: PS5Application's members live as a stack -- created in  *)
(* declaration order, destroyed youngest first -- on the normal shutdown   *)
(* path and on the exit after a failed Initialize alike.                   *)
(***************************************************************************)
MembersAsStack == Members!MSpec

=============================================================================
