# TLA+ models of the Eden PS5 port

This directory holds TLA+ models of the Eden PS5 porting layer under
`src/eden-ps5/src_ps5` and its headers under `src/unnamed`. It has TLC
configurations that check the models on small instances and TLAPS proofs that
hold for every value of the constants. `PROJECT.json` lists the components, the
runs, the mutants, the mapping from every definition to the source lines it
translates, the findings, the hazards and the theorems.

## The system

The port is a thin layer between an external emulator core and the console's
SDK. The parts that have state, and how they interact:

| Part | Source | State and operations |
|---|---|---|
| `main()` | `main_ps5/main.cpp` | It installs `SignalHandler` for SIGINT and SIGTERM, then initialises the platform and etaHEN. It then creates `g_ps5_app` and calls `Initialize`, `Run` and `Shutdown`, and finally resets the app and shuts etaHEN down. |
| `PS5Application` | `main_ps5/ps5_application.cpp` | `Initialize` creates and initialises five members in order: renderer, audio, input, frontend, core. The frontend and the core hold raw pointers to the first three. `Run` loads the game and starts emulation. `MainLoop` runs until the atomic `shutdown_requested_` is set. `Shutdown` stops emulation and unloads the game, then destroys the members in reverse order. |
| `PS5Renderer` | `ps5_graphics/ps5_renderer.cpp`, `unnamed/part_002` | `Initialize` creates a fresh `GNMWrapper` and allocates six frame buffers (colour and depth for each of 3 slots). `BeginFrame` increments the `uint32_t` `current_frame_` and picks slot `current_frame_ % 3`. `Present` hands that slot to the wrapper. `Shutdown` zeroes the addresses and shuts the wrapper down. |
| `GNMWrapper` | `ps5_graphics/gnm_wrapper.cpp` | It manages the device and queue handles. It also has a development-mode bump allocator `Impl::AllocateMemory` with base 2^32 and a 64-bit offset, aligned with a mask computed in 32 bits. `CreateBuffer` aligns to 256. `CreateTexture` aligns to 4096, with its size computed in 32 bits. `FreeGPUMemory` is a no-op. |
| `EtaHENPlugin` | `etahen_integration/etahen_plugin.cpp`, `unnamed/part_000` | It keeps flags (`initialized_`, `connected_`, `registered_`, `ftp_server_running_`, ...) and a TCP socket to the etaHEN daemon on port 9028. `SendIPCCommand` does one `send` and then one `recv` into a 1 KiB buffer; that is the whole protocol. |
| `PS5AudioManager` | `ps5_audio/ps5_audio_manager.cpp`, `unnamed/part_003` | `Initialize` enumerates the devices of the build (HDMI, headphones and microphone on the PS5, one mock device each way otherwise). `CreateOutputStream`/`CreateInputStream` create a stream on the default device, keep it in `streams_` and hand the caller a raw pointer. `DestroyStream` finds the stream by address and frees it. `Shutdown` frees every stream, then destroys the devices. |
| `PS5System` | `ps5_platform/ps5_system.h` (the implementation is in the header) | Three static flags. `Initialize` stores a placeholder `InitializeEtaHEN` result (always false). `Shutdown` releases high-performance mode. |
| `PS5InputManager` | `ps5_input/ps5_input_manager.h`, `unnamed/part_001` | Only its declaration is in the source. |

Concurrency exists in only one place: the signal handler, which runs
asynchronously to the main thread. The frontend and the core call into the
audio manager from the main loop (`frontend_->Update()` always,
`eden_core_->Update()` while emulation runs unpaused) and keep the stream
pointers they get; what they call is not in the source, so those calls are
nondeterministic. The etaHEN daemon is a separate process and
is modelled as part of the environment.

## Modules

| Module | Models | Variables correspond to |
|---|---|---|
| `GnmWrapper` | `GNMWrapper` and its allocator | `initialized`, `deviceHandle`, `queueHandle`, `gpuMemoryOffset`. Two ghosts: `allocs` (every returned address with the bytes its client needs there) and `live` (the allocations not yet freed). |
| `Renderer` (EXTENDS `GnmWrapper`) | `PS5Renderer` | `rInitialized`, `hasWrapper` (`gnm_wrapper_ != nullptr`), `frameBuffers`, `currentFrame`, `currentFrameBuffer`, and the ghost `presented`. |
| `AudioManager` | `PS5AudioManager` | `auInitialized`, the device sets and defaults, `streams` (a set of `[addr, type, dev]` records, one per owned stream), `masterVolume` in hundredths, `muted`, `audio3dEnabled`, `audio3dAvailable`. Streams are named by an address from `StreamAddrs`, so a freed address can be handed out again. `AuSpec` is the manager alone under any sequence of calls. |
| `PS5System` | `PS5System` | `sysInitialized`, `etahenAvailable`, `highPerformance`. |
| `Application` (EXTENDS `Renderer`, `AudioManager`, `PS5System`) | `main()`, `PS5Application`, `SignalHandler` and the audio calls of the frontend and the core | A program counter `pc` over main's statements, and `subIdx` for the two subsystem loops. `appExists` is `g_ps5_app != nullptr` and `alive` is the set of constructed members. The `PS5Application` flags are kept, along with `signalsSent`, the ghost `handled` and the ghost `held` (the stream addresses each client holds). The renderer's, the audio manager's and the platform's own actions are called from its steps: `InitSubsystem` calls `RInitialize*` or `AuInitialize`, `TearDown` calls `RDestroy` or `AuShutdown`, `PlatformAndEtaHEN` calls `SysInitialize` and `ResetApp` calls `SysShutdown`. |
| `MemberStack` | the abstract lifetime of a class's members | `members`, the set of members alive. It is always `Prefix(m)`, the first `m` members of `Order`. `Construct` goes from `Prefix(m)` to `Prefix(m+1)`, and `DestroyYoungest` goes from `Prefix(m)` to `Prefix(m-1)`. |
| `EtaHenPlugin` | `EtaHENPlugin` (PS5 build), with the daemon as environment | The plugin's flags, and `sock` (`ipc_socket_`). Three socket sets: `nextConn`, `open` and `peerClosed`. Two streams per socket: `req` (commands the daemon has not read) and `rsp` (reply pieces the client has not read). The caller's position is `cpc`/`waitCmd`/`cont`, and `lastResp` is a ghost. |
| `GnmWrapperProofs` | TLAPS proofs about `GnmWrapper` | |
| `AudioManagerProofs` | TLAPS proofs about `AudioManager` | |
| `ApplicationProofs` | TLAPS proofs about `Application` | |
| `RendererProofs` | TLAPS proofs about `Renderer` (EXTENDS `GnmWrapperProofs`) | Where `CreateFramebuffers`' six allocations land, and the renderer invariant `RIInv`. |
| `ApplicationFrameProofs` | TLAPS proofs about `Application` (EXTENDS `ApplicationProofs`, `RendererProofs`, `AudioManagerProofs`) | The renderer's and the audio manager's invariants inside the process, and `ATypeOK`. |
| `EtaHenPluginProofs` | TLAPS proofs about `EtaHenPlugin` | |

Correspondence rules used throughout:

- **Integer widths are kept.** `NarrowMod` stands for 2^32 and `WideMod` for 2^64. Each arithmetic step reduces modulo the width the C++ computes it in.
- **The alignment mask.** For a power-of-two `a`, the mask `y & ~(a-1)`, with `~(a-1)` computed in 32 bits, equals `(y mod 2^32)` rounded down to a multiple of `a`. This is `AlignedOffset`.
- **Small constants stand for the large ones.** The configs use `NarrowMod = 64`, `128` or `256`, with alignments 2 and 8 standing for 256 and 4096. The assumptions the proofs use hold for the real values as well as the small ones. These are `IsPowerOfTwo` and `NarrowMod * NarrowMod <= WideMod`.
- **A whole handler is one action.** The exception is a handler that blocks or gives way to another actor in the middle. `Application` splits main into the statements between which a signal can matter. `EtaHenPlugin` splits `SendIPCCommand` at `recv()`, where the caller blocks while the daemon runs, and splits `Shutdown` at each of its `SendIPCCommand`s.
- **External results are nondeterministic.** These are the external collaborators' results (core, frontend, command buffer, texture manager, shader compiler, input manager) and the daemon's behaviour.
- **Two ways a member ends.** `ShutdownSubsystems` calls each member's `Shutdown()` and then `reset()`. After a failed `Initialize`, `main` returns -1. The static `g_ps5_app` is then destroyed: `~PS5Application` skips `Shutdown` because `initialized_` is false, and the members' destructors run in reverse declaration order. Each destructor calls its own `Shutdown` when initialised (`~PS5Renderer`, `~GNMWrapper`, `~PS5AudioManager`), so both paths end a member through `TearDown`. The normal path is `ShutdownSubsystem` and the failure path is `Unwind`.
- **Refinement.** `Application` implements `MemberStack`'s `MSpec` under the mapping `Order <- InitOrder, members <- alive` (`INSTANCE MemberStack WITH ...`). Every step of `Application` does one of three things to `alive`. It adds the next member in declaration order, or removes the youngest, or leaves `alive` as it is. The members of `InitOrder` are distinct, so a prefix set determines the order of its members, and a set is as faithful as a stack would be.

## Runs

| Run | Config | Expect | What it shows |
|---|---|---|---|
| `gnm_alloc` | `GnmWrapper.cfg` | pass | Allocations stay below the 32-bit limit (4 allocations of at most 16 bytes with `NarrowMod = 64`). In any order of create, destroy, initialise and shutdown, live allocations never overlap (`NoOverlap`). |
| `gnm_wrap` | `GnmWrapperWrap.cfg` | violation | Three 30-byte buffers carry the offset past 64. The third address wraps to the base and overlaps the first. |
| `gnm_texsize` | `GnmWrapperTexSize.cfg` | violation | A 4x4 texture is 64 = `NarrowMod` bytes and is truncated to 0. The next buffer gets the same address. |
| `renderer_wrap` | `RendererWrap.cfg` | violation | With a 64-value counter, `BeginFrame` at the wrap goes from slot 0 to slot 0 (`Rotation`). |
| `application` | `Application.cfg` | pass | Every command line, every subsystem failure, the audio calls of the frontend and the core, and up to two signals at any point. The six frame-buffer addresses are distinct live allocations (`FrameBuffersLive`); that live allocations do not overlap is `gnm_alloc`'s question, and `NoOverlapHolds` proves it of the process. Dependents never outlive what they point to (`NoDanglingSubsystem`). Emulation runs only on a live core (`EmulationNeedsCore`). Every stream pointer a client holds is owned by the manager and by no other client (`StreamsHeldOwned`). Owned streams are on live devices with unique addresses (`StreamsOnLiveDevices`). On both exits every member is released, the wrapper and the audio manager shut down, and on the normal exit the platform too (`ReleasedAtExit`). The members live as a stack (`MembersAsStack`, the refinement). A requested shutdown ends the process (`ShutdownHonoured`). |
| `app_signal` | `ApplicationSignal.cfg` | violation | A signal that arrives after `signal()` but before `g_ps5_app` exists is dropped, and the process never ends (`SignalStops`). |
| `etahen_api` | `EtaHenPluginApi.cfg` | pass | Five calls of any public function, two descriptors, one daemon crash, and replies in one piece. Every response belongs to its own command (`ReplyIsOwn`). |
| `etahen_main` | `EtaHenPluginMain.cfg` | pass | main's four calls, repeated in any order, with three descriptors and a crash. `connected_` always has a socket and no socket leaks (`ConnectionConsistent`). |
| `etahen_split` | `EtaHenPluginSplit.cfg` | violation | Replies in two pieces break `ReplyIsOwn` with main's own calls. The sequence is: REGISTER's first piece, then RequestJailbreak reading the second. |
| `etahen_eof` | `EtaHenPluginEof.cfg` | violation | The daemon crashes before answering REGISTER. `recv()` returns 0 and registration "succeeds" with no reply (`SuccessHadReply`). |
| `etahen_ftp` | `EtaHenPluginFtp.cfg` | violation | StartFTPServer, DisconnectFromEtaHEN, Shutdown: `ftp_server_running_` survives Shutdown (`FtpStoppedAtShutdown`). |
| `etahen_reconnect` | `EtaHenPluginReconnect.cfg` | violation | ConnectToEtaHEN while connected leaks the first socket (`ConnectionConsistent`). |

**Why the bounds are enough.**
- **Allocator.** Every case of the arithmetic is reached:
  - aligned and unaligned offsets;
  - sizes smaller and larger than the alignment;
  - the wrap itself (in the violation runs);
  - the truncation itself (in the violation runs).
- **Application.** Each of the 12 main-thread positions and each subsystem failure is reached with and without a signal. The renderer is re-created after a failure. Two stream addresses let both clients hold a stream at once and let a freed address be reused by the other client. The two volumes lie inside and outside the clamp range. `NarrowMod = 128` keeps the run near a minute and makes the instance one the frame-buffer theorems cover (`FbFits`: six 4-byte buffers, each with its 8-byte alignment slack, fit in 128); the frame counter does not wrap within the loop's reach, and the wrap is `renderer_wrap`'s business.
- **etaHEN.**
  - Five calls reach Connect while connected, a call after a disconnect, and Shutdown with each of its early returns.
  - Two descriptors reach both a reconnect and socket exhaustion.
  - One crash reaches every point of a request/response exchange.

**Fairness.** `Application` assumes only `WF(MainStep)`. The main thread is always scheduled again, since `MainLoop` sleeps but never waits on anything. Signals come from outside and are not assumed fair. `EtaHenPlugin` is checked for safety only and has no fairness.

Each property of a passing run has a mutant in `PROJECT.json`: a plausible bug in one mapped definition that makes TLC report the property violated. The mutants are defined next to the definitions they replace, for example:
- `NextOffsetNoSize`: the offset is not advanced past the allocation;
- `ShutdownOrderForward`: the members are destroyed in creation order;
- `LoopTestIgnoresRequest`: the loop never reads `shutdown_requested_`;
- `DestroyStreamFront`: `DestroyStream` erases some stream other than the one it found;
- `RDestroyKeepsWrapper`: `~PS5Renderer` of an uninitialised renderer leaves the `GNMWrapper` it created initialised;
- `AuShutdownKeepsStreams`: `Shutdown` destroys the devices but keeps the streams;
- `UnregisterFromEtaHENNoRecv`: the reply is never read;
- `ShutDiscNoClose`: `ipc_socket_` is set to -1 without `close()`.

## Findings

1. **Mask bug** (`gnm_wrapper.cpp:30`). `~(alignment - 1)` is a `uint32_t`. Zero-extended to 64 bits, it clears the high half of the offset. After 4 GiB of cumulative allocation, addresses alias live memory. Reaching it takes 4 GiB of `CreateBuffer`/`CreateTexture` requests through one wrapper, because `FreeGPUMemory` reclaims nothing; `Initialize` builds a fresh wrapper at offset 0 and runs once per process, so re-initialisation does not bring it closer.
2. **Texture size** (`gnm_wrapper.cpp:230`). `width * height * 4` is computed in 32 bits.
3. **Frame rotation at the counter wrap** (`ps5_renderer.cpp:194`). 2^32 ≡ 1 (mod 3), so slot 0 is used twice in a row.
4. **Lost signal** (`main.cpp:18`). The handler ignores signals that arrive before `g_ps5_app` is created. That window includes the etaHEN connect and IPC round trips.
5. **IPC without framing** (`etahen_plugin.cpp:352`). One `recv()` is taken as the response; the spec describes a length-prefixed exchange.
6. **EOF counted as success** (`etahen_plugin.cpp:353`).
7. **FTP flag left set by Shutdown** (`etahen_plugin.cpp:312`).
8. **Socket leak on reconnect** (`etahen_plugin.cpp:148`).

## Proofs

`GnmWrapperProofs` proves `TypeCorrect`, `Spec => []TypeOK`, for every value of the constants allowed by `WidthAssumption`, `AlignAssumption` and `InputAssumption`. `TypeOK` is inductive as it stands. The argument rests on three lemmas:
- `WidthFacts`: the widths are positive and `NarrowMod <= WideMod`.
- `AlignedOffsetRange`: the masked offset is below 2^32, whatever the 64-bit offset.
- `AllocatePreservesType`: one allocation keeps the offset within 64 bits and appends a well-formed allocation.

The theorem has one step per action.

`NoOverlapBelowWrap` proves `Spec => []NoOverlap` under the hypothesis `NoWrap(step)`. The hypothesis says every buffer or texture request, plus its alignment, fits in `step` bytes, and `MaxAllocs * step <= 2^32`. The runs show that without such a bound `NoOverlap` is false (findings 1 and 2). `NoOverlap` is not inductive by itself: a new allocation must be shown to miss every allocation still held, whatever was destroyed. The proof therefore uses the strengthening `IInv(step)`, which was first checked with TLC as an invariant on a 64-byte instance. It says:
- the offset is at most `Len(allocs) * step`;
- every allocation ever made lies between the base and `GpuMemoryBase + gpuMemoryOffset`;
- allocations lie in the order they were made, each ending before the next begins.

The argument rests on two lemmas:
- `AlignUp`: below 2^32 the 32-bit mask only rounds the offset up, by less than the alignment.
- `AllocateKeepsIInv`: below the bound, the address does not wrap, `CreateTexture`'s 32-bit size is exact, and the new allocation starts at or after the old offset and ends at the new one.

`AudioManagerProofs` proves `StreamsOnLiveDevicesHolds`, `AuSpec => []StreamsOnLiveDevices`, for every build, every set of addresses and every set of volumes (`AudioAssumption`). The property alone is not inductive, for two reasons. `CreateStream` binds the new stream to the default device, so that device must be live. `AuInitialize` replaces the device lists, so no stream may survive into an uninitialised manager. The strengthening `AuIInv` (checked with TLC on both builds first) adds:
- when initialised, each default device is in its list;
- when not initialised, both defaults are null and there are no streams.

The lemmas are `AuIInvInit` and `AuIInvNext` (one step per call), with `CreateStreamKeepsIInv` for the one call that adds a stream. `Application` runs the same actions, and the `application` run checks `StreamsOnLiveDevices` there too.

`ApplicationProofs` proves five theorems about the whole process: `main()`, `PS5Application`, the signal handler, the renderer, the audio manager and the platform layer, with the frontend and the core as audio clients. They hold for every value of the constants. The process always gives the members a lifetime in step with `main`'s program counter. The components always follow their members. Neither fact is visible in one state of `NoDanglingSubsystem` or `ReleasedAtExit` alone, so the proofs rest on the inductive invariant `AppIInv`. It was checked with TLC as an invariant on both `Application` instances first, and it says:
- `Lifetimes`: no member exists before `InitializeSubsystems` or after the reset of `g_ps5_app`. The first `subIdx - 1` members exist while they are created. All five exist from `Run` to `Shutdown`. The first `6 - subIdx` exist while `ShutdownSubsystems` runs. At most that many exist while the exit after a failed `Initialize` unwinds them. Before the signal handlers are installed, `main` is at its first statement or killed.
- `Components`: a dead renderer means a shut-down renderer and GNM wrapper, and a live audio manager means an initialised renderer. The other direction does not hold: a failed renderer `Initialize` leaves the wrapper initialised until the unwind destroys it. A dead audio manager is uninitialised, and an uninitialised one owns no stream. A dead client holds no stream. Emulation runs only on a loaded game from the loop to `Shutdown`. High performance mode is never held, and after the reset the platform is shut down.
- `StreamsHeldOwned` itself.

`AppIInvInit` and `AppIInvNext` show that `AppIInv` is inductive. `AppIInvNext` has one lemma per group of actions:
- `PcStepsKeepIInv` covers the statements that only move `pc`.
- `InitSubsystemKeepsIInv` covers creating a member. The prefix grows, and `main` goes on past the renderer only when it initialised.
- `ShutdownStepsKeepIInv` covers both shutdown paths, through `EndMemberKeepsMembers`. If the member the next step ends is alive, it is the youngest. Ending it keeps every component tied to its member. This holds for the renderer's `RDestroy`, the audio manager's `AuShutdown`, and a client freeing some of its streams.
- `ClientAudioKeepsIInv` covers the frontend's and the core's audio calls. A new stream's address is unowned and so held by no one. A destroyed stream was held by the caller alone.
- `OtherStepsKeepIInv` covers a frame, the reset, a signal and the final stutter.

From `AppIInvHolds` (`ASpec => []AppIInv`), four theorems follow:
- `NoDanglingSubsystemHolds`: the members alive are a prefix of the declaration order (`AliveIsPrefix`). A prefix holding a client also holds the three providers (`DependentsNeedProviders`).
- `EmulationNeedsCoreHolds`.
- `StreamsHeldOwnedHolds`.
- `ReleasedAtExitHolds`.

`MembersAsStackHolds` proves the refinement `ASpec => MembersAsStack`. `AInit` maps to `MInit`, and `AliveSteps` shows that every step of the process is a `Construct`, a `DestroyYoungest` or a stutter of `alive`.

`EtaHenPluginProofs` proves three theorems about the etaHEN plugin and its daemon. They cover any calls in any order, daemon crashes and restarts, and every bound. The proofs use three inductive invariants, each checked first with TLC as an invariant: on the `etahen_api` instance, and on an instance with every call except `ConnectToEtaHEN`.
- `EtTypeCorrect` (`EtSpec => []EtTypeOK`). It rests on `TypeIInv`, which is `EtTypeOK` plus one fact: while the caller waits in `recv()`, `ipc_socket_` is a socket and the pending command is a real one. The step lemmas go by group: the commands (`CallerStepsType`), `Shutdown`'s three steps, the connect steps, `RecvType`, and the daemon's steps.
- `ConnectionConsistentHolds`. Its hypothesis is that `ConnectToEtaHEN` is not among the calls, which holds for main's calls. With `ConnectToEtaHEN` the property is false (`etahen_reconnect`). The invariant `ConnIInv` says:
  - the open sockets are exactly `{sock}` when connected, and none otherwise;
  - an uninitialised plugin outside `recv()` is not connected;
  - while waiting, `initialized_` is set unless the pending command is `Initialize`'s REGISTER;
  - inside `Shutdown`, `initialized_` is set.

  Together these show that `Initialize` only connects when nothing is open. They also show that the end of `Shutdown` and `DisconnectFromEtaHEN` close the one open socket.
- `ReplyIsOwnHolds`. Its hypothesis is `ReplySegments = 1`: each reply reaches the client in one piece. With two pieces the property is false (`etahen_split`). The invariant `ReplyIInv` says that a connection the daemon has not closed carries at most the pending command, or its whole reply. That happens only on `ipc_socket_` while the caller waits. A closed connection may keep unread commands, but any reply on it is the pending command's. Outside `recv()` nothing is pending anywhere (`Quiet`, by `QuietIfNotWait`). From there `SendIPCCommand` leaves only its own command in flight (`SendReply`). `DaemonServeReply` turns the command into its reply. `DaemonCrashReply` closes the sockets and keeps the reply. `RecvReplyReply` reads the whole reply, by `ReplyOne`, and leaves nothing pending.

`RendererProofs` is about `PS5Renderer::CreateFramebuffers`. The six offsets are those of the recursive function `FbOffset`. Its defining equation is taken from an explicit solution, the six calls written out one after the other (`FbOffsetUnfold`), so no induction is needed. The six allocations lie one after the other below 2^32 under one hypothesis on the constants, `FbFits`: six times the buffer size plus the alignment fit in 2^32. It is true of 1920x1080 (about 50 MB against 4 GiB). Without it the property is false. A display of 2^30 pixels makes `width * height * 4` wrap to 0 in 32 bits, and all six buffers get the same address. The arithmetic of one allocation is stated over plain integers in `SlotArith`. `FbStepFits` applies it: the mask rounds the offset up by less than the alignment, and the size is added without a wrap. `FbLayout` chains six such steps, and `FbOrdered` gives each address as `gpu_memory_base` plus its start, every buffer ending before the next begins. The renderer invariant `RIInv` says:

- `RTypeOK` holds;
- the live allocations are the six buffers while the renderer is initialised, and none otherwise;
- while initialised, `allocs` is `FbAllocs` and `frame_buffers_` holds their addresses (`FbFrames`).

It was first checked with TLC as an invariant of the `application` instance. It is needed because `FrameBuffersLive` reads `frame_buffers_` and `NoOverlap` reads the allocations: neither says which allocations exist. Its step lemmas cover each renderer call: the two outcomes of `Initialize`, `Shutdown`, the three forms of `RDestroy`, one frame, `BeginFrame`, `Present` and a step that leaves the renderer alone. `RIInvFrameBuffersLive` and `RIInvNoOverlap` derive the two properties from `RIInv` and `FbFits`.

`ApplicationFrameProofs` carries those invariants into the process. `ANextRenderer` shows that every process step is one of the renderer calls (`RendererCall`). `ANextAudio` shows that every step is an `AuNext` call, or the frees of a dependent being destroyed (`FreeStreams`). Given `AppIInv`, a destroyed stream's address is one of `StreamAddrs`. The inductive invariant `ProcIInv` is `AppIInv /\ RIInv /\ AuIInv /\ AppTypes`. `AppTypes` holds the types of the remaining flags and of `signalsSent`. It was first checked with TLC on the `application` instance (866,664 states). The module proves:
- `FrameBuffersLiveHolds`: `FbFits => (ASpec => []FrameBuffersLive)`.
- `NoOverlapHolds`: `FbFits => (ASpec => []NoOverlap)`.
- `StreamsOnLiveDevicesInProcess`: `ASpec => []StreamsOnLiveDevices`, whatever the clients do.
- `ATypeOKHolds`: `ASpec => []ATypeOK`.

These are checked only by TLC, because they are out of the provers' reach:
- Liveness (`ShutdownHonoured`, `SignalStops`).
- `NoOverlap` beyond the `NoWrap` bound, where it is false (findings 1 and 2).
- `FrameBuffersLive` and `NoOverlap` of the process for displays beyond `FbFits`. There the wrap breaks them, so no theorem can hold. TLC's `application` instance lies inside the bound.

## Not modelled

- **The input manager.** Only its class declaration is in the source: there is no behaviour to translate. `Application` treats its `Initialize` as an external call that may fail.
- **What the audio clients do.** The frontend's and the core's audio calls are not in the source. They are modelled as any create, destroy of a held stream, or setter, during a loop iteration.
- **A NaN volume.** `std::clamp` passes NaN through to `master_volume_`. Volumes are integers in hundredths here.
- **`PS5System`'s high-performance pair.** It is modelled but never called.
- **A signal while the static `g_ps5_app` is destroyed at exit.** libstdc++'s `~unique_ptr` deletes the object before nulling the pointer, so the handler could call `RequestShutdown` on an object under destruction. The handler is modelled as one atomic step (hazard at `main.cpp:98`).
- **External collaborators.** The emulator core, the frontend, the command buffer, the texture manager, the shader compiler and the SDK are not in the source. They appear only as nondeterministic results.
- **`SetDisplayMode` after `Initialize`, and `Pause`/`Resume`/`SaveState`/`LoadState`.** Nothing in the source calls them.
- **Signals other than SIGINT and SIGTERM.** This includes SIGPIPE from `send` on a reset socket, which would kill the process.
- **A daemon that accepts a connection and never answers.** That would block `recv()` forever.

## Plan for the next sittings

1. Write an abstract triple-buffer specification and show `Renderer` refines it, with the counter below its wrap.
2. Compose etaHEN's `Initialize` into `Application`'s `PlatformAndEtaHEN` step. That composition would show the blocking `recv()` inside the lost-signal window.
