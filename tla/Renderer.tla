------------------------------ MODULE Renderer ------------------------------
(***************************************************************************)
(* PS5Renderer (src/eden-ps5/src_ps5/ps5_graphics/ps5_renderer.cpp): the   *)
(* initialization that creates a fresh GNMWrapper and allocates the three  *)
(* frame buffers through its bump allocator, the BeginFrame / EndFrame /   *)
(* Present cycle that rotates the frame buffers, and Shutdown.  The       *)
(* allocator state is that of GnmWrapper; allocs and live hold exactly the *)
(* frame buffers.                                                          *)
(*                                                                         *)
(* The command buffer, texture manager and shader compiler are not in the  *)
(* source: their Initialize results are a nondeterministic choice, their   *)
(* other calls change no modelled state.                                   *)
(***************************************************************************)
EXTENDS GnmWrapper, Integers

CONSTANTS
    DisplayWidth,   \* display_width_ (1920)
    DisplayHeight   \* display_height_ (1080)

\* MAX_FRAME_BUFFERS: triple buffering.
MaxFrameBuffers == 3
FrameIdx == 0..(MaxFrameBuffers - 1)

ASSUME DisplayAssumption ==
    /\ DisplayWidth \in 1..(NarrowMod - 1)
    /\ DisplayHeight \in 1..(NarrowMod - 1)

VARIABLES
    rInitialized,        \* PS5Renderer::initialized_
    hasWrapper,          \* gnm_wrapper_ != nullptr
    frameBuffers,        \* frame_buffers_[i].{color,depth}_buffer_addr
    currentFrame,        \* current_frame_ (uint32_t)
    currentFrameBuffer,  \* current_frame_buffer_
    presented            \* ghost: frame index handed to the last Present

gnmVars == <<initialized, deviceHandle, queueHandle, allocVars>>
rendererVars == <<rInitialized, hasWrapper, frameBuffers, currentFrame,
                  currentFrameBuffer, presented>>
rvars == <<gnmVars, rendererVars>>

NoFrame == -1

\* color_buffer_size and depth_buffer_size: width * height * 4 in uint32_t.
FrameBufferSize == (DisplayWidth * DisplayHeight * 4) % NarrowMod
FrameBufferNeed == DisplayWidth * DisplayHeight * 4

(***************************************************************************)
(* CreateFramebuffers on a fresh allocator at offset 0: six calls of       *)
(* AllocateGPUMemory(size, 4096), color then depth for i = 0, 1, 2.        *)
(* FbOffset[k] is the offset before the k-th call.  The "== 0" checks can  *)
(* never fire: every address is gpu_memory_base plus an offset below       *)
(* 2^32, which is neither 0 nor 2^64.                                      *)
(***************************************************************************)
FbOffset[k \in 0..(2 * MaxFrameBuffers)] ==
    IF k = 0 THEN 0
    ELSE NextOffset(FbOffset[k - 1], FrameBufferSize, TextureAlign)

FbAddress(k) == AllocAddress(FbOffset[k], TextureAlign)

FbAllocs == [k \in 1..(2 * MaxFrameBuffers) |->
                [addr |-> FbAddress(k - 1), need |-> FrameBufferNeed]]

ZeroFrame == [color |-> 0, depth |-> 0]

-----------------------------------------------------------------------------

RInit ==
    /\ Init
    /\ rInitialized = FALSE
    /\ hasWrapper = FALSE
    /\ frameBuffers = [i \in FrameIdx |-> ZeroFrame]
    /\ currentFrame = 0
    /\ currentFrameBuffer = 0
    /\ presented = NoFrame

(***************************************************************************)
(* PS5Renderer::Initialize.  gnm_wrapper_ = make_unique<GNMWrapper>()      *)
(* destroys the old wrapper and starts a fresh allocator at offset 0;      *)
(* GNMWrapper::Initialize succeeds.  Then the command buffer, texture      *)
(* manager and shader compiler each may fail (early return, initialized_   *)
(* stays false); InitializeGNM succeeds and CreateFramebuffers allocates   *)
(* the six buffers.                                                         *)
(***************************************************************************)
RInitializeFails ==
    /\ ~rInitialized
    /\ initialized' = TRUE
    /\ deviceHandle' = 1
    /\ queueHandle' = 1
    /\ gpuMemoryOffset' = 0
    /\ allocs' = <<>>
    /\ live' = {}
    /\ hasWrapper' = TRUE
    /\ UNCHANGED <<rInitialized, frameBuffers, currentFrame,
                   currentFrameBuffer, presented>>

RInitializeSucceeds ==
    /\ ~rInitialized
    /\ initialized' = TRUE
    /\ deviceHandle' = 1
    /\ queueHandle' = 1
    /\ gpuMemoryOffset' = FbOffset[2 * MaxFrameBuffers]
    /\ allocs' = FbAllocs
    /\ live' = 1..(2 * MaxFrameBuffers)
    /\ frameBuffers' = [i \in FrameIdx |->
                          [color |-> FbAddress(2 * i),
                           depth |-> FbAddress(2 * i + 1)]]
    /\ hasWrapper' = TRUE
    /\ rInitialized' = TRUE
    /\ UNCHANGED <<currentFrame, currentFrameBuffer, presented>>

(***************************************************************************)
(* PS5Renderer::Shutdown: WaitForIdle, DestroyFramebuffers (FreeGPUMemory  *)
(* is a no-op, the addresses are zeroed), the subsystem shutdowns, then    *)
(* gnm_wrapper_->Shutdown().  The wrapper object is kept.                  *)
(***************************************************************************)
\* Mutant: Shutdown forgets initialized_ = false.
RShutdownNoReset ==
    /\ rInitialized
    /\ frameBuffers' = [i \in FrameIdx |-> ZeroFrame]
    /\ live' = {}
    /\ initialized' = FALSE
    /\ deviceHandle' = 0
    /\ queueHandle' = 0
    /\ UNCHANGED <<rInitialized, gpuMemoryOffset, allocs, hasWrapper,
                   currentFrame, currentFrameBuffer, presented>>

RShutdown ==
    /\ rInitialized
    /\ frameBuffers' = [i \in FrameIdx |-> ZeroFrame]
    /\ live' = {}
    /\ initialized' = FALSE
    /\ deviceHandle' = 0
    /\ queueHandle' = 0
    /\ rInitialized' = FALSE
    /\ UNCHANGED <<gpuMemoryOffset, allocs, hasWrapper, currentFrame,
                   currentFrameBuffer, presented>>

(***************************************************************************)
(* The end of a renderer object: renderer_->Shutdown() then reset(), or    *)
(* only the destructor.  ~PS5Renderer calls Shutdown when initialized_;    *)
(* then the gnm_wrapper_ member is destroyed and ~GNMWrapper calls its     *)
(* Shutdown when the wrapper is still initialized, which is the case after *)
(* an Initialize that failed past GNMWrapper::Initialize.                  *)
(***************************************************************************)
\* Mutant: the wrapper of a renderer whose Initialize failed is not shut down.
RDestroyKeepsWrapper ==
    IF rInitialized THEN RShutdown ELSE UNCHANGED rvars

RDestroy ==
    IF rInitialized THEN RShutdown
    ELSE IF initialized THEN Shutdown /\ UNCHANGED rendererVars
    ELSE UNCHANGED rvars

\* PS5Renderer::BeginFrame: ++current_frame_ (a uint32_t), then
\* current_frame_buffer_ = current_frame_ % MAX_FRAME_BUFFERS.
NextFrame(cf) == (cf + 1) % NarrowMod
FrameSlot(cf) == cf % MaxFrameBuffers

\* Mutant: the frame is presented from frame_buffers_[current_frame_].
RenderFrameByFrame ==
    /\ hasWrapper
    /\ currentFrame' = NextFrame(currentFrame)
    /\ currentFrameBuffer' = FrameSlot(currentFrame')
    /\ presented' = currentFrame'
    /\ UNCHANGED <<gnmVars, rInitialized, hasWrapper, frameBuffers>>

\* BeginFrame has no guard.
BeginFrame ==
    /\ currentFrame' = NextFrame(currentFrame)
    /\ currentFrameBuffer' = FrameSlot(currentFrame')
    /\ UNCHANGED <<gnmVars, rInitialized, hasWrapper, frameBuffers, presented>>

\* PS5Renderer::EndFrame ends the command buffer and Present submits it:
\* no modelled state.  Present hands frame_buffers_[current_frame_buffer_]
\* to GNMWrapper::Present when gnm_wrapper_ exists.
Present ==
    /\ hasWrapper
    /\ presented' = currentFrameBuffer
    /\ UNCHANGED <<gnmVars, rInitialized, hasWrapper, frameBuffers,
                   currentFrame, currentFrameBuffer>>

\* BeginFrame, EndFrame and Present in a row, as MainLoop calls them.
RenderFrame ==
    /\ hasWrapper
    /\ currentFrame' = NextFrame(currentFrame)
    /\ currentFrameBuffer' = FrameSlot(currentFrame')
    /\ presented' = currentFrameBuffer'
    /\ UNCHANGED <<gnmVars, rInitialized, hasWrapper, frameBuffers>>

RNext ==
    \/ RInitializeFails
    \/ RInitializeSucceeds
    \/ RShutdown
    \/ BeginFrame
    \/ Present

RSpec == RInit /\ [][RNext]_rvars

-----------------------------------------------------------------------------

FrameBuffer == [color : 0..(WideMod - 1), depth : 0..(WideMod - 1)]

RTypeOK ==
    /\ TypeOK
    /\ rInitialized \in BOOLEAN
    /\ hasWrapper \in BOOLEAN
    /\ frameBuffers \in [FrameIdx -> FrameBuffer]
    /\ currentFrame \in 0..(NarrowMod - 1)
    /\ currentFrameBuffer \in FrameIdx
    /\ presented \in FrameIdx \cup {NoFrame}

\* The addresses the clients hold: the allocator's live allocations.
LiveAddrs == {allocs[i].addr : i \in live}

(***************************************************************************)
(* FrameBuffersLive: while the renderer is initialized, every color and    *)
(* depth buffer address it will hand to the GPU is an allocation of the    *)
(* current wrapper that nobody freed, and they are six distinct ones: no   *)
(* color buffer is another frame's color buffer or any frame's depth      *)
(* buffer, and no two frames share a depth buffer.                         *)
(***************************************************************************)
FrameBuffersLive ==
    rInitialized =>
        /\ \A i \in FrameIdx :
              {frameBuffers[i].color, frameBuffers[i].depth} \subseteq LiveAddrs
        /\ \A i, j \in FrameIdx :
              /\ frameBuffers[i].color # frameBuffers[j].depth
              /\ i # j => /\ frameBuffers[i].color # frameBuffers[j].color
                          /\ frameBuffers[i].depth # frameBuffers[j].depth

(***************************************************************************)
(* Rotation: triple buffering renders into the frame buffer after the one  *)
(* it used last, so each BeginFrame moves current_frame_buffer_ one slot   *)
(* on, cyclically.                                                          *)
(***************************************************************************)
Rotation ==
    [][BeginFrame =>
        currentFrameBuffer' = (currentFrameBuffer + 1) % MaxFrameBuffers]_rvars

=============================================================================
