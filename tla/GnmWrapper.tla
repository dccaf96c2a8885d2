----------------------------- MODULE GnmWrapper -----------------------------
(***************************************************************************)
(* GNMWrapper (src/eden-ps5/src_ps5/ps5_graphics/gnm_wrapper.cpp): the     *)
(* device/queue lifecycle and the development-mode GPU bump allocator      *)
(* Impl::AllocateMemory, with the callers CreateBuffer (256-byte           *)
(* alignment) and CreateTexture (page alignment, size computed in 32-bit   *)
(* arithmetic).  Integers keep their width: the model machine has a        *)
(* "uint32" of NarrowMod values and a "uint64" of WideMod values.          *)
(*                                                                         *)
(* The clients' view is a ghost: allocs is the sequence of every address   *)
(* the allocator returned with the number of bytes the client needs        *)
(* there, and live the indices the clients still hold.  FreeGPUMemory is   *)
(* a no-op in the code, so freeing only drops an index from live.          *)
(***************************************************************************)
EXTENDS Naturals, Sequences

CONSTANTS
    NarrowMod,      \* 2^32: the values of a uint32_t
    WideMod,        \* 2^64: the values of a uint64_t and a size_t
    BufferAlign,    \* alignment CreateBuffer passes (256)
    TextureAlign,   \* alignment CreateTexture and the frame buffers pass (4096)
    BufferSizes,    \* sizes a client may pass to CreateBuffer
    TexDims,        \* widths and heights a client may pass to CreateTexture
    MaxAllocs       \* bound on the number of allocations in a behaviour

\* n is a power of two: it has no odd divisor but 1.
IsPowerOfTwo(n) == n \in Nat \ {0} /\ \A d \in 1..n : (n % d = 0 /\ d % 2 = 1) => d = 1

\* Impl::gpu_memory_base is 0x100000000, i.e. 2^32.
GpuMemoryBase == NarrowMod

ASSUME WidthAssumption ==
    /\ NarrowMod \in Nat \ {0, 1}
    /\ WideMod \in Nat \ {0}
    /\ NarrowMod * NarrowMod <= WideMod

ASSUME AlignAssumption ==
    /\ BufferAlign \in 1..NarrowMod
    /\ TextureAlign \in 1..NarrowMod

ASSUME InputAssumption ==
    /\ BufferSizes \subseteq 1..(WideMod - 1)
    /\ TexDims \subseteq 1..(NarrowMod - 1)
    /\ MaxAllocs \in Nat

\* What the code's callers pass, and the bit masks rely on; checked by TLC.
ASSUME PowerOfTwoAssumption ==
    /\ IsPowerOfTwo(NarrowMod)
    /\ IsPowerOfTwo(BufferAlign)
    /\ IsPowerOfTwo(TextureAlign)

VARIABLES
    initialized,      \* GNMWrapper::initialized_
    deviceHandle,     \* Impl::device_handle (context_handle moves with it)
    queueHandle,      \* Impl::command_queue_handle
    gpuMemoryOffset,  \* Impl::gpu_memory_offset
    allocs,           \* ghost: <<[addr, need]>> of every allocation returned
    live              \* ghost: indices of allocs the clients still hold

allocVars == <<gpuMemoryOffset, allocs, live>>
vars == <<initialized, deviceHandle, queueHandle, allocVars>>

Alloc == [addr : 0..(WideMod - 1), need : Nat]

(***************************************************************************)
(* Impl::AllocateMemory.  (gpu_memory_offset + alignment - 1) is computed  *)
(* in 64 bits, but ~(alignment - 1) is computed in 32 bits and then        *)
(* zero-extended, so the mask also clears every bit above bit 31: for a    *)
(* power-of-two alignment a, y & ~(a-1) is (y mod 2^32) rounded down to a  *)
(* multiple of a.                                                           *)
(***************************************************************************)
AlignedOffset(off, a) ==
    LET y == (off + a - 1) % WideMod
    IN  (y % NarrowMod) - ((y % NarrowMod) % a)

AllocAddress(off, a) == (GpuMemoryBase + AlignedOffset(off, a)) % WideMod

\* Mutant: the offset is not advanced past the allocation.
NextOffsetNoSize(off, size, a) == AlignedOffset(off, a) % WideMod

NextOffset(off, size, a) == (AlignedOffset(off, a) + size) % WideMod

(***************************************************************************)
(* AllocateGPUMemory(size, alignment) as a step: the allocator bumps its   *)
(* offset, and the client now holds [address, need] where need is what it  *)
(* will use (it differs from size when the caller truncated the size).     *)
(***************************************************************************)
\* Mutant: the client's index is off by one.
AllocateOffByOne(size, a, need) ==
    /\ Len(allocs) < MaxAllocs
    /\ gpuMemoryOffset' = NextOffset(gpuMemoryOffset, size, a)
    /\ allocs' = Append(allocs, [addr |-> AllocAddress(gpuMemoryOffset, a),
                                 need |-> need])
    /\ live' = live \cup {Len(allocs)}

Allocate(size, a, need) ==
    /\ Len(allocs) < MaxAllocs
    /\ gpuMemoryOffset' = NextOffset(gpuMemoryOffset, size, a)
    /\ allocs' = Append(allocs, [addr |-> AllocAddress(gpuMemoryOffset, a),
                                 need |-> need])
    /\ live' = live \cup {Len(allocs) + 1}

\* CreateTexture's size: width * height * 4 in uint32_t arithmetic.
TextureSize(w, h) == (w * h * 4) % NarrowMod

-----------------------------------------------------------------------------

Init ==
    /\ initialized = FALSE
    /\ deviceHandle = 0
    /\ queueHandle = 0
    /\ gpuMemoryOffset = 0
    /\ allocs = <<>>
    /\ live = {}

\* GNMWrapper::Initialize: InitializeDevice and CreateCommandQueue set
\* their placeholder handles to 1 and succeed in both builds.
Initialize ==
    /\ ~initialized
    /\ initialized' = TRUE
    /\ deviceHandle' = 1
    /\ queueHandle' = 1
    /\ UNCHANGED allocVars

\* GNMWrapper::Shutdown: WaitForIdle, DestroyCommandQueue, ShutdownDevice.
\* The allocator offset is not reset.
Shutdown ==
    /\ initialized
    /\ initialized' = FALSE
    /\ deviceHandle' = 0
    /\ queueHandle' = 0
    /\ UNCHANGED allocVars

\* GNMWrapper::CreateBuffer(size, usage): AllocateGPUMemory(size, 256).
\* No check of initialized_ precedes an allocation.
CreateBuffer(size) ==
    /\ Allocate(size, BufferAlign, size)
    /\ UNCHANGED <<initialized, deviceHandle, queueHandle>>

\* GNMWrapper::CreateTexture(w, h, ...): AllocateGPUMemory(w*h*4, 4096);
\* the texture needs w*h*4 bytes whatever the truncated size was.
CreateTexture(w, h) ==
    /\ Allocate(TextureSize(w, h), TextureAlign, w * h * 4)
    /\ UNCHANGED <<initialized, deviceHandle, queueHandle>>

\* DestroyBuffer / DestroyTexture -> FreeGPUMemory: nothing is reclaimed.
Destroy(i) ==
    /\ i \in live
    /\ live' = live \ {i}
    /\ UNCHANGED <<initialized, deviceHandle, queueHandle,
                   gpuMemoryOffset, allocs>>

Next ==
    \/ Initialize
    \/ Shutdown
    \/ \E s \in BufferSizes : CreateBuffer(s)
    \/ \E w, h \in TexDims : CreateTexture(w, h)
    \/ \E i \in live : Destroy(i)

Spec == Init /\ [][Next]_vars

-----------------------------------------------------------------------------

TypeOK ==
    /\ initialized \in BOOLEAN
    /\ deviceHandle \in {0, 1}
    /\ queueHandle \in {0, 1}
    /\ gpuMemoryOffset \in 0..(WideMod - 1)
    /\ allocs \in Seq(Alloc)
    /\ live \subseteq 1..Len(allocs)

\* The bytes [addr, addr + need) of allocations i and j are disjoint.
Disjoint(i, j) ==
    \/ allocs[i].addr + allocs[i].need <= allocs[j].addr
    \/ allocs[j].addr + allocs[j].need <= allocs[i].addr

(***************************************************************************)
(* NoOverlap: two allocations the clients still hold never share a byte.   *)
(* It is what a bump allocator that never reclaims memory promises, and    *)
(* it breaks if the alignment arithmetic, the offset update or a caller's  *)
(* size computation is wrong.                                              *)
(***************************************************************************)
NoOverlap ==
    \A i, j \in live : i # j => Disjoint(i, j)

=============================================================================
