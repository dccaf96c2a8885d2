--------------------------- MODULE RendererProofs ---------------------------
(***************************************************************************)
(* Facts about PS5Renderer's CreateFramebuffers: where the six allocations *)
(* of FbOffset land.  FbOffset is a recursive function on 0..6, so its     *)
(* defining equation is obtained from an explicit solution.                *)
(***************************************************************************)
EXTENDS Renderer, GnmWrapperProofs

\* One CreateFramebuffers allocation: the offset after it.
FbStep(off) == NextOffset(off, FrameBufferSize, TextureAlign)

\* The frame buffers CreateFramebuffers fills in, color then depth.
FbFrames == [i \in FrameIdx |-> [color |-> FbAddress(2 * i),
                                 depth |-> FbAddress(2 * i + 1)]]

(***************************************************************************)
(* The six buffers fit below 2^32 with room for their alignment: true of  *)
(* the 1920 x 1080 display (six times 8 MB and 4 KB, some 50 MB).          *)
(***************************************************************************)
FbFits ==
    2 * MaxFrameBuffers * (FrameBufferNeed + TextureAlign) <= NarrowMod

(***************************************************************************)
(* The renderer's inductive invariant: the allocator holds the six frame  *)
(* buffers exactly while the renderer is initialized, and frame_buffers_  *)
(* then holds their addresses.                                             *)
(***************************************************************************)
RIInv ==
    /\ RTypeOK
    /\ live = IF rInitialized THEN 1..(2 * MaxFrameBuffers) ELSE {}
    /\ rInitialized => allocs = FbAllocs /\ frameBuffers = FbFrames

\* The defining equation of FbOffset holds: it has a solution, the six
\* allocations written out one after the other.
LEMMA FbOffsetUnfold ==
    FbOffset = [k \in 0..6 |-> IF k = 0 THEN 0 ELSE FbStep(FbOffset[k - 1])]
<1> DEFINE g == [k \in 0..6 |->
                   CASE k = 0 -> 0
                     [] k = 1 -> FbStep(0)
                     [] k = 2 -> FbStep(FbStep(0))
                     [] k = 3 -> FbStep(FbStep(FbStep(0)))
                     [] k = 4 -> FbStep(FbStep(FbStep(FbStep(0))))
                     [] k = 5 -> FbStep(FbStep(FbStep(FbStep(FbStep(0)))))
                     [] k = 6 -> FbStep(FbStep(FbStep(FbStep(FbStep(FbStep(0))))))]
<1>1. g = [k \in 0..6 |-> IF k = 0 THEN 0 ELSE FbStep(g[k - 1])]
  OBVIOUS
<1>2. \E f : f = [k \in 0..6 |-> IF k = 0 THEN 0 ELSE FbStep(f[k - 1])]
  BY <1>1
<1> QED
  BY <1>2 DEF FbOffset, MaxFrameBuffers, FbStep

\* The display constants give a frame buffer size the allocator accepts.
LEMMA FbConstants ==
    /\ FrameBufferSize \in 0..(NarrowMod - 1)
    /\ FrameBufferNeed \in Nat \ {0}
    /\ TextureAlign \in 1..NarrowMod
<1>1. DisplayWidth * DisplayHeight * 4 \in Nat \ {0}
  BY DisplayAssumption, WidthFacts
<1> QED
  BY <1>1, WidthFacts, AlignAssumption DEF FrameBufferSize, FrameBufferNeed

\* Every offset CreateFramebuffers passes through is a 64-bit value.
LEMMA FbOffsetRange ==
    \A k \in 0..6 : FbOffset[k] \in 0..(WideMod - 1)
<1>1. FbOffset[0] \in 0..(WideMod - 1)
  BY FbOffsetUnfold, WidthFacts
<1>2. ASSUME NEW k \in 1..6, FbOffset[k - 1] \in 0..(WideMod - 1)
      PROVE  FbOffset[k] \in 0..(WideMod - 1)
  <2>1. FbOffset[k] = FbStep(FbOffset[k - 1])
    BY FbOffsetUnfold
  <2> QED
    BY <1>2, <2>1, FbConstants, AllocateResultRange DEF FbStep
<1>3. FbOffset[1] \in 0..(WideMod - 1)
  BY <1>1, <1>2
<1>4. FbOffset[2] \in 0..(WideMod - 1)
  BY <1>3, <1>2
<1>5. FbOffset[3] \in 0..(WideMod - 1)
  BY <1>4, <1>2
<1>6. FbOffset[4] \in 0..(WideMod - 1)
  BY <1>5, <1>2
<1>7. FbOffset[5] \in 0..(WideMod - 1)
  BY <1>6, <1>2
<1>8. FbOffset[6] \in 0..(WideMod - 1)
  BY <1>7, <1>2
<1> QED
  BY <1>1, <1>3, <1>4, <1>5, <1>6, <1>7, <1>8

\* The six allocations are well formed, and so are the frame buffers.
LEMMA FbType ==
    /\ FbAllocs \in Seq(Alloc) /\ Len(FbAllocs) = 2 * MaxFrameBuffers
    /\ FbFrames \in [FrameIdx -> FrameBuffer]
    /\ FbOffset[2 * MaxFrameBuffers] \in 0..(WideMod - 1)
<1>1. ASSUME NEW k \in 0..5 PROVE FbAddress(k) \in 0..(WideMod - 1)
  <2>1. FbOffset[k] \in 0..(WideMod - 1)
    BY FbOffsetRange
  <2> QED
    BY <2>1, FbConstants, AllocateResultRange DEF FbAddress
<1>2. FbAllocs \in [1..6 -> Alloc]
  BY <1>1, FbConstants DEF FbAllocs, Alloc, MaxFrameBuffers
<1>3. FbAllocs \in Seq(Alloc) /\ Len(FbAllocs) = 6
  BY <1>2 DEF FbAllocs, MaxFrameBuffers
<1>4. FbFrames \in [FrameIdx -> FrameBuffer]
  BY <1>1 DEF FbFrames, FrameIdx, FrameBuffer, MaxFrameBuffers
<1> QED
  BY <1>3, <1>4, FbOffsetRange DEF MaxFrameBuffers

-----------------------------------------------------------------------------
(***************************************************************************)
(* Below 2^32 the six buffers lie one after the other.                     *)
(***************************************************************************)

\* Where the k-th buffer starts, relative to gpu_memory_base.
FbStart(k) == AlignedOffset(FbOffset[k], TextureAlign)

\* The arithmetic of one allocation, over plain integers: n bytes aligned
\* to t, the k-th of six that fit in m.
LEMMA SlotArith ==
    ASSUME NEW n \in Nat \ {0}, NEW t \in Nat \ {0}, NEW m \in Nat,
           NEW k \in 0..5, NEW o \in Nat, NEW s \in Int,
           6 * (n + t) <= m, o <= k * (n + t), o <= s, s <= o + t - 1
    PROVE  /\ o + t - 1 < m /\ s \in Nat /\ s + n < m
           /\ s + n <= (k + 1) * (n + t)
<1>1. k * (n + t) <= 5 * (n + t) /\ (k + 1) * (n + t) = k * (n + t) + n + t
  OBVIOUS
<1> QED
  BY <1>1

\* One CreateFramebuffers allocation below the wrap: the mask rounds the
\* offset up by less than the alignment and the size is added exactly.
LEMMA FbStepFits ==
    ASSUME FbFits, NEW k \in 0..5, FbOffset[k] \in Nat,
           FbOffset[k] <= k * (FrameBufferNeed + TextureAlign)
    PROVE  /\ FbStart(k) \in Nat /\ FbOffset[k] <= FbStart(k)
           /\ FbStart(k) + FrameBufferNeed < NarrowMod
           /\ FbOffset[k + 1] = FbStart(k) + FrameBufferNeed
           /\ FbOffset[k + 1] <= (k + 1) * (FrameBufferNeed + TextureAlign)
<1>1. /\ FrameBufferNeed \in Nat \ {0} /\ TextureAlign \in 1..NarrowMod
      /\ 6 * (FrameBufferNeed + TextureAlign) <= NarrowMod /\ NarrowMod <= WideMod
      /\ NarrowMod \in Nat
  BY FbConstants, WidthFacts DEF FbFits, MaxFrameBuffers
<1>2. FbOffset[k] + TextureAlign - 1 < NarrowMod
  <2>1. FbOffset[k] <= FbOffset[k] + TextureAlign - 1
    BY <1>1
  <2> QED
    BY <1>1, <2>1, SlotArith
<1>3. FbStart(k) >= FbOffset[k] /\ FbStart(k) <= FbOffset[k] + TextureAlign - 1
      /\ FbStart(k) \in Int
  <2>1. AlignedOffset(FbOffset[k], TextureAlign) >= FbOffset[k]
        /\ AlignedOffset(FbOffset[k], TextureAlign) <= FbOffset[k] + TextureAlign - 1
    BY <1>1, <1>2, AlignUp
  <2>2. AlignedOffset(FbOffset[k], TextureAlign) \in 0..(NarrowMod - 1)
    BY <1>1, AlignedOffsetRange
  <2> QED
    BY <2>1, <2>2 DEF FbStart
<1>4. /\ FbStart(k) \in Nat /\ FbStart(k) + FrameBufferNeed < NarrowMod
      /\ FbStart(k) + FrameBufferNeed <= (k + 1) * (FrameBufferNeed + TextureAlign)
  BY <1>1, <1>3, SlotArith
<1>5. FrameBufferSize = FrameBufferNeed
  <2>1. FrameBufferNeed \in 0..(NarrowMod - 1)
    BY <1>1
  <2>2. FrameBufferSize = FrameBufferNeed % NarrowMod
    BY DEF FrameBufferSize, FrameBufferNeed
  <2> QED
    BY <1>1, <2>1, <2>2
<1>6. FbOffset[k + 1] = (FbStart(k) + FrameBufferNeed) % WideMod
  <2>1. k + 1 \in 0..6 /\ k + 1 # 0 /\ (k + 1) - 1 = k
    OBVIOUS
  <2>2. FbOffset[k + 1] = FbStep(FbOffset[k])
    BY <2>1, FbOffsetUnfold
  <2>3. FbStep(FbOffset[k]) = (FbStart(k) + FrameBufferSize) % WideMod
    BY DEF FbStep, NextOffset, FbStart
  <2> QED
    BY <1>5, <2>2, <2>3
<1>7. (FbStart(k) + FrameBufferNeed) % WideMod = FbStart(k) + FrameBufferNeed
  BY <1>1, <1>4, WidthFacts
<1> QED
  BY <1>3, <1>4, <1>6, <1>7

\* The offsets of all six allocations, one after the other.
LEMMA FbLayout ==
    ASSUME FbFits
    PROVE  \A k \in 0..5 :
              /\ FbStart(k) \in Nat
              /\ FbStart(k) + FrameBufferNeed < NarrowMod
              /\ FbStart(k) + FrameBufferNeed = FbOffset[k + 1]
              /\ FbOffset[k] <= FbStart(k)
<1> DEFINE B(k) == k * (FrameBufferNeed + TextureAlign)
           Ok(k) == FbOffset[k] \in Nat /\ FbOffset[k] <= B(k)
<1>1. Ok(0)
  BY FbOffsetUnfold, FbConstants
<1>2. ASSUME NEW k \in 0..5, Ok(k) PROVE Ok(k + 1)
  <2>1. FbStart(k) \in Nat /\ FbOffset[k + 1] = FbStart(k) + FrameBufferNeed
        /\ FbOffset[k + 1] <= B(k + 1)
    BY <1>2, FbStepFits
  <2> QED
    BY <2>1, FbConstants
<1>3. Ok(1)
  BY <1>1, <1>2
<1>4. Ok(2)
  BY <1>3, <1>2
<1>5. Ok(3)
  BY <1>4, <1>2
<1>6. Ok(4)
  BY <1>5, <1>2
<1>7. Ok(5)
  BY <1>6, <1>2
<1>8. \A k \in 0..5 : Ok(k)
  BY <1>1, <1>3, <1>4, <1>5, <1>6, <1>7
<1> QED
  BY <1>8, FbStepFits

\* Two 32-bit spans fit in the 64-bit address: base plus offset never wraps.
LEMMA WideRoom == 2 * NarrowMod <= WideMod
<1>1. NarrowMod * NarrowMod >= 2 * NarrowMod
  BY WidthAssumption
<1> QED
  BY <1>1, WidthAssumption

\* The buffers' addresses: gpu_memory_base plus where each starts, in the
\* order they were allocated, each ending before the next begins.
LEMMA FbOrdered ==
    ASSUME FbFits
    PROVE  /\ \A k \in 0..5 : FbAddress(k) = GpuMemoryBase + FbStart(k)
           /\ \A i, j \in 0..5 :
                 i < j => FbAddress(i) + FrameBufferNeed <= FbAddress(j)
<1>1. 2 * NarrowMod <= WideMod /\ FrameBufferNeed \in Nat
      /\ NarrowMod \in Nat /\ GpuMemoryBase = NarrowMod
  BY WideRoom, FbConstants, WidthFacts DEF GpuMemoryBase
<1>2. ASSUME NEW k \in 0..5 PROVE FbAddress(k) = GpuMemoryBase + FbStart(k)
  <2>1. FbStart(k) \in Nat /\ FbStart(k) + FrameBufferNeed < NarrowMod
    BY FbLayout
  <2>2. FbAddress(k) = (GpuMemoryBase + FbStart(k)) % WideMod
    BY DEF FbAddress, AllocAddress, FbStart
  <2>3. GpuMemoryBase + FbStart(k) \in 0..(WideMod - 1)
    <3>1. FbStart(k) < NarrowMod
      BY <1>1, <2>1
    <3> QED
      BY <1>1, <2>1, <3>1, WidthFacts DEF GpuMemoryBase
  <2>4. (GpuMemoryBase + FbStart(k)) % WideMod = GpuMemoryBase + FbStart(k)
    BY <2>3, WidthFacts
  <2> QED
    BY <2>2, <2>4
<1>3. ASSUME NEW k \in 0..4
      PROVE  FbStart(k) + FrameBufferNeed <= FbStart(k + 1)
  <2>1. FbStart(k) + FrameBufferNeed = FbOffset[k + 1]
    BY FbLayout
  <2>2. k + 1 \in 0..5
    OBVIOUS
  <2>3. FbOffset[k + 1] <= FbStart(k + 1)
    BY <2>2, FbLayout
  <2> QED
    BY <2>1, <2>3
<1>4. ASSUME NEW k \in 0..5 PROVE FbStart(k) \in Nat
  BY FbLayout
<1>5. ASSUME NEW i \in 0..5, NEW j \in 0..5, i < j
      PROVE  FbStart(i) + FrameBufferNeed <= FbStart(j)
  <2>1. /\ FbStart(0) \in Nat /\ FbStart(1) \in Nat /\ FbStart(2) \in Nat
        /\ FbStart(3) \in Nat /\ FbStart(4) \in Nat /\ FbStart(5) \in Nat
    BY <1>4
  <2>2. /\ FbStart(0) + FrameBufferNeed <= FbStart(1)
        /\ FbStart(1) + FrameBufferNeed <= FbStart(2)
        /\ FbStart(2) + FrameBufferNeed <= FbStart(3)
        /\ FbStart(3) + FrameBufferNeed <= FbStart(4)
        /\ FbStart(4) + FrameBufferNeed <= FbStart(5)
    BY <1>3
  <2>3. i \in {0, 1, 2, 3, 4} /\ j \in {1, 2, 3, 4, 5}
    BY <1>5
  <2> QED
    BY <1>1, <1>5, <2>1, <2>2, <2>3
<1>6. ASSUME NEW i \in 0..5, NEW j \in 0..5, i < j
      PROVE  FbAddress(i) + FrameBufferNeed <= FbAddress(j)
  <2>1. FbAddress(i) = GpuMemoryBase + FbStart(i)
    BY <1>2
  <2>2. FbAddress(j) = GpuMemoryBase + FbStart(j)
    BY <1>2
  <2>3. FbStart(i) + FrameBufferNeed <= FbStart(j)
        /\ FbStart(i) \in Nat /\ FbStart(j) \in Nat
    BY <1>4, <1>6, <1>5
  <2> QED
    BY <1>1, <2>1, <2>2, <2>3 DEF GpuMemoryBase
<1> QED
  BY <1>2, <1>6

\* The six addresses are numbers, each buffer ending before the next one.
LEMMA FbAddrFacts ==
    ASSUME FbFits
    PROVE  /\ \A k \in 0..5 : FbAddress(k) \in Nat
           /\ \A i, j \in 0..5 :
                 i < j => FbAddress(i) + FrameBufferNeed <= FbAddress(j)
<1>1. ASSUME NEW k \in 0..5 PROVE FbAddress(k) \in Nat
  <2>1. FbAddress(k) = GpuMemoryBase + FbStart(k)
    BY FbOrdered
  <2>2. FbStart(k) \in Nat
    BY FbLayout
  <2> QED
    BY <2>1, <2>2, WidthFacts
<1> QED
  BY <1>1, FbOrdered

-----------------------------------------------------------------------------
(***************************************************************************)
(* While the renderer is initialized, the allocator's live allocations    *)
(* are the six frame buffers CreateFramebuffers made: so the addresses    *)
(* frame_buffers_ holds are live and, below 2^32, never overlap.          *)
(***************************************************************************)

\* What RIInv says of an initialized renderer, allocation by allocation.
LEMMA RIInvInitialized ==
    ASSUME RIInv, rInitialized
    PROVE  /\ live = 1..6
           /\ \A k \in 1..6 : /\ allocs[k].addr = FbAddress(k - 1)
                              /\ allocs[k].need = FrameBufferNeed
           /\ \A i \in FrameIdx : /\ frameBuffers[i].color = FbAddress(2 * i)
                                  /\ frameBuffers[i].depth = FbAddress(2 * i + 1)
<1>1. live = 1..6 /\ allocs = FbAllocs /\ frameBuffers = FbFrames
  BY DEF RIInv, MaxFrameBuffers
<1> QED
  BY <1>1 DEF FbAllocs, FbFrames, MaxFrameBuffers

\* Below 2^32 the six buffers have six different addresses.
LEMMA FbDistinct ==
    ASSUME FbFits, NEW a \in 0..5, NEW b \in 0..5, a # b
    PROVE  FbAddress(a) # FbAddress(b)
<1>1. FrameBufferNeed \in Nat \ {0}
  BY FbConstants
<1>2. /\ FbAddress(a) \in Nat /\ FbAddress(b) \in Nat
      /\ (a < b => FbAddress(a) + FrameBufferNeed <= FbAddress(b))
      /\ (b < a => FbAddress(b) + FrameBufferNeed <= FbAddress(a))
  BY FbAddrFacts
<1>3. a < b \/ b < a
  OBVIOUS
<1> QED
  BY <1>1, <1>2, <1>3

\* FrameBuffersLive follows from the invariant below 2^32.
LEMMA RIInvFrameBuffersLive ==
    ASSUME RIInv, FbFits
    PROVE  FrameBuffersLive
<1> SUFFICES ASSUME rInitialized
             PROVE  /\ \A i \in FrameIdx :
                          {frameBuffers[i].color, frameBuffers[i].depth}
                             \subseteq LiveAddrs
                    /\ \A i, j \in FrameIdx :
                          /\ frameBuffers[i].color # frameBuffers[j].depth
                          /\ i # j =>
                                /\ frameBuffers[i].color # frameBuffers[j].color
                                /\ frameBuffers[i].depth # frameBuffers[j].depth
  BY DEF FrameBuffersLive
<1>2. ASSUME NEW i \in FrameIdx
      PROVE  {frameBuffers[i].color, frameBuffers[i].depth} \subseteq LiveAddrs
  <2>1. 2 * i + 1 \in 1..6 /\ 2 * i + 2 \in 1..6
        /\ (2 * i + 1) - 1 = 2 * i /\ (2 * i + 2) - 1 = 2 * i + 1
    BY DEF FrameIdx, MaxFrameBuffers
  <2>2. /\ allocs[2 * i + 1].addr = frameBuffers[i].color
        /\ allocs[2 * i + 2].addr = frameBuffers[i].depth
        /\ live = 1..6
    BY <2>1, RIInvInitialized
  <2> QED
    BY <2>1, <2>2 DEF LiveAddrs
<1>3. ASSUME NEW i \in FrameIdx, NEW j \in FrameIdx
      PROVE  /\ frameBuffers[i].color # frameBuffers[j].depth
             /\ i # j => /\ frameBuffers[i].color # frameBuffers[j].color
                         /\ frameBuffers[i].depth # frameBuffers[j].depth
  <2>1. /\ frameBuffers[i].color = FbAddress(2 * i)
        /\ frameBuffers[j].color = FbAddress(2 * j)
        /\ frameBuffers[i].depth = FbAddress(2 * i + 1)
        /\ frameBuffers[j].depth = FbAddress(2 * j + 1)
    BY RIInvInitialized
  <2>2. /\ 2 * i \in 0..5 /\ 2 * j \in 0..5
        /\ 2 * i + 1 \in 0..5 /\ 2 * j + 1 \in 0..5
        /\ 2 * i # 2 * j + 1
        /\ i # j => 2 * i # 2 * j /\ 2 * i + 1 # 2 * j + 1
    BY DEF FrameIdx, MaxFrameBuffers
  <2>3. FbAddress(2 * i) # FbAddress(2 * j + 1)
    BY <2>2, FbDistinct
  <2>4. ASSUME i # j
        PROVE  /\ FbAddress(2 * i) # FbAddress(2 * j)
               /\ FbAddress(2 * i + 1) # FbAddress(2 * j + 1)
    BY <2>2, <2>4, FbDistinct
  <2> QED
    BY <2>1, <2>3, <2>4
<1> QED
  BY <1>2, <1>3

\* NoOverlap follows from the invariant below 2^32.
LEMMA RIInvNoOverlap ==
    ASSUME RIInv, FbFits
    PROVE  NoOverlap
<1>1. CASE ~rInitialized
  BY <1>1 DEF RIInv, NoOverlap
<1>2. CASE rInitialized
  <2> SUFFICES ASSUME NEW i \in 1..6, NEW j \in 1..6, i # j
               PROVE  Disjoint(i, j)
    BY <1>2, RIInvInitialized DEF NoOverlap
  <2>1. /\ allocs[i].addr = FbAddress(i - 1) /\ allocs[i].need = FrameBufferNeed
        /\ allocs[j].addr = FbAddress(j - 1) /\ allocs[j].need = FrameBufferNeed
    BY <1>2, RIInvInitialized
  <2>2. i - 1 \in 0..5 /\ j - 1 \in 0..5 /\ (i - 1 < j - 1 \/ j - 1 < i - 1)
    OBVIOUS
  <2>3. /\ (i - 1 < j - 1 => FbAddress(i - 1) + FrameBufferNeed <= FbAddress(j - 1))
        /\ (j - 1 < i - 1 => FbAddress(j - 1) + FrameBufferNeed <= FbAddress(i - 1))
    BY <2>2, FbAddrFacts
  <2> QED
    BY <2>1, <2>2, <2>3 DEF Disjoint
<1> QED
  BY <1>1, <1>2

-----------------------------------------------------------------------------
(***************************************************************************)
(* RIInv is inductive for each renderer call the application makes.       *)
(***************************************************************************)

LEMMA RIInvInit == RInit => RIInv
<1> SUFFICES ASSUME RInit PROVE RIInv
  OBVIOUS
<1>1. /\ initialized = FALSE /\ deviceHandle = 0 /\ queueHandle = 0
      /\ gpuMemoryOffset = 0 /\ allocs = <<>> /\ live = {}
      /\ rInitialized = FALSE /\ hasWrapper = FALSE
      /\ frameBuffers = [i \in FrameIdx |-> ZeroFrame]
      /\ currentFrame = 0 /\ currentFrameBuffer = 0 /\ presented = NoFrame
  BY DEF RInit, Init
<1>2. TypeOK
  <2>1. <<>> \in Seq(Alloc) /\ Len(<<>>) = 0
    OBVIOUS
  <2>2. 0 \in 0..(WideMod - 1)
    BY WidthFacts
  <2> QED
    BY <1>1, <2>1, <2>2 DEF TypeOK
<1>3. ZeroFrame \in FrameBuffer
  BY WidthFacts DEF ZeroFrame, FrameBuffer
<1> QED
  BY <1>1, <1>2, <1>3, WidthFacts DEF RIInv, RTypeOK, FrameIdx, MaxFrameBuffers

\* A failed Initialize leaves a fresh, empty allocator.
LEMMA RInitializeFailsKeepsRIInv ==
    ASSUME RIInv, RInitializeFails PROVE RIInv'
<1>1. /\ ~rInitialized /\ rInitialized' = rInitialized
      /\ initialized' = TRUE /\ deviceHandle' = 1 /\ queueHandle' = 1
      /\ gpuMemoryOffset' = 0 /\ allocs' = <<>> /\ live' = {}
      /\ hasWrapper' = TRUE /\ frameBuffers' = frameBuffers
      /\ currentFrame' = currentFrame /\ currentFrameBuffer' = currentFrameBuffer
      /\ presented' = presented
  BY DEF RInitializeFails
<1>2. TypeOK'
  BY <1>1, WidthFacts DEF TypeOK
<1> QED
  BY <1>1, <1>2 DEF RIInv, RTypeOK

\* A successful Initialize holds the six frame buffers.
LEMMA RInitializeSucceedsKeepsRIInv ==
    ASSUME RIInv, RInitializeSucceeds PROVE RIInv'
<1>1. /\ rInitialized' = TRUE
      /\ initialized' = TRUE /\ deviceHandle' = 1 /\ queueHandle' = 1
      /\ gpuMemoryOffset' = FbOffset[6] /\ allocs' = FbAllocs /\ live' = 1..6
      /\ hasWrapper' = TRUE /\ frameBuffers' = FbFrames
      /\ currentFrame' = currentFrame /\ currentFrameBuffer' = currentFrameBuffer
      /\ presented' = presented
  BY DEF RInitializeSucceeds, FbFrames, MaxFrameBuffers
<1>2. TypeOK'
  BY <1>1, FbType DEF TypeOK, MaxFrameBuffers
<1>3. frameBuffers' \in [FrameIdx -> FrameBuffer]
  BY <1>1, FbType
<1> QED
  BY <1>1, <1>2, <1>3 DEF RIInv, RTypeOK, MaxFrameBuffers

\* Shutdown gives the buffers up and zeroes the addresses.
LEMMA RShutdownKeepsRIInv ==
    ASSUME RIInv, RShutdown PROVE RIInv'
<1>1. /\ rInitialized' = FALSE
      /\ initialized' = FALSE /\ deviceHandle' = 0 /\ queueHandle' = 0
      /\ gpuMemoryOffset' = gpuMemoryOffset /\ allocs' = allocs /\ live' = {}
      /\ hasWrapper' = hasWrapper
      /\ frameBuffers' = [i \in FrameIdx |-> ZeroFrame]
      /\ currentFrame' = currentFrame /\ currentFrameBuffer' = currentFrameBuffer
      /\ presented' = presented
  BY DEF RShutdown
<1>2. TypeOK'
  BY <1>1 DEF RIInv, RTypeOK, TypeOK
<1>3. ZeroFrame \in FrameBuffer
  BY WidthFacts DEF ZeroFrame, FrameBuffer
<1> QED
  BY <1>1, <1>2, <1>3 DEF RIInv, RTypeOK

\* The end of a renderer object, in each of its three forms.
LEMMA RDestroyKeepsRIInv ==
    ASSUME RIInv, RDestroy PROVE RIInv'
<1>1. CASE rInitialized
  BY <1>1, RShutdownKeepsRIInv DEF RDestroy
<1>2. CASE ~rInitialized /\ initialized
  <2>1. /\ Shutdown
        /\ rInitialized' = rInitialized /\ hasWrapper' = hasWrapper
        /\ frameBuffers' = frameBuffers /\ currentFrame' = currentFrame
        /\ currentFrameBuffer' = currentFrameBuffer /\ presented' = presented
    BY <1>2 DEF RDestroy, rendererVars
  <2>2. /\ initialized' = FALSE /\ deviceHandle' = 0 /\ queueHandle' = 0
        /\ gpuMemoryOffset' = gpuMemoryOffset /\ allocs' = allocs /\ live' = live
    BY <2>1 DEF Shutdown, allocVars
  <2>3. TypeOK'
    BY <2>2 DEF RIInv, RTypeOK, TypeOK
  <2> QED
    BY <1>2, <2>1, <2>2, <2>3 DEF RIInv, RTypeOK
<1>3. CASE ~rInitialized /\ ~initialized
  BY <1>3 DEF RDestroy, RIInv, RTypeOK, TypeOK, rvars, gnmVars, rendererVars,
              allocVars
<1> QED
  BY <1>1, <1>2, <1>3 DEF RIInv, RTypeOK

\* BeginFrame: the 32-bit frame counter and its slot.
LEMMA NextFrameType ==
    ASSUME NEW cf \in 0..(NarrowMod - 1)
    PROVE  /\ NextFrame(cf) \in 0..(NarrowMod - 1)
           /\ FrameSlot(NextFrame(cf)) \in FrameIdx
<1>1. NextFrame(cf) \in 0..(NarrowMod - 1)
  BY WidthFacts DEF NextFrame
<1> QED
  BY <1>1 DEF FrameSlot, FrameIdx, MaxFrameBuffers

\* One frame: BeginFrame, EndFrame and Present.
LEMMA RenderFrameKeepsRIInv ==
    ASSUME RIInv, RenderFrame PROVE RIInv'
<1>1. /\ currentFrame' = NextFrame(currentFrame)
      /\ currentFrameBuffer' = FrameSlot(NextFrame(currentFrame))
      /\ presented' = currentFrameBuffer'
      /\ UNCHANGED <<initialized, deviceHandle, queueHandle, gpuMemoryOffset,
                     allocs, live, rInitialized, hasWrapper, frameBuffers>>
  BY DEF RenderFrame, gnmVars, allocVars
<1>2. currentFrame' \in 0..(NarrowMod - 1) /\ currentFrameBuffer' \in FrameIdx
  BY <1>1, NextFrameType DEF RIInv, RTypeOK
<1>3. TypeOK'
  BY <1>1 DEF RIInv, RTypeOK, TypeOK
<1> QED
  BY <1>1, <1>2, <1>3 DEF RIInv, RTypeOK

LEMMA BeginFrameKeepsRIInv ==
    ASSUME RIInv, BeginFrame PROVE RIInv'
<1>1. /\ currentFrame' = NextFrame(currentFrame)
      /\ currentFrameBuffer' = FrameSlot(NextFrame(currentFrame))
      /\ UNCHANGED <<initialized, deviceHandle, queueHandle, gpuMemoryOffset,
                     allocs, live, rInitialized, hasWrapper, frameBuffers,
                     presented>>
  BY DEF BeginFrame, gnmVars, allocVars
<1>2. currentFrame' \in 0..(NarrowMod - 1) /\ currentFrameBuffer' \in FrameIdx
  BY <1>1, NextFrameType DEF RIInv, RTypeOK
<1>3. TypeOK'
  BY <1>1 DEF RIInv, RTypeOK, TypeOK
<1> QED
  BY <1>1, <1>2, <1>3 DEF RIInv, RTypeOK

LEMMA PresentKeepsRIInv ==
    ASSUME RIInv, Present PROVE RIInv'
<1>1. /\ presented' = currentFrameBuffer
      /\ UNCHANGED <<initialized, deviceHandle, queueHandle, gpuMemoryOffset,
                     allocs, live, rInitialized, hasWrapper, frameBuffers,
                     currentFrame, currentFrameBuffer>>
  BY DEF Present, gnmVars, allocVars
<1>2. TypeOK'
  BY <1>1 DEF RIInv, RTypeOK, TypeOK
<1> QED
  BY <1>1, <1>2 DEF RIInv, RTypeOK

LEMMA UnchangedKeepsRIInv ==
    ASSUME RIInv, UNCHANGED rvars PROVE RIInv'
<1>1. UNCHANGED <<initialized, deviceHandle, queueHandle, gpuMemoryOffset,
                  allocs, live, rInitialized, hasWrapper, frameBuffers,
                  currentFrame, currentFrameBuffer, presented>>
  BY DEF rvars, gnmVars, allocVars, rendererVars
<1> QED
  BY <1>1 DEF RIInv, RTypeOK, TypeOK
=============================================================================
