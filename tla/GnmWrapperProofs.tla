-------------------------- MODULE GnmWrapperProofs --------------------------
(***************************************************************************)
(* Proofs about the GNMWrapper bump allocator of GnmWrapper, for every     *)
(* value of the constants that satisfies the module's assumptions.         *)
(***************************************************************************)
EXTENDS GnmWrapper, TLAPS

\* The widths are positive, so the modular arithmetic is well defined.
LEMMA WidthFacts ==
    /\ NarrowMod \in Nat \ {0}
    /\ WideMod \in Nat \ {0}
    /\ NarrowMod <= WideMod
    /\ GpuMemoryBase \in Nat
BY WidthAssumption DEF GpuMemoryBase

\* AlignedOffset stays below 2^32: the mask keeps only the low 32 bits.
LEMMA AlignedOffsetRange ==
    ASSUME NEW off \in Nat, NEW a \in 1..NarrowMod
    PROVE  AlignedOffset(off, a) \in 0..(NarrowMod - 1)
<1>1. (off + a - 1) % WideMod \in Nat
  BY WidthFacts
<1>2. ASSUME NEW z \in 0..(NarrowMod - 1) PROVE z - (z % a) \in 0..(NarrowMod - 1)
  <2>1. a \in Nat \ {0} /\ z \in Nat /\ z < NarrowMod
    BY WidthFacts
  <2>2. z % a \in 0..(a - 1) /\ z % a <= z
    BY <2>1
  <2>3. \A r \in 0..z : z - r \in 0..(NarrowMod - 1)
    BY <2>1, WidthFacts
  <2>. QED
    BY <2>2, <2>3
<1>3. ((off + a - 1) % WideMod) % NarrowMod \in 0..(NarrowMod - 1)
  BY <1>1, WidthFacts
<1>. QED
  BY <1>2, <1>3 DEF AlignedOffset

\* What one allocation appends and where the offset goes stay in range.
LEMMA AllocateResultRange ==
    ASSUME NEW off \in 0..(WideMod - 1), NEW size \in Nat,
           NEW a \in 1..NarrowMod
    PROVE  /\ AllocAddress(off, a) \in 0..(WideMod - 1)
           /\ NextOffset(off, size, a) \in 0..(WideMod - 1)
BY AlignedOffsetRange, WidthFacts DEF AllocAddress, NextOffset

\* An allocation step keeps the allocator and the ghost of the clients
\* well typed.
LEMMA AllocatePreservesType ==
    ASSUME TypeOK, NEW size \in Nat, NEW a \in 1..NarrowMod, NEW need \in Nat,
           Allocate(size, a, need)
    PROVE  /\ gpuMemoryOffset' \in 0..(WideMod - 1)
           /\ allocs' \in Seq(Alloc)
           /\ live' \subseteq 1..Len(allocs')
<1>1. [addr |-> AllocAddress(gpuMemoryOffset, a), need |-> need] \in Alloc
  BY AllocateResultRange DEF TypeOK, Alloc
<1>2. gpuMemoryOffset' \in 0..(WideMod - 1)
  BY AllocateResultRange DEF TypeOK, Allocate
<1>3. allocs' \in Seq(Alloc) /\ Len(allocs') = Len(allocs) + 1
  BY <1>1 DEF TypeOK, Allocate
<1>4. live' \subseteq 1..Len(allocs')
  <2>1. live \subseteq 1..Len(allocs') /\ Len(allocs) + 1 \in 1..Len(allocs')
    BY <1>3 DEF TypeOK
  <2>. QED
    BY <2>1 DEF Allocate
<1>. QED
  BY <1>2, <1>3, <1>4

(***************************************************************************)
(* Type correctness of the allocator: the handles, the 64-bit offset and   *)
(* the clients' allocations keep their types in every reachable state.     *)
(***************************************************************************)
THEOREM TypeCorrect == Spec => []TypeOK
<1>1. Init => TypeOK
  <2> SUFFICES ASSUME Init PROVE TypeOK
    OBVIOUS
  <2>1. 0 \in 0..(WideMod - 1)
    BY WidthFacts
  <2>2. <<>> \in Seq(Alloc) /\ Len(<<>>) = 0
    OBVIOUS
  <2>. QED
    BY <2>1, <2>2 DEF Init, TypeOK
<1>2. TypeOK /\ [Next]_vars => TypeOK'
  <2> SUFFICES ASSUME TypeOK, [Next]_vars PROVE TypeOK'
    OBVIOUS
  <2>1. CASE Initialize
    BY <2>1 DEF Initialize, TypeOK, allocVars
  <2>2. CASE Shutdown
    BY <2>2 DEF Shutdown, TypeOK, allocVars
  <2>3. ASSUME NEW s \in BufferSizes, CreateBuffer(s) PROVE TypeOK'
    <3>1. s \in Nat /\ BufferAlign \in 1..NarrowMod
      BY InputAssumption, AlignAssumption
    <3>. QED
      BY <2>3, <3>1, AllocatePreservesType DEF CreateBuffer, TypeOK
  <2>4. ASSUME NEW w \in TexDims, NEW h \in TexDims, CreateTexture(w, h)
        PROVE TypeOK'
    <3>1. w \in Nat /\ h \in Nat /\ TextureAlign \in 1..NarrowMod
      BY InputAssumption, AlignAssumption
    <3>2. TextureSize(w, h) \in Nat /\ w * h * 4 \in Nat
      BY <3>1, WidthFacts DEF TextureSize
    <3>. QED
      BY <2>4, <3>1, <3>2, AllocatePreservesType DEF CreateTexture, TypeOK
  <2>5. ASSUME NEW i \in live, Destroy(i) PROVE TypeOK'
    BY <2>5 DEF Destroy, TypeOK
  <2>6. CASE UNCHANGED vars
    BY <2>6 DEF vars, allocVars, TypeOK
  <2>. QED
    BY <2>1, <2>2, <2>3, <2>4, <2>5, <2>6 DEF Next
<1>. QED
  BY <1>1, <1>2, PTL DEF Spec

-----------------------------------------------------------------------------
(***************************************************************************)
(* Below the 32-bit wrap.  NoWrap(step): every request, with the slack its *)
(* alignment may add, fits in step bytes, and MaxAllocs of them fit below  *)
(* 2^32.  Then the offset never reaches 2^32, the mask of                  *)
(* Impl::AllocateMemory only rounds up, and CreateTexture's size is not    *)
(* truncated.                                                              *)
(***************************************************************************)
NoWrap(step) ==
    /\ step \in Nat
    /\ MaxAllocs * step <= NarrowMod
    /\ \A s \in BufferSizes : s + BufferAlign <= step
    /\ \A w, h \in TexDims : w * h * 4 + TextureAlign <= step

(***************************************************************************)
(* The inductive invariant: the offset grows by at most step per           *)
(* allocation, every allocation lies between the base and the offset, and  *)
(* the allocations lie in the order they were made, each ending before the *)
(* next begins.                                                            *)
(***************************************************************************)
IInv(step) ==
    /\ TypeOK
    /\ Len(allocs) <= MaxAllocs
    /\ gpuMemoryOffset <= Len(allocs) * step
    /\ \A i \in 1..Len(allocs) :
          /\ allocs[i].addr >= GpuMemoryBase
          /\ allocs[i].addr + allocs[i].need <= GpuMemoryBase + gpuMemoryOffset
    /\ \A i, j \in 1..Len(allocs) :
          i < j => allocs[i].addr + allocs[i].need <= allocs[j].addr

\* Below the wrap the mask rounds the offset up by less than the alignment.
LEMMA AlignUp ==
    ASSUME NEW off \in Nat, NEW a \in 1..NarrowMod, off + a - 1 < NarrowMod
    PROVE  /\ AlignedOffset(off, a) >= off
           /\ AlignedOffset(off, a) <= off + a - 1
<1> DEFINE y == off + a - 1
<1>1. y \in 0..(NarrowMod - 1) /\ NarrowMod <= WideMod
  BY WidthFacts
<1>2. y % WideMod = y /\ y % NarrowMod = y
  BY <1>1, WidthFacts
<1>3. a \in Nat \ {0} /\ y \in Nat
  BY <1>1, WidthFacts
<1>4. y % a \in 0..(a - 1)
  BY <1>3
<1>5. AlignedOffset(off, a) = y - (y % a)
  BY <1>2 DEF AlignedOffset
<1>. QED
  BY <1>3, <1>4, <1>5

\* Below the wrap an allocation lands at or after the offset, ends at the new
\* offset, and the offset grows by at most step.
LEMMA AllocateKeepsIInv ==
    ASSUME NEW step, NoWrap(step), IInv(step),
           NEW a \in 1..NarrowMod, NEW need \in Nat, need + a <= step,
           NEW size, size \in {need, need % NarrowMod},
           Allocate(size, a, need),
           UNCHANGED <<initialized, deviceHandle, queueHandle>>
    PROVE  IInv(step)'
<1> DEFINE off == gpuMemoryOffset
           n   == Len(allocs)
           al  == AlignedOffset(off, a)
<1> USE WidthFacts
<1>0. step \in Nat /\ n \in Nat /\ off \in Nat /\ MaxAllocs \in Nat
  BY InputAssumption DEF NoWrap, IInv, TypeOK
<1> USE <1>0
<1>1. /\ step \in Nat /\ n \in Nat /\ MaxAllocs \in Nat /\ n + 1 <= MaxAllocs
      /\ off \in Nat /\ off <= n * step /\ MaxAllocs * step <= NarrowMod
  BY InputAssumption, WidthFacts DEF NoWrap, IInv, TypeOK, Allocate
<1>2. (n + 1) * step <= NarrowMod
  <2>1. (n + 1) * step <= MaxAllocs * step
    BY <1>1
  <2>. QED
    BY <1>1, <2>1
<1>3. /\ off + step <= NarrowMod
      /\ step <= NarrowMod
  <2>1. (n + 1) * step = n * step + step /\ n * step \in Nat
    BY <1>1
  <2>. QED
    BY <1>1, <1>2, <2>1
<1>4. size = need /\ size \in Nat
  <2>1. need \in 0..(NarrowMod - 1)
    BY <1>3
  <2>2. need % NarrowMod = need
    BY <2>1
  <2>. QED
    BY <2>2
<1>5. al \in 0..(NarrowMod - 1) /\ al >= off /\ al <= off + a - 1
  <2>1. off + a - 1 < NarrowMod /\ off \in Nat
    BY <1>1, <1>3
  <2>. QED
    BY <2>1, AlignUp, AlignedOffsetRange
<1>6. AllocAddress(off, a) = GpuMemoryBase + al
  <2>1. 2 * NarrowMod <= WideMod
    <3>1. NarrowMod * NarrowMod >= 2 * NarrowMod
      BY WidthAssumption
    <3>. QED
      BY <3>1, WidthAssumption
  <2>2. GpuMemoryBase + al \in 0..(WideMod - 1)
    BY <1>5, <2>1 DEF GpuMemoryBase
  <2>. QED
    BY <2>2 DEF AllocAddress
<1>7. NextOffset(off, size, a) = al + size /\ al + size <= (n + 1) * step
  <2>1. /\ al + size \in 0..(WideMod - 1)
        /\ al + size <= off + step - 1
        /\ off + step - 1 < (n + 1) * step
    <3>1. off + step <= (n + 1) * step /\ off \in Nat /\ step \in Nat
      <4>1. (n + 1) * step = n * step + step /\ off <= n * step
        BY <1>1
      <4>. QED
        BY <1>1, <4>1
    <3>. QED
      BY <3>1, <1>3, <1>4, <1>5
  <2>2. (al + size) % WideMod = al + size
    BY <2>1
  <2>3. NextOffset(off, size, a) = (al + size) % WideMod
    BY DEF NextOffset
  <2>. QED
    BY <2>1, <2>2, <2>3
<1>8. /\ gpuMemoryOffset' = al + size
      /\ allocs' = Append(allocs, [addr |-> GpuMemoryBase + al, need |-> need])
      /\ Len(allocs') = n + 1
      /\ \A i \in 1..n : allocs'[i] = allocs[i]
  BY <1>6, <1>7 DEF Allocate, IInv, TypeOK
<1>9. TypeOK'
  <2>1. a \in 1..NarrowMod /\ size \in Nat /\ need \in Nat
    BY <1>4
  <2>. QED
    BY <2>1, AllocatePreservesType DEF IInv, TypeOK
<1>10. \A i \in 1..n : /\ allocs[i].addr \in Nat /\ allocs[i].need \in Nat
                       /\ allocs[i].addr >= GpuMemoryBase
                       /\ allocs[i].addr + allocs[i].need <= GpuMemoryBase + off
  <2>1. \A i \in 1..n : allocs[i] \in Alloc
    BY DEF IInv, TypeOK
  <2>. QED
    BY <2>1 DEF IInv, Alloc
<1>11. \A i \in 1..(n + 1) :
          /\ allocs'[i].addr >= GpuMemoryBase
          /\ allocs'[i].addr + allocs'[i].need <= GpuMemoryBase + gpuMemoryOffset'
  <2>1. ASSUME NEW i \in 1..n PROVE
          /\ allocs'[i].addr >= GpuMemoryBase
          /\ allocs'[i].addr + allocs'[i].need <= GpuMemoryBase + gpuMemoryOffset'
    <3>1. allocs'[i] = allocs[i] /\ gpuMemoryOffset' = al + size
      BY <1>8
    <3>2. /\ allocs[i].addr \in Nat /\ allocs[i].need \in Nat
          /\ allocs[i].addr >= GpuMemoryBase
          /\ allocs[i].addr + allocs[i].need <= GpuMemoryBase + off
      BY <1>10
    <3>3. off <= al + size /\ al + size \in Nat
      BY <1>4, <1>5
    <3>. QED
      BY <3>1, <3>2, <3>3
  <2>2. /\ allocs'[n + 1].addr >= GpuMemoryBase
        /\ allocs'[n + 1].addr + allocs'[n + 1].need <= GpuMemoryBase + gpuMemoryOffset'
    BY <1>4, <1>5, <1>8
  <2>. QED
    BY <2>1, <2>2
<1>12. \A i, j \in 1..(n + 1) :
          i < j => allocs'[i].addr + allocs'[i].need <= allocs'[j].addr
  <2>1. \A i, j \in 1..n :
          i < j => allocs'[i].addr + allocs'[i].need <= allocs'[j].addr
    BY <1>8 DEF IInv
  <2>2. ASSUME NEW i \in 1..n
        PROVE  allocs'[i].addr + allocs'[i].need <= allocs'[n + 1].addr
    <3>1. allocs'[i] = allocs[i] /\ allocs'[n + 1].addr = GpuMemoryBase + al
      BY <1>8
    <3>2. /\ allocs[i].addr \in Nat /\ allocs[i].need \in Nat
          /\ allocs[i].addr + allocs[i].need <= GpuMemoryBase + off
      BY <1>10
    <3>3. /\ allocs'[i].addr \in Nat /\ allocs'[i].need \in Nat
          /\ allocs'[i].addr + allocs'[i].need <= GpuMemoryBase + off
      BY <3>1, <3>2
    <3>4. allocs'[n + 1].addr \in Nat /\ GpuMemoryBase + off <= allocs'[n + 1].addr
      BY <3>1, <1>5
    <3>. QED
      BY <3>3, <3>4, SMTT(30)
  <2>. QED
    BY <2>1, <2>2
<1>. QED
  BY <1>1, <1>7, <1>8, <1>9, <1>11, <1>12 DEF IInv

(***************************************************************************)
(* The safety of the bump allocator below the wrap: as long as no request  *)
(* takes the offset of Impl::AllocateMemory past 2^32, no two allocations  *)
(* the clients hold share a byte.  Above it the wrap and the 32-bit mask   *)
(* break this, as the gnm_wrap and gnm_texsize runs show.                  *)
(***************************************************************************)
THEOREM NoOverlapBelowWrap ==
    ASSUME NEW step, NoWrap(step)
    PROVE  Spec => []NoOverlap
<1>1. Init => IInv(step)
  <2> SUFFICES ASSUME Init PROVE IInv(step)
    OBVIOUS
  <2>1. 0 \in 0..(WideMod - 1) /\ MaxAllocs \in Nat /\ step \in Nat
    BY WidthFacts, InputAssumption DEF NoWrap
  <2>2. <<>> \in Seq(Alloc) /\ Len(<<>>) = 0
    OBVIOUS
  <2>3. /\ gpuMemoryOffset = 0 /\ allocs = <<>> /\ live = {}
        /\ initialized = FALSE /\ deviceHandle = 0 /\ queueHandle = 0
    BY DEF Init
  <2>4. TypeOK
    BY <2>1, <2>2, <2>3 DEF TypeOK
  <2>5. 0 <= 0 * step /\ 0 <= MaxAllocs
    BY <2>1
  <2>. QED
    BY <2>2, <2>3, <2>4, <2>5 DEF IInv
<1>2. IInv(step) /\ [Next]_vars => IInv(step)'
  <2> SUFFICES ASSUME IInv(step), [Next]_vars PROVE IInv(step)'
    OBVIOUS
  <2>1. CASE Initialize \/ Shutdown
    <3>1. TypeOK'
      BY <2>1 DEF IInv, TypeOK, Initialize, Shutdown, allocVars
    <3>. QED
      BY <2>1, <3>1 DEF IInv, Initialize, Shutdown, allocVars
  <2>2. ASSUME NEW s \in BufferSizes, CreateBuffer(s) PROVE IInv(step)'
    <3>1. s \in Nat /\ s + BufferAlign <= step /\ BufferAlign \in 1..NarrowMod
      BY InputAssumption, AlignAssumption DEF NoWrap
    <3>. QED
      BY <2>2, <3>1, AllocateKeepsIInv DEF CreateBuffer
  <2>3. ASSUME NEW w \in TexDims, NEW h \in TexDims, CreateTexture(w, h)
        PROVE IInv(step)'
    <3>1. /\ w * h * 4 \in Nat /\ w * h * 4 + TextureAlign <= step
          /\ TextureAlign \in 1..NarrowMod
      BY InputAssumption, AlignAssumption DEF NoWrap
    <3>. QED
      BY <2>3, <3>1, AllocateKeepsIInv DEF CreateTexture, TextureSize
  <2>4. ASSUME NEW i \in live, Destroy(i) PROVE IInv(step)'
    BY <2>4 DEF Destroy, IInv, TypeOK
  <2>5. CASE UNCHANGED vars
    BY <2>5 DEF vars, allocVars, IInv, TypeOK
  <2>. QED
    BY <2>1, <2>2, <2>3, <2>4, <2>5 DEF Next
<1>3. IInv(step) => NoOverlap
  <2> SUFFICES ASSUME IInv(step), NEW i \in live, NEW j \in live, i # j
               PROVE Disjoint(i, j)
    BY DEF NoOverlap
  <2>1. i \in 1..Len(allocs) /\ j \in 1..Len(allocs)
    BY DEF IInv, TypeOK
  <2>. QED
    BY <2>1 DEF IInv, Disjoint
<1>. QED
  BY <1>1, <1>2, <1>3, PTL DEF Spec

=============================================================================
