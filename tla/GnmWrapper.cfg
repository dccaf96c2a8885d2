\* Allocations below the 32-bit limit: a "uint32" of 64 values (so the base is 64),
\* a "uint64" of 4096, alignments 2 and 8 standing for 256 and 4096, and at
\* most four allocations, which cannot carry the offset past 64.
CONSTANTS
    NarrowMod = 64
    WideMod = 4096
    BufferAlign = 2
    TextureAlign = 8
    BufferSizes = {1, 3}
    TexDims = {1, 2}
    MaxAllocs = 4
SPECIFICATION Spec
INVARIANT TypeOK
INVARIANT NoOverlap
