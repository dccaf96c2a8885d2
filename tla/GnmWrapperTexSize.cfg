\* CreateTexture's width * height * 4 wraps in 32 bits: a 4 x 4 texture is
\* 64 = NarrowMod bytes, truncated to 0; at most two allocations, so the offset
\* itself never crosses the limit.
CONSTANTS
    NarrowMod = 64
    WideMod = 4096
    BufferAlign = 2
    TextureAlign = 8
    BufferSizes = {1}
    TexDims = {1, 4}
    MaxAllocs = 2
SPECIFICATION Spec
INVARIANT NoOverlap
