\* The offset crosses the 32-bit limit: enough buffers of the largest size
\* to carry the bump pointer past NarrowMod; textures kept small so that
\* no size is truncated.
CONSTANTS
    NarrowMod = 64
    WideMod = 4096
    BufferAlign = 2
    TextureAlign = 8
    BufferSizes = {30}
    TexDims = {1}
    MaxAllocs = 3
SPECIFICATION Spec
INVARIANT NoOverlap
