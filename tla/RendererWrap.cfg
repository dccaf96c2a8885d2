\* The frame counter runs through a whole cycle of a 64-value "uint32".
CONSTANTS
    NarrowMod = 64
    WideMod = 4096
    BufferAlign = 2
    TextureAlign = 8
    BufferSizes = {}
    TexDims = {}
    MaxAllocs = 6
    DisplayWidth = 1
    DisplayHeight = 1
SPECIFICATION RSpec
PROPERTY Rotation
