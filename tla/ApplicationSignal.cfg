\* One signal, delivered at any point of main().
CONSTANTS
    NarrowMod = 256
    WideMod = 65536
    BufferAlign = 2
    TextureAlign = 8
    BufferSizes = {}
    TexDims = {}
    MaxAllocs = 6
    DisplayWidth = 1
    DisplayHeight = 1
    Ps5Build = TRUE
    StreamAddrs = {1, 2}
    Volumes = {50, 150}
    MaxSignals = 1
SPECIFICATION ASpec
PROPERTY SignalStops
