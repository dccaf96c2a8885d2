\* The whole process with up to two signals at any point, two stream addresses
\* so that a freed address is reused, and a volume above the range that is clamped; an "uint32" of 128 values
\* so that the six 4-byte frame buffers, each 8-byte aligned, stay below the 32-bit limit.
CONSTANTS
    NarrowMod = 128
    WideMod = 16384
    BufferAlign = 2
    TextureAlign = 8
    BufferSizes = {}
    TexDims = {}
    MaxAllocs = 6
    DisplayWidth = 1
    DisplayHeight = 1
    Ps5Build = TRUE
    StreamAddrs = {1, 2}
    Volumes = {50, 150}
    MaxSignals = 2
SPECIFICATION ASpec
INVARIANT ATypeOK
INVARIANT NoDanglingSubsystem
INVARIANT EmulationNeedsCore
INVARIANT FrameBuffersLive
PROPERTY ShutdownHonoured
INVARIANT StreamsHeldOwned
INVARIANT ReleasedAtExit
PROPERTY MembersAsStack
INVARIANT StreamsOnLiveDevices
