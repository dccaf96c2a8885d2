\* The calls main() makes (Initialize, RequestJailbreak, EnableDataAccess,
\* Shutdown), in any order and repeated, with three descriptors and one
\* daemon crash.
CONSTANTS
    Calls = {"Initialize", "RequestJailbreak", "EnableDataAccess", "Shutdown"}
    MaxCalls = 6
    MaxConns = 3
    MaxCrashes = 1
    ReplySegments = 1
SPECIFICATION EtSpec
INVARIANT ConnectionConsistent
