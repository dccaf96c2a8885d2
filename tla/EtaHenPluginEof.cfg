\* main's calls with a daemon that may crash.
CONSTANTS
    Calls = {"Initialize", "RequestJailbreak", "EnableDataAccess", "Shutdown"}
    MaxCalls = 5
    MaxConns = 2
    MaxCrashes = 1
    ReplySegments = 1
SPECIFICATION EtSpec
INVARIANT SuccessHadReply
