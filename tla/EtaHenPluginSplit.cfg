\* main's calls when a reply may reach the plugin in two pieces.
CONSTANTS
    Calls = {"Initialize", "RequestJailbreak", "EnableDataAccess", "Shutdown"}
    MaxCalls = 5
    MaxConns = 2
    MaxCrashes = 1
    ReplySegments = 2
SPECIFICATION EtSpec
INVARIANT ReplyIsOwn
