\* Every public call in any order, four calls, two descriptors, one daemon
\* crash; each reply arrives in one piece.
CONSTANTS
    Calls = {"Initialize", "Shutdown", "ConnectToEtaHEN", "DisconnectFromEtaHEN",
             "RegisterWithEtaHEN", "UnregisterFromEtaHEN", "RequestJailbreak",
             "EnableDataAccess", "StartFTPServer", "StopFTPServer"}
    MaxCalls = 5
    MaxConns = 2
    MaxCrashes = 1
    ReplySegments = 1
SPECIFICATION EtSpec
INVARIANT EtTypeOK
INVARIANT ReplyIsOwn
