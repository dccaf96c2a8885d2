\* Every public call: the FTP server across a disconnect and a Shutdown.
CONSTANTS
    Calls = {"Initialize", "Shutdown", "ConnectToEtaHEN", "DisconnectFromEtaHEN",
             "RegisterWithEtaHEN", "UnregisterFromEtaHEN", "RequestJailbreak",
             "EnableDataAccess", "StartFTPServer", "StopFTPServer"}
    MaxCalls = 5
    MaxConns = 2
    MaxCrashes = 1
    ReplySegments = 1
SPECIFICATION EtSpec
PROPERTY FtpStoppedAtShutdown
