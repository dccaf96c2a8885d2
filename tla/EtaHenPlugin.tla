---------------------------- MODULE EtaHenPlugin ----------------------------
(***************************************************************************)
(* EtaHENPlugin (etahen_integration/etahen_plugin.cpp), PS5 build: the     *)
(* plugin's flags, its TCP connection to the etaHEN daemon and the         *)
(* request/response exchange of SendIPCCommand, which sends a command and *)
(* takes whatever one recv() returns as the response.                      *)
(*                                                                         *)
(* The caller is one thread calling the public member functions in any     *)
(* order (Calls says which).  The daemon is external: it answers each      *)
(* command of a connection in order, may crash (closing every connection   *)
(* and dropping what it had not read) and restart.  A reply reaches the    *)
(* client in ReplySegments pieces, and a recv() returns some of the pieces *)
(* that have arrived.  A command and a piece of a reply are model values;  *)
(* the command strings themselves are left out.                            *)
(***************************************************************************)
EXTENDS Naturals, Sequences

CONSTANTS
    Calls,          \* the public member functions the caller may call
    MaxCalls,       \* bound on the number of calls in a behaviour
    MaxConns,       \* descriptors the process may open: socket() fails beyond
    MaxCrashes,     \* bound on daemon crashes
    ReplySegments   \* pieces a reply may reach the client in

API == {"Initialize", "Shutdown", "ConnectToEtaHEN", "DisconnectFromEtaHEN",
        "RegisterWithEtaHEN", "UnregisterFromEtaHEN", "RequestJailbreak",
        "EnableDataAccess", "StartFTPServer", "StopFTPServer"}

ASSUME EtaHenAssumption ==
    /\ Calls \subseteq API
    /\ MaxCalls \in Nat
    /\ MaxConns \in Nat
    /\ MaxCrashes \in Nat
    /\ ReplySegments \in Nat \ {0}

Conns == 1..MaxConns
NoSocket == 0           \* ipc_socket_ == -1

\* The commands SendIPCCommand carries (LOAD_ELF and GET_VERSION behave as
\* JAILBREAK: no flag depends on them).
Cmds == {"REGISTER", "UNREGISTER", "JAILBREAK", "ENABLE_DATA",
         "START_FTP", "STOP_FTP"}
NoCmd == "none"

Segment == [cmd : Cmds, part : 1..ReplySegments]
Reply(c) == [k \in 1..ReplySegments |-> [cmd |-> c, part |-> k]]

\* Where the caller resumes when a SendIPCCommand returns.
Conts == {"idle", "init", "shutUnreg", "shutDisc"}

VARIABLES
    ehInitialized,  \* initialized_
    available,      \* etahen_available_
    connected,      \* connected_
    registered,     \* registered_
    ftpRunning,     \* ftp_server_running_
    sock,           \* ipc_socket_ (NoSocket for -1)
    nextConn,       \* sockets created so far
    open,           \* sockets created and not closed
    req,            \* per socket: commands sent, not yet read by the daemon
    rsp,            \* per socket: reply pieces sent, not yet read by recv()
    peerClosed,     \* sockets the daemon has closed
    daemonUp,       \* the daemon is listening on port 9028
    crashes,        \* daemon crashes so far
    cpc,            \* the caller: "idle", "wait" (in recv) or inside Shutdown
    waitCmd,        \* the command whose recv() is pending
    cont,           \* where the caller resumes after it
    calls,          \* public calls made so far
    lastResp        \* ghost: the last SendIPCCommand's command, response, result

vars == <<ehInitialized, available, connected, registered, ftpRunning, sock,
          nextConn, open, req, rsp, peerClosed, daemonUp, crashes, cpc,
          waitCmd, cont, calls, lastResp>>

\* What SendIPCCommand and the code after it determine.
sendVars == <<req, ehInitialized, registered, ftpRunning, lastResp, cpc,
              waitCmd, cont>>
connVars == <<available, connected, sock, nextConn, open>>
daemonVars == <<rsp, peerClosed, daemonUp, crashes>>

-----------------------------------------------------------------------------

EtInit ==
    /\ ehInitialized = FALSE
    /\ available = FALSE
    /\ connected = FALSE
    /\ registered = FALSE
    /\ ftpRunning = FALSE
    /\ sock = NoSocket
    /\ nextConn = 0
    /\ open = {}
    /\ req = [c \in Conns |-> <<>>]
    /\ rsp = [c \in Conns |-> <<>>]
    /\ peerClosed = {}
    /\ daemonUp \in BOOLEAN
    /\ crashes = 0
    /\ cpc = "idle"
    /\ waitCmd = NoCmd
    /\ cont = "idle"
    /\ calls = 0
    /\ lastResp = [cmd |-> NoCmd, segs |-> <<>>, ok |-> FALSE]

(***************************************************************************)
(* SendIPCCommand returns ok with response segs: the caller's code after   *)
(* it.  RegisterWithEtaHEN sets registered_ on success, Unregister clears  *)
(* it whatever happened, StartFTPServer sets ftp_server_running_ on        *)
(* success, StopFTPServer clears it whatever happened; Initialize sets     *)
(* initialized_ after the registration whatever its result.                *)
(***************************************************************************)
Complete(cmd, ok, segs, k) ==
    /\ registered' = CASE cmd = "REGISTER"   -> registered \/ ok
                       [] cmd = "UNREGISTER" -> FALSE
                       [] OTHER              -> registered
    /\ ftpRunning' = CASE cmd = "START_FTP" -> ftpRunning \/ ok
                       [] cmd = "STOP_FTP"  -> FALSE
                       [] OTHER             -> ftpRunning
    /\ ehInitialized' = (ehInitialized \/ k = "init")
    /\ lastResp' = [cmd |-> cmd, segs |-> segs, ok |-> ok]
    /\ cpc' = IF k \in {"idle", "init"} THEN "idle" ELSE k
    /\ waitCmd' = NoCmd
    /\ cont' = "idle"

(***************************************************************************)
(* SendIPCCommand on socket s, up to the recv(): false on -1; send() fails *)
(* or not on a socket the daemon closed; otherwise the command is on its  *)
(* way and the caller blocks in recv().                                    *)
(***************************************************************************)
SendIPCCommand(s, cmd, k) ==
    \/ /\ s = NoSocket \/ s \in peerClosed
       /\ Complete(cmd, FALSE, <<>>, k)
       /\ UNCHANGED req
    \/ /\ s # NoSocket
       /\ req' = [req EXCEPT ![s] = Append(@, cmd)]
       /\ cpc' = "wait"
       /\ waitCmd' = cmd
       /\ cont' = k
       /\ UNCHANGED <<ehInitialized, registered, ftpRunning, lastResp>>

\* The recv() of SendIPCCommand: some of the pieces that arrived (success,
\* whatever they are), or, once the daemon closed the socket and nothing is
\* left, 0 (success with an empty response) or -1 (failure).
RecvReply ==
    /\ cpc = "wait"
    /\ \/ \E n \in 1..Len(rsp[sock]) :
            /\ rsp' = [rsp EXCEPT ![sock] = SubSeq(@, n + 1, Len(@))]
            /\ Complete(waitCmd, TRUE, SubSeq(rsp[sock], 1, n), cont)
       \/ /\ sock \in peerClosed
          /\ rsp[sock] = <<>>
          /\ \E ok \in BOOLEAN : Complete(waitCmd, ok, <<>>, cont)
          /\ UNCHANGED rsp
    /\ UNCHANGED <<req, connVars, peerClosed, daemonUp, crashes, calls>>

(***************************************************************************)
(* ConnectToEtaHEN: ipc_socket_ = socket(...) (-1 once the descriptors are *)
(* used up), then connect(), which fails while the daemon is down: the     *)
(* socket is closed and ipc_socket_ = -1, connected_ left as it was.  On   *)
(* success connected_ = true.  The previous ipc_socket_ is overwritten.    *)
(***************************************************************************)
\* Mutant: the new socket takes the number of the previous one.
TryConnectReuse(ok) ==
    \/ /\ nextConn = MaxConns
       /\ ok = FALSE
       /\ sock' = NoSocket
       /\ UNCHANGED <<nextConn, open, connected>>
    \/ /\ nextConn < MaxConns
       /\ ~daemonUp
       /\ ok = FALSE
       /\ nextConn' = nextConn + 1
       /\ sock' = NoSocket
       /\ UNCHANGED <<open, connected>>
    \/ /\ nextConn < MaxConns
       /\ daemonUp
       /\ ok = TRUE
       /\ nextConn' = nextConn + 1
       /\ sock' = nextConn
       /\ open' = open \cup {nextConn}
       /\ connected' = TRUE

TryConnect(ok) ==
    \/ /\ nextConn = MaxConns
       /\ ok = FALSE
       /\ sock' = NoSocket
       /\ UNCHANGED <<nextConn, open, connected>>
    \/ /\ nextConn < MaxConns
       /\ ~daemonUp
       /\ ok = FALSE
       /\ nextConn' = nextConn + 1
       /\ sock' = NoSocket
       /\ UNCHANGED <<open, connected>>
    \/ /\ nextConn < MaxConns
       /\ daemonUp
       /\ ok = TRUE
       /\ nextConn' = nextConn + 1
       /\ sock' = nextConn + 1
       /\ open' = open \cup {nextConn + 1}
       /\ connected' = TRUE

\* A public call by the caller thread, which is not inside another one.
Call(f) ==
    /\ f \in Calls
    /\ cpc = "idle"
    /\ calls < MaxCalls
    /\ calls' = calls + 1

\* A call that sends cmd on the current socket if connected_, else returns
\* false (RegisterWithEtaHEN, RequestJailbreak, EnableDataAccess).
Command(cmd) ==
    IF connected THEN SendIPCCommand(sock, cmd, "idle") ELSE UNCHANGED sendVars

(***************************************************************************)
(* Initialize (if not initialized_): InitializeIPC succeeds;               *)
(* etahen_available_ = ConnectToEtaHEN(); if available,                    *)
(* RegisterWithEtaHEN; then initialized_ = true.                           *)
(***************************************************************************)
Initialize ==
    /\ Call("Initialize")
    /\ ~ehInitialized
    /\ \E ok \in BOOLEAN :
         /\ TryConnect(ok)
         /\ available' = ok
         /\ IF ok
              THEN SendIPCCommand(nextConn + 1, "REGISTER", "init")
              ELSE /\ ehInitialized' = TRUE
                   /\ UNCHANGED <<req, registered, ftpRunning, lastResp, cpc,
                                  waitCmd, cont>>
    /\ UNCHANGED daemonVars

\* Shutdown (if initialized_): StopFTPServer, which returns at once unless
\* ftp_server_running_ && connected_.  StopKlogServer and DisablePS5Debug
\* have no definition in the source and no modelled state.
Shutdown ==
    /\ Call("Shutdown")
    /\ ehInitialized
    /\ IF ftpRunning /\ connected
         THEN SendIPCCommand(sock, "STOP_FTP", "shutUnreg")
         ELSE /\ cpc' = "shutUnreg"
              /\ UNCHANGED <<req, ehInitialized, registered, ftpRunning,
                             lastResp, waitCmd, cont>>
    /\ UNCHANGED <<connVars, daemonVars>>

\* Shutdown, continued: if (registered_) UnregisterFromEtaHEN(), which
\* returns at once unless connected_.
ShutUnreg ==
    /\ cpc = "shutUnreg"
    /\ IF registered /\ connected
         THEN SendIPCCommand(sock, "UNREGISTER", "shutDisc")
         ELSE /\ cpc' = "shutDisc"
              /\ UNCHANGED <<req, ehInitialized, registered, ftpRunning,
                             lastResp, waitCmd, cont>>
    /\ UNCHANGED <<connVars, daemonVars, calls>>

(***************************************************************************)
(* Shutdown, end: if (connected_) DisconnectFromEtaHEN() (closes           *)
(* ipc_socket_ if not -1, connected_ = false); ShutdownIPC() (closes       *)
(* ipc_socket_ if not -1); initialized_ = false.  registered_ stays.       *)
(***************************************************************************)
\* Mutant: ipc_socket_ is set to -1 without close().
ShutDiscNoClose ==
    /\ cpc = "shutDisc"
    /\ sock' = NoSocket
    /\ connected' = FALSE
    /\ ehInitialized' = FALSE
    /\ cpc' = "idle"
    /\ UNCHANGED <<available, nextConn, open, req, registered, ftpRunning,
                   lastResp, waitCmd, cont, daemonVars, calls>>

ShutDisc ==
    /\ cpc = "shutDisc"
    /\ open' = open \ {sock}
    /\ sock' = NoSocket
    /\ connected' = FALSE
    /\ ehInitialized' = FALSE
    /\ cpc' = "idle"
    /\ UNCHANGED <<available, nextConn, req, registered, ftpRunning, lastResp,
                   waitCmd, cont, daemonVars, calls>>

\* ConnectToEtaHEN called directly; nothing keeps it from being called
\* while connected.
ConnectToEtaHEN ==
    /\ Call("ConnectToEtaHEN")
    /\ \E ok \in BOOLEAN : TryConnect(ok)
    /\ UNCHANGED <<available, sendVars, daemonVars>>

\* DisconnectFromEtaHEN: returns unless connected_; closes ipc_socket_ if
\* not -1; connected_ = false.  registered_ stays.
DisconnectFromEtaHEN ==
    /\ Call("DisconnectFromEtaHEN")
    /\ IF connected
         THEN /\ open' = open \ {sock}
              /\ sock' = NoSocket
              /\ connected' = FALSE
         ELSE UNCHANGED <<open, sock, connected>>
    /\ UNCHANGED <<available, nextConn, sendVars, daemonVars>>

RegisterWithEtaHEN ==
    /\ Call("RegisterWithEtaHEN")
    /\ Command("REGISTER")
    /\ UNCHANGED <<connVars, daemonVars>>

\* Mutant: UNREGISTER is sent and its reply never read.
UnregisterFromEtaHENNoRecv ==
    /\ Call("UnregisterFromEtaHEN")
    /\ IF registered /\ connected
         THEN /\ req' = [req EXCEPT ![sock] = Append(@, "UNREGISTER")]
              /\ registered' = FALSE
              /\ UNCHANGED <<ehInitialized, ftpRunning, lastResp, cpc,
                             waitCmd, cont>>
         ELSE UNCHANGED sendVars
    /\ UNCHANGED <<connVars, daemonVars>>

\* UnregisterFromEtaHEN: returns unless registered_ && connected_.
UnregisterFromEtaHEN ==
    /\ Call("UnregisterFromEtaHEN")
    /\ IF registered /\ connected
         THEN SendIPCCommand(sock, "UNREGISTER", "idle")
         ELSE UNCHANGED sendVars
    /\ UNCHANGED <<connVars, daemonVars>>

RequestJailbreak ==
    /\ Call("RequestJailbreak")
    /\ Command("JAILBREAK")
    /\ UNCHANGED <<connVars, daemonVars>>

EnableDataAccess ==
    /\ Call("EnableDataAccess")
    /\ Command("ENABLE_DATA")
    /\ UNCHANGED <<connVars, daemonVars>>

\* StartFTPServer: returns true at once if ftp_server_running_.
StartFTPServer ==
    /\ Call("StartFTPServer")
    /\ IF ftpRunning THEN UNCHANGED sendVars ELSE Command("START_FTP")
    /\ UNCHANGED <<connVars, daemonVars>>

\* StopFTPServer: returns unless ftp_server_running_ && connected_.
StopFTPServer ==
    /\ Call("StopFTPServer")
    /\ IF ftpRunning /\ connected
         THEN SendIPCCommand(sock, "STOP_FTP", "idle")
         ELSE UNCHANGED sendVars
    /\ UNCHANGED <<connVars, daemonVars>>

-----------------------------------------------------------------------------
(* The daemon (external).                                                  *)

\* It reads the next command of an open connection and answers it.
DaemonServe(c) ==
    /\ daemonUp
    /\ c \in open \ peerClosed
    /\ req[c] # <<>>
    /\ req' = [req EXCEPT ![c] = Tail(@)]
    /\ rsp' = [rsp EXCEPT ![c] = @ \o Reply(Head(req[c]))]
    /\ UNCHANGED <<ehInitialized, registered, ftpRunning, lastResp, cpc,
                   waitCmd, cont, connVars, peerClosed, daemonUp, crashes,
                   calls>>

\* It crashes: every connection is closed from its side and what it had
\* not read is lost; what it had sent stays readable.
DaemonCrash ==
    /\ daemonUp
    /\ crashes < MaxCrashes
    /\ daemonUp' = FALSE
    /\ crashes' = crashes + 1
    /\ peerClosed' = 1..nextConn
    /\ req' = [c \in Conns |-> <<>>]
    /\ UNCHANGED <<ehInitialized, registered, ftpRunning, lastResp, cpc,
                   waitCmd, cont, connVars, rsp, calls>>

DaemonRestart ==
    /\ ~daemonUp
    /\ daemonUp' = TRUE
    /\ UNCHANGED <<sendVars, connVars, rsp, peerClosed, crashes, calls>>

\* The caller has made its last call.
CallerDone ==
    /\ cpc = "idle"
    /\ calls = MaxCalls
    /\ UNCHANGED vars

EtNext ==
    \/ Initialize \/ Shutdown \/ ShutUnreg \/ ShutDisc
    \/ ConnectToEtaHEN \/ DisconnectFromEtaHEN
    \/ RegisterWithEtaHEN \/ UnregisterFromEtaHEN
    \/ RequestJailbreak \/ EnableDataAccess
    \/ StartFTPServer \/ StopFTPServer
    \/ RecvReply
    \/ \E c \in Conns : DaemonServe(c)
    \/ DaemonCrash \/ DaemonRestart
    \/ CallerDone

EtSpec == EtInit /\ [][EtNext]_vars

-----------------------------------------------------------------------------

EtTypeOK ==
    /\ {ehInitialized, available, connected, registered, ftpRunning,
        daemonUp} \subseteq BOOLEAN
    /\ nextConn \in 0..MaxConns
    /\ sock \in {NoSocket} \cup 1..nextConn
    /\ open \subseteq 1..nextConn
    /\ peerClosed \subseteq 1..nextConn
    /\ req \in [Conns -> Seq(Cmds)]
    /\ rsp \in [Conns -> Seq(Segment)]
    /\ crashes \in 0..MaxCrashes
    /\ cpc \in {"idle", "wait", "shutUnreg", "shutDisc"}
    /\ waitCmd \in Cmds \cup {NoCmd}
    /\ cont \in Conts
    /\ calls \in 0..MaxCalls
    /\ lastResp \in [cmd : Cmds \cup {NoCmd}, segs : Seq(Segment), ok : BOOLEAN]

(***************************************************************************)
(* ReplyIsOwn: the response SendIPCCommand hands back for a command is     *)
(* (part of) the daemon's reply to that command, not what is left of the   *)
(* reply to an earlier one.  The code sends no length and reads one        *)
(* recv(), so this rests on each reply arriving, and being read, whole.    *)
(***************************************************************************)
ReplyIsOwn ==
    lastResp.ok =>
        \A k \in 1..Len(lastResp.segs) : lastResp.segs[k].cmd = lastResp.cmd

(***************************************************************************)
(* SuccessHadReply: a SendIPCCommand that returns true has read a          *)
(* response from the daemon (RegisterWithEtaHEN, RequestJailbreak and the  *)
(* others report the daemon's success on its strength).                    *)
(***************************************************************************)
SuccessHadReply == lastResp.ok => lastResp.segs # <<>>

(***************************************************************************)
(* ConnectionConsistent: connected_ means ipc_socket_ is a socket, and     *)
(* every socket the plugin opened and has not closed is ipc_socket_: none  *)
(* is leaked by being overwritten.                                         *)
(***************************************************************************)
ConnectionConsistent ==
    /\ connected => sock # NoSocket
    /\ open \subseteq {sock}

(***************************************************************************)
(* FtpStoppedAtShutdown: Shutdown "stops any running services": when it    *)
(* returns, the FTP server it started is no longer marked running.         *)
(***************************************************************************)
FtpStoppedAtShutdown ==
    [][cpc = "shutDisc" /\ cpc' = "idle" => ~ftpRunning']_vars

=============================================================================
