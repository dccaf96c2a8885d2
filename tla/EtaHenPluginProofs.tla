------------------------ MODULE EtaHenPluginProofs -------------------------
(***************************************************************************)
(* Proofs about EtaHenPlugin: the plugin's flags, its sockets and the      *)
(* request/response exchange of SendIPCCommand, with the daemon as         *)
(* environment.  They hold for every number of calls, descriptors and      *)
(* crashes; two of them under a hypothesis on the calls or the replies,   *)
(* without which the runs find them false.                                 *)
(***************************************************************************)
EXTENDS EtaHenPlugin, SequenceTheorems, TLAPS

(***************************************************************************)
(* The type invariant, one conjunct per variable, strengthened: while the *)
(* caller blocks in recv(), ipc_socket_ is a socket and the command is     *)
(* one, since SendIPCCommand only waits after a send on one.               *)
(***************************************************************************)
TypeIInv ==
    /\ ehInitialized \in BOOLEAN /\ available \in BOOLEAN
    /\ connected \in BOOLEAN /\ registered \in BOOLEAN
    /\ ftpRunning \in BOOLEAN /\ daemonUp \in BOOLEAN
    /\ nextConn \in 0..MaxConns
    /\ sock \in {NoSocket} \cup 1..nextConn
    /\ open \subseteq 1..nextConn
    /\ peerClosed \subseteq 1..nextConn
    /\ req \in [Conns -> Seq(Cmds)]
    /\ rsp \in [Conns -> Seq(Segment)]
    /\ crashes \in 0..MaxCrashes
    /\ cpc \in {"idle", "wait", "shutUnreg", "shutDisc"}
    /\ waitCmd \in Cmds \cup {NoCmd}
    /\ cont \in Conts
    /\ calls \in 0..MaxCalls
    /\ lastResp \in [cmd : Cmds \cup {NoCmd}, segs : Seq(Segment), ok : BOOLEAN]
    /\ cpc = "wait" => sock \in Conns /\ waitCmd \in Cmds

(***************************************************************************)
(* The connection invariant, without ConnectToEtaHEN among the calls.      *)
(* The sockets open are ipc_socket_ alone while connected_ and none        *)
(* otherwise; an uninitialized plugin is not connected except inside       *)
(* Initialize's registration, and Shutdown runs on an initialized one.     *)
(***************************************************************************)
ConnIInv ==
    /\ open = IF connected THEN {sock} ELSE {}
    /\ connected => sock # NoSocket
    /\ ~ehInitialized /\ cpc # "wait" => ~connected
    /\ cpc = "wait" => (ehInitialized <=> cont # "init")
    /\ cpc \in {"shutUnreg", "shutDisc"} => ehInitialized

(***************************************************************************)
(* The reply invariant, with each reply in one piece.  A connection the   *)
(* daemon has not closed carries at most the pending command or its whole *)
(* reply, and only while the caller waits on it; a closed one may keep    *)
(* commands nobody reads, but a reply on it is still the pending one's.   *)
(***************************************************************************)
ReplyIInv ==
    /\ \A c \in Conns \ peerClosed :
          req[c] # <<>> \/ rsp[c] # <<>> =>
             /\ cpc = "wait" /\ c = sock
             /\ \/ req[c] = <<waitCmd>> /\ rsp[c] = <<>>
                \/ req[c] = <<>> /\ rsp[c] = Reply(waitCmd)
    /\ \A c \in peerClosed :
          rsp[c] # <<>> => cpc = "wait" /\ c = sock /\ rsp[c] = Reply(waitCmd)
    /\ ReplyIsOwn

-----------------------------------------------------------------------------
(***************************************************************************)
(* Type correctness.                                                       *)
(***************************************************************************)

LEMMA TypeIInvTyped == TypeIInv => EtTypeOK
BY DEF TypeIInv, EtTypeOK

LEMMA TypeIInvInit == EtInit => TypeIInv
<1> SUFFICES ASSUME EtInit PROVE TypeIInv
  OBVIOUS
<1>1. /\ req \in [Conns -> Seq(Cmds)] /\ rsp \in [Conns -> Seq(Segment)]
      /\ lastResp \in [cmd : Cmds \cup {NoCmd}, segs : Seq(Segment),
                       ok : BOOLEAN]
  BY EmptySeq DEF EtInit
<1>2. /\ nextConn \in 0..MaxConns /\ crashes \in 0..MaxCrashes
      /\ calls \in 0..MaxCalls /\ sock \in {NoSocket} \cup 1..nextConn
  BY EtaHenAssumption DEF EtInit
<1> QED
  BY <1>1, <1>2 DEF EtInit, TypeIInv, Conts

\* A reply is a sequence of segments.
LEMMA ReplyType == \A c \in Cmds : Reply(c) \in Seq(Segment)
BY EtaHenAssumption DEF Reply, Segment

\* What the caller's code after SendIPCCommand leaves in its variables.
LEMMA CompleteType ==
    ASSUME NEW cmd \in Cmds, NEW ok \in BOOLEAN, NEW segs \in Seq(Segment),
           NEW k \in Conts, registered \in BOOLEAN, ftpRunning \in BOOLEAN,
           ehInitialized \in BOOLEAN, Complete(cmd, ok, segs, k)
    PROVE  /\ registered' \in BOOLEAN /\ ftpRunning' \in BOOLEAN
           /\ ehInitialized' \in BOOLEAN
           /\ lastResp' \in [cmd : Cmds \cup {NoCmd}, segs : Seq(Segment),
                             ok : BOOLEAN]
           /\ cpc' \in {"idle", "shutUnreg", "shutDisc"}
           /\ waitCmd' = NoCmd /\ cont' = "idle"
BY DEF Complete, Conts

\* SendIPCCommand on -1 or a socket: it completes at once or leaves the
\* caller waiting in recv() on that socket.
LEMMA SendType ==
    ASSUME TypeIInv, NEW s \in {NoSocket} \cup Conns, NEW cmd \in Cmds,
           NEW k \in Conts, SendIPCCommand(s, cmd, k)
    PROVE  /\ req' \in [Conns -> Seq(Cmds)]
           /\ registered' \in BOOLEAN /\ ftpRunning' \in BOOLEAN
           /\ ehInitialized' \in BOOLEAN
           /\ lastResp' \in [cmd : Cmds \cup {NoCmd}, segs : Seq(Segment),
                             ok : BOOLEAN]
           /\ cpc' \in {"idle", "wait", "shutUnreg", "shutDisc"}
           /\ waitCmd' \in Cmds \cup {NoCmd} /\ cont' \in Conts
           /\ cpc' = "wait" => s \in Conns /\ waitCmd' \in Cmds
<1>1. CASE /\ s = NoSocket \/ s \in peerClosed
           /\ Complete(cmd, FALSE, <<>>, k)
           /\ UNCHANGED req
  <2>1. <<>> \in Seq(Segment) /\ FALSE \in BOOLEAN /\ req' = req
    BY <1>1, EmptySeq
  <2>2. /\ registered' \in BOOLEAN /\ ftpRunning' \in BOOLEAN
        /\ ehInitialized' \in BOOLEAN
        /\ lastResp' \in [cmd : Cmds \cup {NoCmd}, segs : Seq(Segment),
                          ok : BOOLEAN]
        /\ cpc' \in {"idle", "shutUnreg", "shutDisc"}
        /\ waitCmd' = NoCmd /\ cont' = "idle"
    BY <1>1, <2>1, CompleteType DEF TypeIInv
  <2> QED
    BY <2>1, <2>2 DEF TypeIInv, Conts
<1>2. CASE /\ s # NoSocket
           /\ req' = [req EXCEPT ![s] = Append(@, cmd)]
           /\ cpc' = "wait"
           /\ waitCmd' = cmd
           /\ cont' = k
           /\ UNCHANGED <<ehInitialized, registered, ftpRunning, lastResp>>
  <2>1. s \in Conns
    BY <1>2 DEF NoSocket, Conns
  <2>2. Append(req[s], cmd) \in Seq(Cmds)
    BY <2>1, AppendProperties DEF TypeIInv
  <2> QED
    BY <1>2, <2>1, <2>2 DEF TypeIInv
<1> QED
  BY <1>1, <1>2 DEF SendIPCCommand

\* ConnectToEtaHEN's socket() and connect(): a successful one takes the
\* next descriptor.
LEMMA TryConnectType ==
    ASSUME TypeIInv, NEW ok, TryConnect(ok)
    PROVE  /\ ok \in BOOLEAN
           /\ nextConn' \in 0..MaxConns /\ nextConn <= nextConn'
           /\ sock' \in {NoSocket} \cup 1..nextConn'
           /\ open' \subseteq 1..nextConn'
           /\ connected' \in BOOLEAN
           /\ ok => /\ nextConn' = nextConn + 1 /\ sock' = nextConn + 1
                    /\ sock' \in Conns
<1>1. nextConn \in 0..MaxConns /\ open \subseteq 1..nextConn
      /\ connected \in BOOLEAN /\ sock \in {NoSocket} \cup 1..nextConn
  BY DEF TypeIInv
<1>2. CASE /\ nextConn = MaxConns
           /\ ok = FALSE
           /\ sock' = NoSocket
           /\ UNCHANGED <<nextConn, open, connected>>
  <2>1. nextConn' = nextConn /\ open' = open /\ connected' = connected
    BY <1>2
  <2>2. ok = FALSE /\ sock' = 0
    BY <1>2 DEF NoSocket
  <2>3. ok \in BOOLEAN
    BY <2>2
  <2>4. nextConn' \in 0..MaxConns /\ nextConn <= nextConn'
    BY <1>1, <2>1
  <2>5. sock' \in {NoSocket} \cup 1..nextConn'
    BY <2>2 DEF NoSocket
  <2>6. open' \subseteq 1..nextConn' /\ connected' \in BOOLEAN
    BY <1>1, <2>1
  <2> QED
    BY <2>2, <2>3, <2>4, <2>5, <2>6
<1>3. CASE /\ nextConn < MaxConns
           /\ ~daemonUp
           /\ ok = FALSE
           /\ nextConn' = nextConn + 1
           /\ sock' = NoSocket
           /\ UNCHANGED <<open, connected>>
  <2>1. /\ nextConn' = nextConn + 1 /\ nextConn' \in 0..MaxConns
        /\ nextConn <= nextConn'
    BY <1>1, <1>3, EtaHenAssumption
  <2>2. open' \subseteq 1..nextConn' /\ connected' \in BOOLEAN
    BY <1>1, <1>3, <2>1
  <2>3. ok \in BOOLEAN /\ ~ok /\ sock' \in {NoSocket} \cup 1..nextConn'
    BY <1>3
  <2> QED
    BY <2>1, <2>2, <2>3
<1>4. CASE /\ nextConn < MaxConns
           /\ daemonUp
           /\ ok = TRUE
           /\ nextConn' = nextConn + 1
           /\ sock' = nextConn + 1
           /\ open' = open \cup {nextConn + 1}
           /\ connected' = TRUE
  BY <1>1, <1>4, EtaHenAssumption DEF NoSocket, Conns
<1> QED
  BY <1>2, <1>3, <1>4 DEF TryConnect

\* A caller step that sends on ipc_socket_ or changes none of the send
\* state, and touches neither the connection nor the daemon.
LEMMA SendStepType ==
    ASSUME TypeIInv, NEW cmd \in Cmds, NEW k \in Conts,
           SendIPCCommand(sock, cmd, k) \/ UNCHANGED sendVars,
           UNCHANGED <<connVars, daemonVars>>, calls' \in 0..MaxCalls
    PROVE  TypeIInv'
<1>1. sock \in {NoSocket} \cup Conns
  BY EtaHenAssumption DEF TypeIInv, Conns
<1>2. CASE SendIPCCommand(sock, cmd, k)
  BY <1>1, <1>2, SendType DEF TypeIInv, connVars, daemonVars
<1>3. CASE UNCHANGED sendVars
  BY <1>3 DEF TypeIInv, sendVars, connVars, daemonVars
<1> QED
  BY <1>2, <1>3

\* A public call counts against MaxCalls.
LEMMA CallType ==
    ASSUME TypeIInv, NEW f, Call(f)
    PROVE  calls' \in 0..MaxCalls /\ cpc = "idle"
BY EtaHenAssumption DEF Call, TypeIInv

LEMMA CallerStepsType ==
    ASSUME TypeIInv,
           \/ RegisterWithEtaHEN \/ RequestJailbreak \/ EnableDataAccess
           \/ UnregisterFromEtaHEN \/ StartFTPServer \/ StopFTPServer
    PROVE  TypeIInv'
<1>1. CASE RegisterWithEtaHEN \/ RequestJailbreak \/ EnableDataAccess
  <2>1. PICK cmd \in Cmds : /\ Command(cmd) /\ UNCHANGED <<connVars, daemonVars>>
                            /\ \E f : Call(f)
    BY <1>1 DEF RegisterWithEtaHEN, RequestJailbreak, EnableDataAccess, Cmds
  <2>2. calls' \in 0..MaxCalls
    BY <2>1, CallType
  <2>3. SendIPCCommand(sock, cmd, "idle") \/ UNCHANGED sendVars
    BY <2>1 DEF Command
  <2> QED
    BY <2>1, <2>2, <2>3, SendStepType DEF Conts
<1>2. CASE UnregisterFromEtaHEN \/ StopFTPServer \/ StartFTPServer
  <2>1. PICK cmd \in Cmds :
          /\ SendIPCCommand(sock, cmd, "idle") \/ UNCHANGED sendVars
          /\ UNCHANGED <<connVars, daemonVars>>
          /\ \E f : Call(f)
    BY <1>2 DEF UnregisterFromEtaHEN, StopFTPServer, StartFTPServer, Command,
                Cmds
  <2>2. calls' \in 0..MaxCalls
    BY <2>1, CallType
  <2> QED
    BY <2>1, <2>2, SendStepType DEF Conts
<1> QED
  BY <1>1, <1>2

\* Shutdown and its continuation after StopFTPServer.
LEMMA ShutdownStepsType ==
    ASSUME TypeIInv, Shutdown \/ ShutUnreg \/ ShutDisc
    PROVE  TypeIInv'
<1>1. sock \in {NoSocket} \cup Conns
  BY EtaHenAssumption DEF TypeIInv, Conns
<1>2. CASE Shutdown
  <2>1. calls' \in 0..MaxCalls
    BY <1>2, CallType DEF Shutdown
  <2>2. CASE ftpRunning /\ connected
    BY <1>1, <1>2, <2>1, <2>2, SendType
       DEF Shutdown, TypeIInv, connVars, daemonVars, Conts, Cmds
  <2>3. CASE ~(ftpRunning /\ connected)
    BY <1>2, <2>1, <2>3 DEF Shutdown, TypeIInv, connVars, daemonVars
  <2> QED
    BY <2>2, <2>3
<1>3. CASE ShutUnreg
  <2>2. CASE registered /\ connected
    BY <1>1, <1>3, <2>2, SendType
       DEF ShutUnreg, TypeIInv, connVars, daemonVars, Conts, Cmds
  <2>3. CASE ~(registered /\ connected)
    BY <1>3, <2>3 DEF ShutUnreg, TypeIInv, connVars, daemonVars
  <2> QED
    BY <2>2, <2>3
<1>4. CASE ShutDisc
  BY <1>4 DEF ShutDisc, TypeIInv, daemonVars, NoSocket
<1> QED
  BY <1>2, <1>3, <1>4

LEMMA ConnectStepsType ==
    ASSUME TypeIInv, Initialize \/ ConnectToEtaHEN \/ DisconnectFromEtaHEN
    PROVE  TypeIInv'
<1>1. CASE Initialize
  <2>1. calls' \in 0..MaxCalls /\ cpc = "idle"
    BY <1>1, CallType DEF Initialize
  <2>2. PICK ok \in BOOLEAN :
          /\ TryConnect(ok)
          /\ available' = ok
          /\ IF ok
               THEN SendIPCCommand(nextConn + 1, "REGISTER", "init")
               ELSE /\ ehInitialized' = TRUE
                    /\ UNCHANGED <<req, registered, ftpRunning, lastResp, cpc,
                                   waitCmd, cont>>
    BY <1>1 DEF Initialize
  <2>3. /\ nextConn' \in 0..MaxConns /\ nextConn <= nextConn'
        /\ sock' \in {NoSocket} \cup 1..nextConn'
        /\ open' \subseteq 1..nextConn' /\ connected' \in BOOLEAN
        /\ peerClosed' \subseteq 1..nextConn'
        /\ UNCHANGED <<rsp, daemonUp, crashes>>
    BY <1>1, <2>2, TryConnectType DEF Initialize, daemonVars, TypeIInv
  <2>4. CASE ok
    <3>1. nextConn + 1 \in Conns /\ sock' = nextConn + 1
      BY <2>2, <2>4, TryConnectType
    <3>2. /\ req' \in [Conns -> Seq(Cmds)]
          /\ registered' \in BOOLEAN /\ ftpRunning' \in BOOLEAN
          /\ ehInitialized' \in BOOLEAN
          /\ lastResp' \in [cmd : Cmds \cup {NoCmd}, segs : Seq(Segment),
                            ok : BOOLEAN]
          /\ cpc' \in {"idle", "wait", "shutUnreg", "shutDisc"}
          /\ waitCmd' \in Cmds \cup {NoCmd} /\ cont' \in Conts
          /\ cpc' = "wait" => waitCmd' \in Cmds
      BY <2>2, <2>4, <3>1, SendType DEF Cmds, Conts
    <3> QED
      BY <2>1, <2>2, <2>3, <3>1, <3>2 DEF TypeIInv
  <2>5. CASE ~ok
    BY <2>1, <2>2, <2>3, <2>5 DEF TypeIInv
  <2> QED
    BY <2>4, <2>5
<1>2. CASE ConnectToEtaHEN
  <2>1. calls' \in 0..MaxCalls /\ cpc = "idle"
    BY <1>2, CallType DEF ConnectToEtaHEN
  <2>2. PICK ok : TryConnect(ok)
    BY <1>2 DEF ConnectToEtaHEN
  <2>3. /\ nextConn' \in 0..MaxConns /\ nextConn <= nextConn'
        /\ sock' \in {NoSocket} \cup 1..nextConn'
        /\ open' \subseteq 1..nextConn' /\ connected' \in BOOLEAN
    BY <2>2, TryConnectType
  <2> QED
    BY <1>2, <2>1, <2>3 DEF ConnectToEtaHEN, TypeIInv, sendVars, daemonVars
<1>3. CASE DisconnectFromEtaHEN
  <2>1. calls' \in 0..MaxCalls /\ cpc = "idle"
    BY <1>3, CallType DEF DisconnectFromEtaHEN
  <2>2. UNCHANGED <<available, nextConn, req, ehInitialized, registered,
                    ftpRunning, lastResp, cpc, waitCmd, cont, rsp, peerClosed,
                    daemonUp, crashes>>
    BY <1>3 DEF DisconnectFromEtaHEN, sendVars, daemonVars
  <2>3. /\ open' \subseteq open /\ connected' \in BOOLEAN
        /\ sock' \in {NoSocket} \cup 1..nextConn
    BY <1>3 DEF DisconnectFromEtaHEN, TypeIInv, NoSocket
  <2> QED
    BY <2>1, <2>2, <2>3 DEF TypeIInv
<1> QED
  BY <1>1, <1>2, <1>3

\* recv() hands back a prefix of the pieces that arrived and leaves the rest.
LEMMA RecvType ==
    ASSUME TypeIInv, RecvReply
    PROVE  TypeIInv'
<1>1. sock \in Conns /\ waitCmd \in Cmds /\ rsp[sock] \in Seq(Segment)
  BY DEF RecvReply, TypeIInv
<1>2. CASE \E n \in 1..Len(rsp[sock]) :
             /\ rsp' = [rsp EXCEPT ![sock] = SubSeq(@, n + 1, Len(@))]
             /\ Complete(waitCmd, TRUE, SubSeq(rsp[sock], 1, n), cont)
  <2>1. PICK n \in 1..Len(rsp[sock]) :
             /\ rsp' = [rsp EXCEPT ![sock] = SubSeq(@, n + 1, Len(@))]
             /\ Complete(waitCmd, TRUE, SubSeq(rsp[sock], 1, n), cont)
    BY <1>2
  <2>2. /\ SubSeq(rsp[sock], n + 1, Len(rsp[sock])) \in Seq(Segment)
        /\ SubSeq(rsp[sock], 1, n) \in Seq(Segment)
    BY <1>1, SubSeqProperties, ElementOfSeq
  <2>3. rsp' \in [Conns -> Seq(Segment)]
    BY <1>1, <2>1, <2>2 DEF TypeIInv
  <2>4. /\ registered' \in BOOLEAN /\ ftpRunning' \in BOOLEAN
        /\ ehInitialized' \in BOOLEAN
        /\ lastResp' \in [cmd : Cmds \cup {NoCmd}, segs : Seq(Segment),
                          ok : BOOLEAN]
        /\ cpc' \in {"idle", "shutUnreg", "shutDisc"}
        /\ waitCmd' = NoCmd /\ cont' = "idle"
    BY <1>1, <2>1, <2>2, CompleteType DEF TypeIInv
  <2> QED
    BY <1>2, <2>3, <2>4 DEF RecvReply, TypeIInv, connVars, Conts
<1>3. CASE /\ sock \in peerClosed
           /\ rsp[sock] = <<>>
           /\ \E ok \in BOOLEAN : Complete(waitCmd, ok, <<>>, cont)
           /\ UNCHANGED rsp
  <2>1. PICK ok \in BOOLEAN : Complete(waitCmd, ok, <<>>, cont)
    BY <1>3
  <2>2. /\ registered' \in BOOLEAN /\ ftpRunning' \in BOOLEAN
        /\ ehInitialized' \in BOOLEAN
        /\ lastResp' \in [cmd : Cmds \cup {NoCmd}, segs : Seq(Segment),
                          ok : BOOLEAN]
        /\ cpc' \in {"idle", "shutUnreg", "shutDisc"}
        /\ waitCmd' = NoCmd /\ cont' = "idle"
    BY <1>1, <2>1, EmptySeq, CompleteType DEF TypeIInv
  <2> QED
    BY <1>3, <2>2 DEF RecvReply, TypeIInv, connVars, Conts
<1> QED
  BY <1>2, <1>3 DEF RecvReply

\* The daemon reads a command and appends its reply, crashes, or restarts.
LEMMA DaemonStepsType ==
    ASSUME TypeIInv,
           (\E c \in Conns : DaemonServe(c)) \/ DaemonCrash \/ DaemonRestart
    PROVE  TypeIInv'
<1>1. CASE \E c \in Conns : DaemonServe(c)
  <2>1. PICK c \in Conns : DaemonServe(c)
    BY <1>1
  <2>2. req[c] \in Seq(Cmds) /\ req[c] # <<>> /\ rsp[c] \in Seq(Segment)
    BY <2>1 DEF DaemonServe, TypeIInv
  <2>3. Tail(req[c]) \in Seq(Cmds) /\ Head(req[c]) \in Cmds
    BY <2>2, HeadTailProperties
  <2>4. rsp[c] \o Reply(Head(req[c])) \in Seq(Segment)
    BY <2>2, <2>3, ReplyType, ConcatProperties
  <2>5. req' \in [Conns -> Seq(Cmds)] /\ rsp' \in [Conns -> Seq(Segment)]
    BY <2>1, <2>3, <2>4 DEF DaemonServe, TypeIInv
  <2>6. UNCHANGED <<ehInitialized, registered, ftpRunning, lastResp, cpc,
                    waitCmd, cont, available, connected, sock, nextConn, open,
                    peerClosed, daemonUp, crashes, calls>>
    BY <2>1 DEF DaemonServe, connVars
  <2> QED
    BY <2>5, <2>6 DEF TypeIInv
<1>2. CASE DaemonCrash
  <2>0. <<>> \in Seq(Cmds)
    BY EmptySeq
  <2>1. req' \in [Conns -> Seq(Cmds)] /\ crashes' \in 0..MaxCrashes
    <3>1. req' \in [Conns -> Seq(Cmds)]
      BY <1>2, <2>0 DEF DaemonCrash
    <3>2. crashes' \in 0..MaxCrashes
      BY <1>2, EtaHenAssumption DEF DaemonCrash, TypeIInv
    <3> QED
      BY <3>1, <3>2
  <2>2. UNCHANGED <<ehInitialized, registered, ftpRunning, lastResp, cpc,
                    waitCmd, cont, available, connected, sock, nextConn, open,
                    rsp, calls>>
    BY <1>2 DEF DaemonCrash, connVars
  <2> QED
    BY <1>2, <2>1, <2>2 DEF DaemonCrash, TypeIInv
<1>3. CASE DaemonRestart
  <2>1. UNCHANGED <<ehInitialized, registered, ftpRunning, lastResp, cpc,
                    waitCmd, cont, available, connected, sock, nextConn, open,
                    req, rsp, peerClosed, crashes, calls>>
    BY <1>3 DEF DaemonRestart, sendVars, connVars
  <2> QED
    BY <1>3, <2>1 DEF DaemonRestart, TypeIInv
<1> QED
  BY <1>1, <1>2, <1>3

LEMMA TypeIInvNext == TypeIInv /\ [EtNext]_vars => TypeIInv'
<1> SUFFICES ASSUME TypeIInv, [EtNext]_vars PROVE TypeIInv'
  OBVIOUS
<1>1. CASE \/ RegisterWithEtaHEN \/ RequestJailbreak \/ EnableDataAccess
           \/ UnregisterFromEtaHEN \/ StartFTPServer \/ StopFTPServer
  BY <1>1, CallerStepsType
<1>2. CASE Shutdown \/ ShutUnreg \/ ShutDisc
  BY <1>2, ShutdownStepsType
<1>3. CASE Initialize \/ ConnectToEtaHEN \/ DisconnectFromEtaHEN
  BY <1>3, ConnectStepsType
<1>4. CASE RecvReply
  BY <1>4, RecvType
<1>5. CASE (\E c \in Conns : DaemonServe(c)) \/ DaemonCrash \/ DaemonRestart
  BY <1>5, DaemonStepsType
<1>6. CASE CallerDone \/ UNCHANGED vars
  BY <1>6 DEF CallerDone, vars, TypeIInv
<1> QED
  BY <1>1, <1>2, <1>3, <1>4, <1>5, <1>6 DEF EtNext

\* EtTypeOK: every variable of the plugin, its sockets, their queues and
\* the caller keeps its type under any sequence of calls and daemon steps.
THEOREM EtTypeCorrect == EtSpec => []EtTypeOK
<1>1. EtSpec => []TypeIInv
  BY TypeIInvInit, TypeIInvNext, PTL DEF EtSpec
<1> QED
  BY <1>1, TypeIInvTyped, PTL

-----------------------------------------------------------------------------
(***************************************************************************)
(* The connection invariant, for callers that never call ConnectToEtaHEN  *)
(* themselves (main() calls only Initialize, the commands and Shutdown).   *)
(***************************************************************************)

\* What SendIPCCommand does to the caller's flags: it completes at once,
\* or leaves the caller in recv() on a socket with the continuation k.
LEMMA SendFlags ==
    ASSUME NEW s, NEW cmd, NEW k, SendIPCCommand(s, cmd, k)
    PROVE  \/ /\ cpc' = IF k \in {"idle", "init"} THEN "idle" ELSE k
              /\ ehInitialized' = (ehInitialized \/ k = "init")
           \/ /\ s # NoSocket /\ cpc' = "wait" /\ cont' = k
              /\ ehInitialized' = ehInitialized
BY DEF SendIPCCommand, Complete

\* A public call from the idle caller that sends on a connected socket or
\* leaves the send state alone, and does not touch the connection.
LEMMA IdleSendConn ==
    ASSUME TypeIInv, ConnIInv, cpc = "idle", UNCHANGED connVars, NEW cmd,
           \/ connected /\ SendIPCCommand(sock, cmd, "idle")
           \/ UNCHANGED sendVars
    PROVE  ConnIInv'
<1>1. CASE connected /\ SendIPCCommand(sock, cmd, "idle")
  <2>1. ehInitialized = TRUE
    BY <1>1 DEF ConnIInv, TypeIInv
  <2>2. /\ ehInitialized' = TRUE
        /\ \/ cpc' = "idle"
           \/ cpc' = "wait" /\ cont' = "idle"
    BY <1>1, <2>1, SendFlags
  <2> QED
    BY <2>2 DEF ConnIInv, connVars
<1>2. CASE UNCHANGED sendVars
  BY <1>2 DEF ConnIInv, sendVars, connVars
<1> QED
  BY <1>1, <1>2

\* Shutdown's sends, with initialized_ set and the continuation inside
\* Shutdown.
LEMMA ShutSendConn ==
    ASSUME TypeIInv, ConnIInv, ehInitialized = TRUE, UNCHANGED connVars,
           NEW k \in {"shutUnreg", "shutDisc"}, NEW cmd,
           \/ SendIPCCommand(sock, cmd, k)
           \/ cpc' = k /\ UNCHANGED ehInitialized
    PROVE  ConnIInv'
<1>1. /\ ehInitialized' = TRUE
      /\ \/ cpc' = k
         \/ cpc' = "wait" /\ cont' = k
  BY SendFlags
<1> QED
  BY <1>1 DEF ConnIInv, connVars

LEMMA ConnIInvInit == EtInit => ConnIInv
BY DEF EtInit, ConnIInv

LEMMA CallerStepsConn ==
    ASSUME TypeIInv, ConnIInv,
           \/ RegisterWithEtaHEN \/ RequestJailbreak \/ EnableDataAccess
           \/ UnregisterFromEtaHEN \/ StartFTPServer \/ StopFTPServer
    PROVE  ConnIInv'
<1>1. PICK cmd :
        /\ \/ connected /\ SendIPCCommand(sock, cmd, "idle")
           \/ UNCHANGED sendVars
        /\ UNCHANGED connVars
        /\ \E f : Call(f)
  BY DEF RegisterWithEtaHEN, RequestJailbreak, EnableDataAccess,
         UnregisterFromEtaHEN, StartFTPServer, StopFTPServer, Command
<1>2. cpc = "idle"
  BY <1>1, CallType
<1> QED
  BY <1>1, <1>2, IdleSendConn

LEMMA ShutdownStepsConn ==
    ASSUME TypeIInv, ConnIInv, Shutdown \/ ShutUnreg \/ ShutDisc
    PROVE  ConnIInv'
<1>1. CASE Shutdown
  <2>1. ehInitialized = TRUE
    BY <1>1 DEF Shutdown, TypeIInv
  <2>2. \/ SendIPCCommand(sock, "STOP_FTP", "shutUnreg")
        \/ cpc' = "shutUnreg" /\ UNCHANGED ehInitialized
    BY <1>1 DEF Shutdown
  <2> QED
    BY <1>1, <2>1, <2>2, ShutSendConn DEF Shutdown
<1>2. CASE ShutUnreg
  <2>1. ehInitialized = TRUE
    BY <1>2 DEF ShutUnreg, ConnIInv, TypeIInv
  <2>2. \/ SendIPCCommand(sock, "UNREGISTER", "shutDisc")
        \/ cpc' = "shutDisc" /\ UNCHANGED ehInitialized
    BY <1>2 DEF ShutUnreg
  <2> QED
    BY <1>2, <2>1, <2>2, ShutSendConn DEF ShutUnreg
<1>3. CASE ShutDisc
  <2>1. open' = {} /\ connected' = FALSE
    BY <1>3 DEF ShutDisc, ConnIInv
  <2> QED
    BY <1>3, <2>1 DEF ShutDisc, ConnIInv
<1> QED
  BY <1>1, <1>2, <1>3

\* Initialize runs only while nothing is connected: a successful connect
\* leaves the caller waiting on the new socket for the REGISTER reply, a
\* failed one marks the plugin initialized with nothing open.
LEMMA InitializeConn ==
    ASSUME TypeIInv, ConnIInv, Initialize
    PROVE  ConnIInv'
<1>1. cpc = "idle" /\ ehInitialized = FALSE
  BY CallType DEF Initialize, TypeIInv
<1>2. connected = FALSE /\ open = {}
  BY <1>1 DEF ConnIInv, TypeIInv
<1>3. PICK ok \in BOOLEAN :
        /\ TryConnect(ok)
        /\ IF ok
             THEN SendIPCCommand(nextConn + 1, "REGISTER", "init")
             ELSE /\ ehInitialized' = TRUE
                  /\ UNCHANGED <<cpc, cont>>
  BY DEF Initialize
<1>4. CASE ok
  <2>1. /\ sock' = nextConn + 1 /\ open' = open \cup {nextConn + 1}
        /\ connected' = TRUE /\ nextConn \in Nat
    BY <1>3, <1>4 DEF TryConnect, TypeIInv
  <2>2. nextConn + 1 # NoSocket /\ nextConn + 1 \notin peerClosed
    BY <2>1 DEF NoSocket, TypeIInv
  <2>3. cpc' = "wait" /\ cont' = "init" /\ ehInitialized' = FALSE
    BY <1>1, <1>3, <1>4, <2>2 DEF SendIPCCommand
  <2> QED
    BY <1>2, <2>1, <2>2, <2>3 DEF ConnIInv
<1>5. CASE ~ok
  <2>1. connected' = connected
    BY <1>3, <1>5 DEF TryConnect
  <2>2. open' = open
    BY <1>3, <1>5 DEF TryConnect
  <2>3. ehInitialized' = TRUE /\ cpc' = "idle"
    BY <1>1, <1>3, <1>5
  <2> QED
    BY <1>2, <2>1, <2>2, <2>3 DEF ConnIInv
<1> QED
  BY <1>4, <1>5

LEMMA DisconnectConn ==
    ASSUME ConnIInv, DisconnectFromEtaHEN
    PROVE  ConnIInv'
<1>1. UNCHANGED <<ehInitialized, cpc, cont>>
  BY DEF DisconnectFromEtaHEN, sendVars
<1>2. CASE connected
  <2>1. open' = {} /\ connected' = FALSE
    BY <1>2 DEF DisconnectFromEtaHEN, ConnIInv
  <2> QED
    BY <1>1, <2>1 DEF ConnIInv
<1>3. CASE ~connected
  BY <1>1, <1>3 DEF DisconnectFromEtaHEN, ConnIInv
<1> QED
  BY <1>2, <1>3

\* recv() returns into a caller that is initialized_ by then: either it
\* was, or the pending command is Initialize's REGISTER.
LEMMA RecvConn ==
    ASSUME TypeIInv, ConnIInv, RecvReply
    PROVE  ConnIInv'
<1>1. PICK ok, segs : Complete(waitCmd, ok, segs, cont)
  BY DEF RecvReply
<1>2. cpc = "wait" /\ cont \in Conts /\ UNCHANGED connVars
  BY DEF RecvReply, TypeIInv
<1>3. ehInitialized \/ cont = "init"
  BY <1>2 DEF ConnIInv
<1>4. ehInitialized' = TRUE /\ cpc' \in {"idle", "shutUnreg", "shutDisc"}
  BY <1>1, <1>2, <1>3 DEF Complete, Conts
<1> QED
  BY <1>2, <1>4 DEF ConnIInv, connVars

LEMMA DaemonStepsConn ==
    ASSUME ConnIInv,
           \/ \E c \in Conns : DaemonServe(c)
           \/ DaemonCrash \/ DaemonRestart \/ CallerDone \/ UNCHANGED vars
    PROVE  ConnIInv'
<1>1. UNCHANGED <<ehInitialized, cpc, cont, connected, sock, open>>
  BY DEF DaemonServe, DaemonCrash, DaemonRestart, CallerDone, vars,
         sendVars, connVars
<1> QED
  BY <1>1 DEF ConnIInv

LEMMA ConnIInvNext ==
    ASSUME "ConnectToEtaHEN" \notin Calls
    PROVE  TypeIInv /\ ConnIInv /\ [EtNext]_vars => ConnIInv'
<1> SUFFICES ASSUME TypeIInv, ConnIInv, [EtNext]_vars PROVE ConnIInv'
  OBVIOUS
<1>1. ~ConnectToEtaHEN
  BY DEF ConnectToEtaHEN, Call
<1>2. CASE \/ RegisterWithEtaHEN \/ RequestJailbreak \/ EnableDataAccess
           \/ UnregisterFromEtaHEN \/ StartFTPServer \/ StopFTPServer
  BY <1>2, CallerStepsConn
<1>3. CASE Shutdown \/ ShutUnreg \/ ShutDisc
  BY <1>3, ShutdownStepsConn
<1>4. CASE Initialize
  BY <1>4, InitializeConn
<1>5. CASE DisconnectFromEtaHEN
  BY <1>5, DisconnectConn
<1>6. CASE RecvReply
  BY <1>6, RecvConn
<1>7. CASE \/ \E c \in Conns : DaemonServe(c)
           \/ DaemonCrash \/ DaemonRestart \/ CallerDone \/ UNCHANGED vars
  BY <1>7, DaemonStepsConn
<1> QED
  BY <1>1, <1>2, <1>3, <1>4, <1>5, <1>6, <1>7 DEF EtNext

\* ConnectionConsistent, for every caller that does not call
\* ConnectToEtaHEN directly (main()'s): connected_ implies ipc_socket_ is
\* a socket, and no socket the plugin opened is left open other than
\* ipc_socket_.  A caller that does call it can leak one (the socket is
\* overwritten, etahen_reconnect's finding), so the hypothesis is needed.
THEOREM ConnectionConsistentHolds ==
    "ConnectToEtaHEN" \notin Calls => (EtSpec => []ConnectionConsistent)
<1> SUFFICES ASSUME "ConnectToEtaHEN" \notin Calls
             PROVE  EtSpec => []ConnectionConsistent
  OBVIOUS
<1>1. TypeIInv /\ ConnIInv => ConnectionConsistent
  BY DEF ConnIInv, ConnectionConsistent
<1>2. EtSpec => [](TypeIInv /\ ConnIInv)
  BY TypeIInvInit, TypeIInvNext, ConnIInvInit, ConnIInvNext, PTL DEF EtSpec
<1> QED
  BY <1>1, <1>2, PTL

-----------------------------------------------------------------------------
(***************************************************************************)
(* The reply invariant, when each reply reaches the client in one piece.  *)
(***************************************************************************)

\* No reply is on its way and no open socket holds an unread command.
Quiet(S) ==
    \A c \in S : rsp[c] = <<>> /\ (c \notin peerClosed => req[c] = <<>>)

\* A one-piece reply.
LEMMA ReplyOne ==
    ASSUME ReplySegments = 1, NEW w \in Cmds
    PROVE  /\ Len(Reply(w)) = 1 /\ Reply(w) # <<>>
           /\ SubSeq(Reply(w), 1, 1) = Reply(w)
           /\ SubSeq(Reply(w), 2, 1) = <<>>
           /\ Reply(w)[1].cmd = w
<1>1. Reply(w) = <<[cmd |-> w, part |-> 1]>>
  BY DEF Reply
<1>2. Len(Reply(w)) = 1 /\ Reply(w) # <<>> /\ Reply(w)[1].cmd = w
  BY <1>1
<1>3. SubSeq(Reply(w), 1, 1) = Reply(w)
  BY <1>2, ReplyType, SubSeqFull
<1>4. SubSeq(Reply(w), 2, 1) = <<>>
  BY SubSeqEmpty
<1> QED
  BY <1>2, <1>3, <1>4

\* Only ipc_socket_ can hold the pending exchange.
LEMMA OthersQuiet ==
    ASSUME ReplyIInv
    PROVE  Quiet(Conns \ {sock})
BY DEF ReplyIInv, Quiet

\* Outside recv() nothing is pending anywhere.
LEMMA QuietIfNotWait ==
    ASSUME ReplyIInv, cpc # "wait"
    PROVE  Quiet(Conns)
BY DEF ReplyIInv, Quiet

LEMMA QuietReply ==
    ASSUME Quiet(Conns)', cpc' # "wait", ReplyIsOwn', peerClosed' \subseteq Conns
    PROVE  ReplyIInv'
<1>1. \A c \in Conns : rsp'[c] = <<>> /\ (c \notin peerClosed' => req'[c] = <<>>)
  BY DEF Quiet
<1>2. \A c \in Conns \ peerClosed' : req'[c] = <<>> /\ rsp'[c] = <<>>
  BY <1>1
<1>3. \A c \in peerClosed' : rsp'[c] = <<>>
  BY <1>1
<1> QED
  BY <1>2, <1>3 DEF ReplyIInv

\* Sockets are numbered from 1 to MaxConns.
LEMMA PeerClosedConns ==
    ASSUME TypeIInv
    PROVE  peerClosed \subseteq Conns /\ open \subseteq Conns
BY EtaHenAssumption DEF TypeIInv, Conns

\* A step outside recv() that sends nothing, reads nothing and returns no
\* response (ConnectToEtaHEN, DisconnectFromEtaHEN, the end of Shutdown, a
\* command on a closed connection).
LEMMA QuietStep ==
    ASSUME TypeIInv, ReplyIInv, cpc # "wait", cpc' # "wait",
           UNCHANGED <<req, rsp, peerClosed, lastResp>>
    PROVE  ReplyIInv'
<1>1. Quiet(Conns)'
  BY QuietIfNotWait DEF Quiet
<1>2. ReplyIsOwn'
  BY DEF ReplyIInv, ReplyIsOwn
<1> QED
  BY <1>1, <1>2, PeerClosedConns, QuietReply

\* SendIPCCommand from outside recv(): it fails at once with no response,
\* or its command is the only one pending, on the socket the caller then
\* waits on.
LEMMA SendReply ==
    ASSUME TypeIInv, ReplyIInv, cpc # "wait",
           NEW s \in {NoSocket} \cup Conns, NEW cmd \in Cmds, NEW k \in Conts,
           SendIPCCommand(s, cmd, k), sock' = s, UNCHANGED <<rsp, peerClosed>>
    PROVE  ReplyIInv'
<1>1. Quiet(Conns)
  BY QuietIfNotWait
<1>2. CASE /\ s = NoSocket \/ s \in peerClosed
           /\ Complete(cmd, FALSE, <<>>, k)
           /\ UNCHANGED req
  <2>1. cpc' # "wait" /\ lastResp'.ok = FALSE
    BY <1>2 DEF Complete, Conts
  <2>2. Quiet(Conns)'
    BY <1>1, <1>2 DEF Quiet
  <2> QED
    BY <1>2, <2>1, <2>2, PeerClosedConns, QuietReply DEF ReplyIsOwn
<1>3. CASE /\ s # NoSocket
           /\ req' = [req EXCEPT ![s] = Append(@, cmd)]
           /\ cpc' = "wait"
           /\ waitCmd' = cmd
           /\ UNCHANGED lastResp
  <2>1. s \in Conns /\ req[s] \in Seq(Cmds)
    BY <1>3 DEF NoSocket, TypeIInv
  <2>2. s \notin peerClosed => req'[s] = <<cmd>>
    <3>1. s \notin peerClosed => req[s] = <<>>
      BY <1>1, <2>1 DEF Quiet
    <3>2. req'[s] = Append(req[s], cmd)
      BY <1>3, <2>1 DEF TypeIInv
    <3>3. Append(<<>>, cmd) = <<cmd>>
      <4>1. Append(<<>>, cmd) \in Seq(Cmds) /\ Len(Append(<<>>, cmd)) = 1
            /\ Append(<<>>, cmd)[1] = cmd
        BY EmptySeq, AppendProperties
      <4> QED
        BY <4>1, SeqEqual
    <3> QED
      BY <3>1, <3>2, <3>3
  <2>3. \A c \in Conns \ {s} : req'[c] = req[c]
    BY <1>3, <2>1 DEF TypeIInv
  <2>4. ReplyIsOwn'
    BY <1>3 DEF ReplyIInv, ReplyIsOwn
  <2>5. ASSUME NEW c \in Conns \ peerClosed', req'[c] # <<>> \/ rsp'[c] # <<>>
        PROVE  /\ cpc' = "wait" /\ c = sock'
               /\ \/ req'[c] = <<waitCmd'>> /\ rsp'[c] = <<>>
                  \/ req'[c] = <<>> /\ rsp'[c] = Reply(waitCmd')
    <3>1. rsp'[c] = <<>> /\ (c # s => req'[c] = <<>>)
      BY <1>1, <2>3 DEF Quiet
    <3>2. c = s
      BY <2>5, <3>1
    <3> QED
      BY <1>3, <2>2, <3>1, <3>2
  <2>6. \A c \in peerClosed' : rsp'[c] = <<>>
    BY <1>1, PeerClosedConns DEF Quiet
  <2> QED
    BY <2>4, <2>5, <2>6 DEF ReplyIInv
<1> QED
  BY <1>2, <1>3 DEF SendIPCCommand

LEMMA CallerStepsReply ==
    ASSUME TypeIInv, ReplyIInv,
           \/ RegisterWithEtaHEN \/ RequestJailbreak \/ EnableDataAccess
           \/ UnregisterFromEtaHEN \/ StartFTPServer \/ StopFTPServer
    PROVE  ReplyIInv'
<1>1. PICK cmd \in Cmds :
        /\ SendIPCCommand(sock, cmd, "idle") \/ UNCHANGED sendVars
        /\ UNCHANGED <<connVars, daemonVars>>
        /\ \E f : Call(f)
  BY DEF RegisterWithEtaHEN, RequestJailbreak, EnableDataAccess,
         UnregisterFromEtaHEN, StartFTPServer, StopFTPServer, Command, Cmds
<1>2. cpc = "idle" /\ sock' = sock /\ UNCHANGED <<rsp, peerClosed>>
      /\ sock \in {NoSocket} \cup Conns
  BY <1>1, CallType, EtaHenAssumption DEF connVars, daemonVars, TypeIInv, Conns
<1>3. CASE SendIPCCommand(sock, cmd, "idle")
  BY <1>2, <1>3, SendReply DEF Conts
<1>4. CASE UNCHANGED sendVars
  BY <1>2, <1>4, QuietStep DEF sendVars
<1> QED
  BY <1>1, <1>3, <1>4

LEMMA ShutdownStepsReply ==
    ASSUME TypeIInv, ReplyIInv, Shutdown \/ ShutUnreg \/ ShutDisc
    PROVE  ReplyIInv'
<1>1. sock \in {NoSocket} \cup Conns
  BY EtaHenAssumption DEF TypeIInv, Conns
<1>2. CASE Shutdown
  <2>1. cpc = "idle" /\ sock' = sock /\ UNCHANGED <<rsp, peerClosed>>
    BY <1>2, CallType DEF Shutdown, connVars, daemonVars
  <2>2. CASE ftpRunning /\ connected
    BY <1>1, <1>2, <2>1, <2>2, SendReply DEF Shutdown, Conts, Cmds
  <2>3. CASE ~(ftpRunning /\ connected)
    BY <1>2, <2>1, <2>3, QuietStep DEF Shutdown
  <2> QED
    BY <2>2, <2>3
<1>3. CASE ShutUnreg
  <2>1. cpc = "shutUnreg" /\ sock' = sock /\ UNCHANGED <<rsp, peerClosed>>
    BY <1>3 DEF ShutUnreg, connVars, daemonVars
  <2>2. CASE registered /\ connected
    BY <1>1, <1>3, <2>1, <2>2, SendReply DEF ShutUnreg, Conts, Cmds
  <2>3. CASE ~(registered /\ connected)
    BY <1>3, <2>1, <2>3, QuietStep DEF ShutUnreg
  <2> QED
    BY <2>2, <2>3
<1>4. CASE ShutDisc
  BY <1>4, QuietStep DEF ShutDisc, daemonVars
<1> QED
  BY <1>2, <1>3, <1>4

LEMMA ConnectStepsReply ==
    ASSUME TypeIInv, ReplyIInv,
           Initialize \/ ConnectToEtaHEN \/ DisconnectFromEtaHEN
    PROVE  ReplyIInv'
<1>1. CASE Initialize
  <2>1. cpc = "idle" /\ UNCHANGED <<rsp, peerClosed>>
    BY <1>1, CallType DEF Initialize, daemonVars
  <2>2. PICK ok \in BOOLEAN :
          /\ TryConnect(ok)
          /\ IF ok
               THEN SendIPCCommand(nextConn + 1, "REGISTER", "init")
               ELSE UNCHANGED <<req, lastResp, cpc>>
    BY <1>1 DEF Initialize
  <2>3. CASE ok
    <3>1. nextConn + 1 \in Conns /\ sock' = nextConn + 1
      BY <2>2, <2>3, TryConnectType
    <3> QED
      BY <2>1, <2>2, <2>3, <3>1, SendReply DEF Cmds, Conts
  <2>4. CASE ~ok
    BY <2>1, <2>2, <2>4, QuietStep
  <2> QED
    BY <2>3, <2>4
<1>2. CASE ConnectToEtaHEN \/ DisconnectFromEtaHEN
  <2>1. cpc = "idle"
    BY <1>2, CallType DEF ConnectToEtaHEN, DisconnectFromEtaHEN
  <2>2. UNCHANGED <<req, rsp, peerClosed, lastResp, cpc>>
    BY <1>2 DEF ConnectToEtaHEN, DisconnectFromEtaHEN, sendVars, daemonVars
  <2> QED
    BY <2>1, <2>2, QuietStep
<1> QED
  BY <1>1, <1>2

\* A reply on its way is on ipc_socket_ and answers the pending command.
LEMMA RspPending ==
    ASSUME ReplyIInv, NEW c \in Conns, rsp[c] # <<>>
    PROVE  /\ cpc = "wait" /\ c = sock /\ rsp[c] = Reply(waitCmd)
           /\ c \notin peerClosed => req[c] = <<>>
BY DEF ReplyIInv

\* With one-piece replies recv() reads the whole reply to the pending
\* command, or nothing from a socket the daemon closed.
LEMMA RecvReplyReply ==
    ASSUME ReplySegments = 1, TypeIInv, ReplyIInv, RecvReply
    PROVE  ReplyIInv'
<1>1. /\ cpc = "wait" /\ sock \in Conns /\ waitCmd \in Cmds /\ cont \in Conts
      /\ UNCHANGED <<req, peerClosed>>
  BY DEF RecvReply, TypeIInv
<1>2. Quiet(Conns \ {sock})
  BY OthersQuiet
<1>3. PICK ok, segs : Complete(waitCmd, ok, segs, cont)
  BY DEF RecvReply
<1>4. cpc' # "wait"
  BY <1>1, <1>3 DEF Complete, Conts
<1>5. CASE \E n \in 1..Len(rsp[sock]) :
             /\ rsp' = [rsp EXCEPT ![sock] = SubSeq(@, n + 1, Len(@))]
             /\ Complete(waitCmd, TRUE, SubSeq(rsp[sock], 1, n), cont)
  <2>1. PICK n \in 1..Len(rsp[sock]) :
          /\ rsp' = [rsp EXCEPT ![sock] = SubSeq(@, n + 1, Len(@))]
          /\ Complete(waitCmd, TRUE, SubSeq(rsp[sock], 1, n), cont)
    BY <1>5
  <2>2. rsp[sock] = Reply(waitCmd) /\ (sock \notin peerClosed => req[sock] = <<>>)
    BY <1>1, <2>1, RspPending
  <2>3. n = 1 /\ Len(rsp[sock]) = 1
    <3>1. Len(Reply(waitCmd)) = 1
      BY <1>1, ReplyOne
    <3> QED
      BY <2>1, <2>2, <3>1
  <2>4. rsp'[sock] = <<>>
    BY <1>1, <2>1, <2>2, <2>3, ReplyOne DEF TypeIInv
  <2>5. lastResp' = [cmd |-> waitCmd, segs |-> Reply(waitCmd), ok |-> TRUE]
    BY <1>1, <2>1, <2>2, <2>3, ReplyOne DEF Complete
  <2>6. ReplyIsOwn'
    BY <1>1, <2>5, ReplyOne DEF ReplyIsOwn
  <2>7. \A c \in Conns \ {sock} : rsp'[c] = rsp[c]
    BY <2>1 DEF TypeIInv
  <2>8. Quiet(Conns)'
    BY <1>1, <1>2, <2>2, <2>4, <2>7 DEF Quiet
  <2> QED
    BY <1>1, <1>4, <2>6, <2>8, PeerClosedConns, QuietReply
<1>6. CASE /\ sock \in peerClosed
           /\ rsp[sock] = <<>>
           /\ \E b \in BOOLEAN : Complete(waitCmd, b, <<>>, cont)
           /\ UNCHANGED rsp
  <2>1. ReplyIsOwn'
    BY <1>6 DEF Complete, ReplyIsOwn
  <2>2. Quiet(Conns)'
    BY <1>1, <1>2, <1>6 DEF Quiet
  <2> QED
    BY <1>1, <1>4, <2>1, <2>2, PeerClosedConns, QuietReply
<1> QED
  BY <1>5, <1>6 DEF RecvReply

\* The daemon answers the one pending command on an open connection.
LEMMA DaemonServeReply ==
    ASSUME TypeIInv, ReplyIInv, NEW c \in Conns, DaemonServe(c)
    PROVE  ReplyIInv'
<1>1. /\ c \notin peerClosed /\ cpc = "wait" /\ c = sock
      /\ req[c] = <<waitCmd>> /\ rsp[c] = <<>> /\ waitCmd \in Cmds
  BY DEF DaemonServe, ReplyIInv, TypeIInv
<1>2. req'[c] = <<>> /\ rsp'[c] = Reply(waitCmd)
  <2>1. Head(req[c]) = waitCmd /\ Tail(req[c]) = <<>>
    BY <1>1
  <2>2. <<>> \o Reply(waitCmd) = Reply(waitCmd)
    BY <1>1, ReplyType, ConcatEmptySeq
  <2> QED
    BY <1>1, <2>1, <2>2 DEF DaemonServe, TypeIInv
<1>3. \A d \in Conns \ {c} : req'[d] = req[d] /\ rsp'[d] = rsp[d]
  BY DEF DaemonServe, TypeIInv
<1>4. UNCHANGED <<cpc, sock, waitCmd, peerClosed, lastResp>>
  BY DEF DaemonServe, connVars
<1>5. ReplyIsOwn'
  BY <1>4 DEF ReplyIInv, ReplyIsOwn
<1>6. ASSUME NEW d \in Conns \ peerClosed', req'[d] # <<>> \/ rsp'[d] # <<>>
      PROVE  /\ cpc' = "wait" /\ d = sock'
             /\ \/ req'[d] = <<waitCmd'>> /\ rsp'[d] = <<>>
                \/ req'[d] = <<>> /\ rsp'[d] = Reply(waitCmd')
  <2>1. CASE d = c
    BY <1>1, <1>2, <1>4, <2>1
  <2>2. CASE d # c
    BY <1>3, <1>4, <1>6, <2>2 DEF ReplyIInv
  <2> QED
    BY <2>1, <2>2
<1>7. \A d \in peerClosed' : rsp'[d] # <<>> =>
         cpc' = "wait" /\ d = sock' /\ rsp'[d] = Reply(waitCmd')
  BY <1>1, <1>3, <1>4, PeerClosedConns DEF ReplyIInv
<1> QED
  BY <1>5, <1>6, <1>7 DEF ReplyIInv

\* A crash closes every socket and drops the unread commands; a reply
\* already sent stays readable.
LEMMA DaemonCrashReply ==
    ASSUME TypeIInv, ReplyIInv, DaemonCrash
    PROVE  ReplyIInv'
<1>1. /\ peerClosed' = 1..nextConn /\ req' = [c \in Conns |-> <<>>]
      /\ UNCHANGED <<rsp, cpc, sock, waitCmd, lastResp>>
  BY DEF DaemonCrash, connVars
<1>2. 1..nextConn \subseteq Conns
  BY EtaHenAssumption DEF TypeIInv, Conns
<1>3. ASSUME NEW c \in Conns, rsp[c] # <<>>
      PROVE  c \in 1..nextConn
  <2>1. c = sock
    BY <1>3, RspPending
  <2> QED
    BY <2>1 DEF TypeIInv, NoSocket, Conns
<1>4. ReplyIsOwn'
  BY <1>1 DEF ReplyIInv, ReplyIsOwn
<1>5. \A c \in Conns \ peerClosed' : req'[c] = <<>> /\ rsp'[c] = <<>>
  BY <1>1, <1>3
<1>6. \A c \in peerClosed' : rsp'[c] # <<>> =>
         cpc' = "wait" /\ c = sock' /\ rsp'[c] = Reply(waitCmd')
  BY <1>1, <1>2, RspPending
<1> QED
  BY <1>4, <1>5, <1>6 DEF ReplyIInv

LEMMA ReplyIInvInit == EtInit => ReplyIInv
BY DEF EtInit, ReplyIInv, ReplyIsOwn

LEMMA ReplyIInvNext ==
    ASSUME ReplySegments = 1
    PROVE  TypeIInv /\ ReplyIInv /\ [EtNext]_vars => ReplyIInv'
<1> SUFFICES ASSUME TypeIInv, ReplyIInv, [EtNext]_vars PROVE ReplyIInv'
  OBVIOUS
<1>1. CASE \/ RegisterWithEtaHEN \/ RequestJailbreak \/ EnableDataAccess
           \/ UnregisterFromEtaHEN \/ StartFTPServer \/ StopFTPServer
  BY <1>1, CallerStepsReply
<1>2. CASE Shutdown \/ ShutUnreg \/ ShutDisc
  BY <1>2, ShutdownStepsReply
<1>3. CASE Initialize \/ ConnectToEtaHEN \/ DisconnectFromEtaHEN
  BY <1>3, ConnectStepsReply
<1>4. CASE RecvReply
  BY <1>4, RecvReplyReply
<1>5. CASE \E c \in Conns : DaemonServe(c)
  BY <1>5, DaemonServeReply
<1>6. CASE DaemonCrash
  BY <1>6, DaemonCrashReply
<1>7. CASE DaemonRestart \/ CallerDone \/ UNCHANGED vars
  <2>1. UNCHANGED <<req, rsp, peerClosed, cpc, sock, waitCmd, lastResp>>
    BY <1>7 DEF DaemonRestart, CallerDone, vars, sendVars, connVars
  <2> QED
    BY <2>1 DEF ReplyIInv, ReplyIsOwn
<1> QED
  BY <1>1, <1>2, <1>3, <1>4, <1>5, <1>6, <1>7 DEF EtNext

\* ReplyIsOwn, for any calls in any order and a daemon that crashes and
\* restarts: when every reply reaches the client in one piece, the
\* response a successful SendIPCCommand returns consists of pieces of the
\* reply to its own command.  With two pieces it fails (etahen_split's
\* finding), so the hypothesis is needed: SendIPCCommand reads one recv()
\* and sends no length.
THEOREM ReplyIsOwnHolds ==
    ReplySegments = 1 => (EtSpec => []ReplyIsOwn)
<1> SUFFICES ASSUME ReplySegments = 1
             PROVE  EtSpec => []ReplyIsOwn
  OBVIOUS
<1>1. TypeIInv /\ ReplyIInv => ReplyIsOwn
  BY DEF ReplyIInv
<1>2. EtSpec => [](TypeIInv /\ ReplyIInv)
  BY TypeIInvInit, TypeIInvNext, ReplyIInvInit, ReplyIInvNext, PTL DEF EtSpec
<1> QED
  BY <1>1, <1>2, PTL

=============================================================================
