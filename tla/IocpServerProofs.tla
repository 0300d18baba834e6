--------------------------- MODULE IocpServerProofs ---------------------------
(***************************************************************************)
(* The invariants of the IOCP server, for any number of runs, connections  *)
(* and receives.                                                           *)
(***************************************************************************)
EXTENDS IocpServer, FiniteSetTheorems, SequenceTheorems, TLAPS

\* Where the thread of a run that has not started, or has returned, is.
Idle == {"unused", "done"}

\* Before the run has a completion port.
Early == {"unused", "ready", "flag", "socket", "bind", "listen", "port"}

\* Between MakePort and ClosePort.
HasPort(r) ==
    \/ srv[r] \in {"threads", "queue", "running", "accept", "accepting", "post",
                   "unpost", "quit", "close", "closePort"}
    \/ At(r, "telling") /\ arg[r] = "running"

\* Past ReadySocket's WSAStartup, and before the WSACleanup.
Up(r) == HasPort(r) \/ srv[r] \in {"socket", "bind", "listen", "port", "cleanup"}

OneRun == \A r, s \in Runs : srv[r] \notin Idle /\ srv[s] \notin Idle => r = s

\* The flag and Winsock's count agree but between the two steps of a thread.
WinsockAgrees ==
    /\ wsa \in {0, 1}
    /\ \A r \in Runs : /\ At(r, "flag") => ~winsock_init /\ wsa = 1
                       /\ At(r, "unflag") => winsock_init /\ wsa = 0
                       /\ At(r, "stopped") => ~winsock_init /\ wsa = 0
                       /\ Up(r) => winsock_init /\ wsa = 1
    /\ (\A r \in Runs : srv[r] \notin {"flag", "unflag"}) => (winsock_init <=> wsa = 1)

SocketsGone ==
    \A r \in Runs : srv[r] \in {"unflag", "stopped"} =>
       /\ \A l \in Runs : lsock[l] \in {"none", "closed"}
       /\ \A c \in Clients : sock[c] \notin {"queued", "open"}

\* A port, and the completion thread on it, belong to their run.
PortsAgree ==
    \A r \in Runs :
       /\ hcp[r] = "open" <=> HasPort(r)
       /\ HasPort(r) => g_hcp = r
       /\ srv[r] \in Early => hcp[r] = "none"
       /\ srv[r] \in Early \cup {"threads"} => comp[r] = "none"
       /\ comp[r] # "none" => cport[r] = r /\ hcp[r] # "none"

\* The client the accept loop sets up is tied to no port yet.
SetUpAgrees ==
    \A r \in Runs :
       /\ srv[r] \in {"post", "unpost"} => arg[r] \in Clients
       /\ At(r, "post") => at[arg[r]] = NULL /\ ctx[arg[r]] = "live"

ClientsAgree ==
    \A c \in Clients :
       /\ sock[c] \in {"off", "queued"} => ctx[c] = "none"
       /\ ctx[c] = "freed" => sock[c] \in {"closed", "lost"}
       /\ at[c] # NULL /\ ctx[c] # "none" => hcp[at[c]] # "none"
       /\ pending[c] => /\ at[c] # NULL /\ ctx[c] # "none"
                        /\ hcp[at[c]] = "open" => ctx[c] = "live"

\* No packet of c waits in port r.
NoPacket(r, c) == \A i \in DOMAIN packets[r] : packets[r][i][1] # c

PacketsAgree ==
    \A r \in Runs :
       /\ \A i \in DOMAIN packets[r] :
             LET c == packets[r][i][1]
                 kind == packets[r][i][2]
             IN  /\ c = NULL <=> kind = "quit"
                 /\ c # NULL => /\ at[c] = r /\ ctx[c] # "none" /\ ~pending[c]
                                /\ hcp[r] = "open" => ctx[c] = "live"
                                /\ kind = "data" => chunks[c] < MaxChunks
       /\ \A i, j \in DOMAIN packets[r] :
             packets[r][i][1] = packets[r][j][1] /\ packets[r][i][1] # NULL => i = j

\* The thread of run r works on the client of the last packet.  Once the port
\* is closed it may also clear a client of which nothing was received.
Working(r) ==
    \/ comp[r] \in {"rearm", "clear"}
    \/ comp[r] = "clearLast" /\ hcp[r] # "closed"

CompletionAgrees ==
    \A r \in Runs :
       /\ cctx[r] # NULL => at[cctx[r]] = r /\ ctx[cctx[r]] = "live"
       /\ comp[r] \in {"rearm", "clear", "clearLast"} => cctx[r] # NULL
       /\ Working(r) => ~pending[cctx[r]] /\ NoPacket(r, cctx[r])
       /\ comp[r] \in {"clear", "clearLast"} => sock[cctx[r]] \in {"closed", "lost"}

HandlerAgrees == \A r \in Runs : hnd[r] = "wait" => hold[r] \in Runs

IInv ==
    /\ IocpTypeOK /\ OneRun /\ WinsockAgrees /\ SocketsGone /\ PortsAgree
    /\ SetUpAgrees /\ ClientsAgree /\ PacketsAgree /\ CompletionAgrees
    /\ HandlerAgrees /\ WriteTarget
-----------------------------------------------------------------------------
(* A packet is put at the end of a port, or the first one is taken.        *)

LEMMA AtTheEnd ==
    ASSUME NEW X, NEW s \in Seq(X), NEW e, NEW i \in DOMAIN Append(s, e)
    PROVE  \/ i \in DOMAIN s /\ Append(s, e)[i] = s[i]
           \/ Append(s, e)[i] = e
<1>1. Len(s) \in Nat /\ DOMAIN s = 1 .. Len(s) /\ DOMAIN Append(s, e) = 1 .. Len(s) + 1
  OBVIOUS
<1>2. CASE i = Len(s) + 1
  BY <1>1, <1>2
<1>3. CASE i # Len(s) + 1
  BY <1>1, <1>3
<1>. QED BY <1>2, <1>3


LEMMA PacketTaken ==
    ASSUME IInv, NEW r \in Runs, NEW kind \in {"data", "end", "error", "quit"},
           Packet(r, kind)
    PROVE  LET c == packets[r][1][1] IN
           /\ comp[r] = "get" /\ cport[r] = r /\ hcp[r] = "open"
           /\ packets' \in [Runs -> Seq((Clients \cup {NULL})
                                          \X {"data", "end", "error", "quit"})]
           /\ cctx' = [cctx EXCEPT ![r] = c]
           /\ IF kind = "quit"
              THEN c = NULL
              ELSE /\ c \in Clients /\ at[c] = r /\ ctx[c] = "live" /\ ~pending[c]
                   /\ kind = "data" => chunks[c] < MaxChunks
                   /\ \A i \in DOMAIN packets'[r] : packets'[r][i][1] # c
           /\ \A i \in DOMAIN packets'[r] :
                 i + 1 \in DOMAIN packets[r] /\ packets'[r][i] = packets[r][i + 1]
           /\ \A s \in Runs : s # r => packets'[s] = packets[s]
<1>. DEFINE P == (Clients \cup {NULL}) \X {"data", "end", "error", "quit"}
            c == packets[r][1][1]
<1>0. IocpTypeOK /\ PortsAgree /\ PacketsAgree
  BY DEF IInv
<1>1. /\ comp[r] = "get" /\ cport[r] = r /\ hcp[r] = "open"
      /\ packets[r] # << >> /\ Head(packets[r])[2] = kind
      /\ packets' = [packets EXCEPT ![r] = Tail(packets[r])]
      /\ cctx' = [cctx EXCEPT ![r] = Head(packets[r])[1]]
  BY <1>0 DEF Packet, PortsAgree
<1>2. packets[r] \in Seq(P) /\ packets \in [Runs -> Seq(P)]
  BY <1>0 DEF IocpTypeOK
<1>3. /\ Head(packets[r]) = packets[r][1] /\ packets[r][1] \in P
      /\ 1 \in DOMAIN packets[r] /\ Tail(packets[r]) \in Seq(P)
      /\ \A i \in DOMAIN Tail(packets[r]) :
            /\ i \in Nat \ {0} /\ i + 1 \in DOMAIN packets[r]
            /\ Tail(packets[r])[i] = packets[r][i + 1]
  BY <1>1, <1>2
<1>4. /\ packets' \in [Runs -> Seq(P)] /\ packets'[r] = Tail(packets[r])
      /\ \A s \in Runs : s # r => packets'[s] = packets[s]
  BY <1>1, <1>2, <1>3
<1>5. packets[r][1][2] = kind /\ c \in Clients \cup {NULL}
  BY <1>1, <1>3
<1>6. kind = "quit" <=> c = NULL
  BY <1>0, <1>3, <1>5 DEF PacketsAgree
<1>7. c # NULL => /\ at[c] = r /\ ctx[c] = "live" /\ ~pending[c]
                  /\ kind = "data" => chunks[c] < MaxChunks
  BY <1>0, <1>1, <1>3, <1>5 DEF PacketsAgree
<1>8. ASSUME c # NULL, NEW i \in DOMAIN packets'[r] PROVE packets'[r][i][1] # c
  <2>1. i \in Nat \ {0} /\ i + 1 \in DOMAIN packets[r] /\ packets'[r][i] = packets[r][i + 1]
    BY <1>3, <1>4
  <2>2. i + 1 # 1
    BY <2>1
  <2>. QED BY <1>0, <1>3, <1>8, <2>1, <2>2 DEF PacketsAgree
<1>. QED BY <1>1, <1>3, <1>4, <1>5, <1>6, <1>7, <1>8
-----------------------------------------------------------------------------
(* Types.                                                                  *)

LEMMA TypeStep ==
    ASSUME IInv, IocpNext
    PROVE  IocpTypeOK'
<1>. USE IocpAssumption DEF Moves, GoTo, At, world, outside, winsock, statics, server,
         listeners, ports, completion, handler, clients, Handles, Chunks
<1>0. IocpTypeOK
  BY DEF IInv
<1>1. ASSUME NEW r \in Runs, NEW p \in TcpPorts, Start(r, p) PROVE IocpTypeOK'
  BY <1>0, <1>1 DEF IocpTypeOK, Start
<1>2. ASSUME NEW r \in Runs, Startup(r) PROVE IocpTypeOK'
  <2>1. /\ srv' = [srv EXCEPT ![r] = "socket"] \/ srv' = [srv EXCEPT ![r] = "flag"]
           \/ srv' = [srv EXCEPT ![r] = "failed"]
        /\ wsa' = wsa \/ wsa' = wsa + 1
    BY <1>2 DEF Startup
  <2>2. wsa' \in Nat
    BY <1>0, <2>1 DEF IocpTypeOK
  <2>. QED BY <1>0, <1>2, <2>1, <2>2, ZenonT(60) DEF IocpTypeOK, Startup
<1>3. ASSUME NEW r \in Runs, Flag(r) PROVE IocpTypeOK'
  BY <1>0, <1>3 DEF IocpTypeOK, Flag
<1>4. ASSUME NEW r \in Runs, MakeSocket(r) PROVE IocpTypeOK'
  BY <1>0, <1>4 DEF IocpTypeOK, MakeSocket
<1>5. ASSUME NEW r \in Runs, Bind(r) PROVE IocpTypeOK'
  <2>1. CASE srv' = [srv EXCEPT ![r] = "failed"] /\ UNCHANGED listeners
    BY <1>0, <1>5, <2>1 DEF IocpTypeOK, Bind
  <2>2. CASE /\ g_sSocket \in Runs
             /\ lsock' = [lsock EXCEPT ![g_sSocket] = "bound"]
             /\ lport' = [lport EXCEPT ![g_sSocket] = lport[r]]
             /\ srv' = [srv EXCEPT ![r] = "listen"]
    BY <1>0, <1>5, <2>2 DEF IocpTypeOK, Bind
  <2>. QED BY <1>5, <2>1, <2>2 DEF Bind
<1>6. ASSUME NEW r \in Runs, Listen(r) PROVE IocpTypeOK'
  BY <1>0, <1>6 DEF IocpTypeOK, Listen
<1>7. ASSUME NEW r \in Runs, MakePort(r) PROVE IocpTypeOK'
  BY <1>0, <1>7 DEF IocpTypeOK, MakePort
<1>8. ASSUME NEW r \in Runs, StartThreads(r) PROVE IocpTypeOK'
  BY <1>0, <1>8 DEF IocpTypeOK, StartThreads
<1>9. ASSUME NEW r \in Runs, MakeQueue(r) PROVE IocpTypeOK'
  BY <1>0, <1>9 DEF IocpTypeOK, MakeQueue
<1>10. ASSUME NEW r \in Runs, CallBack(r) PROVE IocpTypeOK'
  BY <1>0, <1>10 DEF IocpTypeOK, CallBack, Told
<1>11. ASSUME NEW r \in Runs, CallBackReturns(r) PROVE IocpTypeOK'
  BY <1>0, <1>11 DEF IocpTypeOK, CallBackReturns
<1>12. ASSUME NEW r \in Runs, AcceptCall(r) PROVE IocpTypeOK'
  BY <1>0, <1>12 DEF IocpTypeOK, AcceptCall
<1>13. ASSUME NEW r \in Runs, NEW c \in Clients, Accepted(r, c) PROVE IocpTypeOK'
  BY <1>0, <1>13 DEF IocpTypeOK, Accepted
<1>14. ASSUME NEW r \in Runs, AcceptFails(r) PROVE IocpTypeOK'
  BY <1>0, <1>14 DEF IocpTypeOK, AcceptFails
<1>15. ASSUME NEW r \in Runs, PostRecv(r) PROVE IocpTypeOK'
  BY <1>0, <1>15 DEF IocpTypeOK, PostRecv
<1>16. ASSUME NEW r \in Runs, PostRecvFails(r) PROVE IocpTypeOK'
  BY <1>0, <1>16 DEF IocpTypeOK, PostRecvFails
<1>17. ASSUME NEW r \in Runs, ForgetClient(r) PROVE IocpTypeOK'
  BY <1>0, <1>17 DEF IocpTypeOK, ForgetClient, ForgetSocket
<1>18. ASSUME NEW r \in Runs, Quit(r) PROVE IocpTypeOK'
  <2>1. packets' \in [Runs -> Seq((Clients \cup {NULL}) \X {"data", "end", "error", "quit"})]
    <3>1. <<NULL, "quit">> \in (Clients \cup {NULL}) \X {"data", "end", "error", "quit"}
      OBVIOUS
    <3>. QED BY <1>0, <1>18, <3>1, AppendProperties DEF IocpTypeOK, Quit
  <2>. QED BY <1>0, <1>18, <2>1 DEF IocpTypeOK, Quit
<1>19. ASSUME NEW r \in Runs, CloseListener(r) PROVE IocpTypeOK'
  BY <1>0, <1>19 DEF IocpTypeOK, CloseListener, CloseListening
<1>20. ASSUME NEW r \in Runs, ClosePort(r) PROVE IocpTypeOK'
  BY <1>0, <1>20 DEF IocpTypeOK, ClosePort
<1>21. ASSUME NEW r \in Runs, Cleanup(r) PROVE IocpTypeOK'
  <2>1. CASE srv' = [srv EXCEPT ![r] = "stopped"] /\ UNCHANGED <<wsa, lsock, sock>>
    BY <1>0, <1>21, <2>1 DEF IocpTypeOK, Cleanup
  <2>2. CASE srv' = [srv EXCEPT ![r] = "unflag"]
    <3>1. wsa' \in Nat
      BY <1>0, <1>21 DEF IocpTypeOK, Cleanup
    <3>2. lsock' \in [Runs -> {"none", "made", "bound", "listening", "closed"}]
      BY <1>0, <1>21 DEF IocpTypeOK, Cleanup
    <3>3. sock' \in [Clients -> {"off", "queued", "open", "closed", "lost"}]
      BY <1>0, <1>21 DEF IocpTypeOK, Cleanup
    <3>. QED BY <1>0, <1>21, <2>2, <3>1, <3>2, <3>3 DEF IocpTypeOK, Cleanup
  <2>. QED BY <1>21, <2>1, <2>2 DEF Cleanup
<1>22. ASSUME NEW r \in Runs, Unflag(r) PROVE IocpTypeOK'
  BY <1>0, <1>22 DEF IocpTypeOK, Unflag
<1>23. ASSUME NEW c \in Clients, NEW l \in Runs, Connect(c, l) PROVE IocpTypeOK'
  BY <1>0, <1>23, SMTT(60) DEF IocpTypeOK, Connect
<1>24. ASSUME NEW c \in Clients, NEW kind \in {"data", "end", "error"}, RecvEnds(c, kind)
       PROVE  IocpTypeOK'
  <2>1. packets' \in [Runs -> Seq((Clients \cup {NULL}) \X {"data", "end", "error", "quit"})]
    <3>1. <<c, kind>> \in (Clients \cup {NULL}) \X {"data", "end", "error", "quit"}
      OBVIOUS
    <3>. QED BY <1>0, <1>24, <3>1, AppendProperties DEF IocpTypeOK, RecvEnds
  <2>. QED BY <1>0, <1>24, <2>1 DEF IocpTypeOK, RecvEnds
<1>25. ASSUME NEW r \in Runs, GotData(r) PROVE IocpTypeOK'
  <2>. DEFINE c == packets[r][1][1]
  <2>1. Packet(r, "data")
    BY <1>25 DEF GotData
  <2>2. /\ packets' \in [Runs -> Seq((Clients \cup {NULL}) \X {"data", "end", "error", "quit"})]
        /\ cctx' = [cctx EXCEPT ![r] = c] /\ c \in Clients /\ chunks[c] < MaxChunks
    BY <2>1, PacketTaken
  <2>3. cctx'[r] = c /\ cctx' \in [Runs -> Clients \cup {NULL}]
    BY <1>0, <2>2 DEF IocpTypeOK
  <2>4. chunks[c] + 1 \in 1 .. MaxChunks /\ chunks' \in [Clients -> 0 .. MaxChunks]
    BY <1>0, <1>25, <2>2, <2>3, SMTT(60) DEF IocpTypeOK, GotData
  <2>5. queue' \in [Runs -> Seq(Chunks)]
    <3>1. <<c, chunks[c] + 1>> \in Clients \X (1 .. MaxChunks)
      BY <2>2, <2>4
    <3>2. \A q \in Runs : Append(queue[q], <<c,
                                             chunks[c] + 1>>) \in Seq(Clients \X (1 .. MaxChunks))
      BY <1>0, <3>1, AppendProperties DEF IocpTypeOK
    <3>. QED BY <1>0, <1>25, <2>3, <3>2 DEF IocpTypeOK, GotData
  <2>. QED BY <1>0, <1>25, <2>2, <2>3, <2>4, <2>5 DEF IocpTypeOK, GotData
<1>26. ASSUME NEW r \in Runs, Rearm(r) PROVE IocpTypeOK'
  BY <1>0, <1>26 DEF IocpTypeOK, Rearm
<1>27. ASSUME NEW r \in Runs, RearmFails(r) PROVE IocpTypeOK'
  BY <1>0, <1>27 DEF IocpTypeOK, RearmFails, CloseClient
<1>28. ASSUME NEW r \in Runs, GotEnd(r) PROVE IocpTypeOK'
  <2>. DEFINE c == packets[r][1][1]
  <2>1. Packet(r, "end")
    BY <1>28 DEF GotEnd
  <2>2. /\ packets' \in [Runs -> Seq((Clients \cup {NULL}) \X {"data", "end", "error", "quit"})]
        /\ cctx' = [cctx EXCEPT ![r] = c] /\ c \in Clients
    BY <2>1, PacketTaken
  <2>3. cctx' \in [Runs -> Clients \cup {NULL}]
    BY <1>0, <2>2 DEF IocpTypeOK
  <2>4. sock' \in [Clients -> {"off", "queued", "open", "closed", "lost"}]
    BY <1>0, <1>28 DEF IocpTypeOK, GotEnd, CloseClient
  <2>. QED BY <1>0, <1>28, <2>2, <2>3, <2>4 DEF IocpTypeOK, GotEnd
<1>29. ASSUME NEW r \in Runs, GotError(r) PROVE IocpTypeOK'
  <2>. DEFINE c == packets[r][1][1]
  <2>1. Packet(r, "error")
    BY <1>29 DEF GotError
  <2>2. /\ packets' \in [Runs -> Seq((Clients \cup {NULL}) \X {"data", "end", "error", "quit"})]
        /\ cctx' = [cctx EXCEPT ![r] = c] /\ c \in Clients
    BY <2>1, PacketTaken
  <2>3. cctx' \in [Runs -> Clients \cup {NULL}]
    BY <1>0, <2>2 DEF IocpTypeOK
  <2>4. sock' \in [Clients -> {"off", "queued", "open", "closed", "lost"}]
    BY <1>0, <1>29 DEF IocpTypeOK, GotError, CloseClient
  <2>. QED BY <1>0, <1>29, <2>2, <2>3, <2>4 DEF IocpTypeOK, GotError
<1>30. ASSUME NEW r \in Runs, ClearClient(r) PROVE IocpTypeOK'
  BY <1>0, <1>30 DEF IocpTypeOK, ClearClient, ForgetSocket, DropContext
<1>31. ASSUME NEW r \in Runs, GotQuit(r) PROVE IocpTypeOK'
  <2>1. Packet(r, "quit")
    BY <1>31 DEF GotQuit
  <2>2. /\ packets' \in [Runs -> Seq((Clients \cup {NULL}) \X {"data", "end", "error", "quit"})]
        /\ cctx' = [cctx EXCEPT ![r] = NULL]
    BY <2>1, PacketTaken
  <2>. QED BY <1>0, <1>31, <2>2 DEF IocpTypeOK, GotQuit
<1>32. ASSUME NEW r \in Runs, Abandoned(r) PROVE IocpTypeOK'
  <2>1. /\ comp' = [comp EXCEPT ![r] = "done"] \/ comp' = [comp EXCEPT ![r] = "clearLast"]
        /\ sock' = sock \/ CloseClient(cctx[r])
    BY <1>32 DEF Abandoned
  <2>2. sock' \in [Clients -> {"off", "queued", "open", "closed", "lost"}]
    <3>1. CASE CloseClient(cctx[r])
      BY <1>0, <3>1 DEF IocpTypeOK, CloseClient
    <3>. QED BY <1>0, <2>1, <3>1 DEF IocpTypeOK
  <2>3. UNCHANGED <<outside, statics, ports, cport, cctx, at, pending, ctx, chunks, queue>>
    BY <1>32 DEF Abandoned
  <2>. QED BY <1>0, <2>1, <2>2, <2>3, ZenonT(60) DEF IocpTypeOK
<1>33. ASSUME NEW r \in Runs, HandlerCalls(r) PROVE IocpTypeOK'
  BY <1>0, <1>33 DEF IocpTypeOK, HandlerCalls
<1>34. ASSUME NEW r \in Runs, HandlerTakes(r) PROVE IocpTypeOK'
  <2>. DEFINE q == hold[r]
  <2>1. q \in Runs /\ queue[q] # << >> /\ queue[q] \in Seq(Chunks)
    BY <1>0, <1>34 DEF IInv, HandlerAgrees, IocpTypeOK, HandlerTakes
  <2>2. Head(queue[q]) \in Chunks /\ Tail(queue[q]) \in Seq(Chunks)
    BY <2>1
  <2>3. queue' \in [Runs -> Seq(Chunks)] /\ hold' \in [Runs -> Handles \cup Chunks]
    BY <1>0, <1>34, <2>2 DEF IocpTypeOK, HandlerTakes
  <2>. QED BY <1>0, <1>34, <2>3 DEF IocpTypeOK, HandlerTakes
<1>35. ASSUME NEW r \in Runs, HandlerFrees(r) PROVE IocpTypeOK'
  BY <1>0, <1>35, SMTT(60) DEF IocpTypeOK, HandlerFrees
<1>36. ASSUME CleanCloses PROVE IocpTypeOK'
  BY <1>0, <1>36 DEF IocpTypeOK, CleanCloses, CloseListening
<1>37. ASSUME CleanForgets PROVE IocpTypeOK'
  BY <1>0, <1>37 DEF IocpTypeOK, CleanForgets
<1>. QED
  BY <1>1, <1>2, <1>3, <1>4, <1>5, <1>6, <1>7, <1>8, <1>9, <1>10, <1>11, <1>12, <1>13,
     <1>14, <1>15, <1>16, <1>17, <1>18, <1>19, <1>20, <1>21, <1>22, <1>23, <1>24, <1>25,
     <1>26, <1>27, <1>28, <1>29, <1>30, <1>31, <1>32, <1>33, <1>34, <1>35, <1>36, <1>37
     DEF IocpNext, Internal, Network, SetUp, AcceptLoop, WindDown, CompletionThread
-----------------------------------------------------------------------------
(* The thread in startIocpServer, Winsock, and the port of the run.        *)

ServerInv == OneRun /\ WinsockAgrees /\ SocketsGone /\ PortsAgree /\ SetUpAgrees

\* While the thread of a run is on its way no other is.
LEMMA MovesAlone ==
    ASSUME IocpTypeOK, OneRun, NEW r \in Runs, srv[r] \notin Idle,
           NEW place, srv' = [srv EXCEPT ![r] = place]
    PROVE  /\ srv'[r] = place
           /\ \A s \in Runs : s # r => srv'[s] = srv[s] /\ srv[s] \in Idle
           /\ OneRun'
  BY DEF IocpTypeOK, OneRun, Idle

LEMMA ServerMoves ==
    ASSUME IInv, NEW r \in Runs,
           SetUp(r) \/ AcceptLoop(r) \/ WindDown(r) \/ CallBack(r) \/ CallBackReturns(r)
    PROVE  ServerInv'
<1>. USE IocpAssumption DEF Moves, GoTo, At, world, outside, winsock, statics, server,
         listeners, ports, completion, handler, clients, Handles, ServerInv, OneRun,
         WinsockAgrees, SocketsGone, PortsAgree, SetUpAgrees, HasPort, Up, Early, Idle
<1>0. IocpTypeOK /\ ServerInv
  BY DEF IInv
<1>1. ASSUME Startup(r) PROVE ServerInv'
  <2>1. PICK place \in {"socket", "flag", "failed"} :
           /\ srv' = [srv EXCEPT ![r] = place]
           /\ IF place = "flag" THEN ~winsock_init /\ wsa' = wsa + 1 ELSE UNCHANGED wsa
           /\ place = "socket" => winsock_init
           /\ place = "failed" => ~winsock_init
    BY <1>1 DEF Startup
  <2>0. srv[r] = "ready"
    BY <1>1 DEF Startup
  <2>2. /\ srv'[r] = place
        /\ \A s \in Runs : s # r => srv'[s] = srv[s] /\ srv[s] \in Idle
        /\ OneRun'
    BY <1>0, <2>0, <2>1, MovesAlone
  <2>3. UNCHANGED <<winsock_init, g_hcp, arg, lsock, hcp, comp, cport, sock, at, ctx>>
    BY <1>1 DEF Startup
  <2>4. wsa \in {0, 1} /\ (winsock_init <=> wsa = 1)
    BY <1>0, <2>0, <2>2
  <2>5. WinsockAgrees'
    <3>1. CASE place = "flag"
      <4>1. wsa' = 1 /\ ~winsock_init'
        BY <2>1, <2>3, <2>4, <3>1
      <4>. QED BY <2>2, <3>1, <4>1
    <3>2. CASE place = "socket"
      <4>1. wsa' = 1 /\ winsock_init'
        BY <2>1, <2>3, <2>4, <3>2
      <4>. QED BY <2>2, <3>2, <4>1
    <3>3. CASE place = "failed"
      <4>1. wsa' = 0 /\ ~winsock_init'
        BY <2>1, <2>3, <2>4, <3>3
      <4>. QED BY <2>2, <3>3, <4>1
    <3>. QED BY <3>1, <3>2, <3>3
  <2>6. SocketsGone' /\ PortsAgree' /\ SetUpAgrees'
    BY <1>0, <2>0, <2>1, <2>2, <2>3
  <2>. QED BY <2>2, <2>5, <2>6
<1>2. ASSUME Flag(r) PROVE ServerInv'
  <2>1. /\ srv[r] = "flag" /\ srv'[r] = "socket" /\ winsock_init' = TRUE
        /\ \A s \in Runs : s # r => srv'[s] = srv[s] /\ srv[s] \in Idle
        /\ OneRun'
    BY <1>0, <1>2, MovesAlone, ZenonT(60) DEF Flag
  <2>2. UNCHANGED <<wsa, g_hcp, arg, lsock, hcp, comp, cport, sock, at, ctx>>
    BY <1>2 DEF Flag
  <2>3. WinsockAgrees'
    BY <1>0, <2>1, <2>2
  <2>4. SocketsGone' /\ PortsAgree' /\ SetUpAgrees'
    BY <1>0, <2>1, <2>2
  <2>. QED BY <2>1, <2>3, <2>4
<1>3. ASSUME MakeSocket(r) PROVE ServerInv'
  BY <1>0, <1>3 DEF IocpTypeOK, MakeSocket
<1>4. ASSUME Bind(r) PROVE ServerInv'
  <2>1. PICK place \in {"listen", "failed"} : srv' = [srv EXCEPT ![r] = place]
    BY <1>4 DEF Bind
  <2>0. srv[r] = "bind" /\ srv[r] \notin Idle /\ IocpTypeOK /\ OneRun
    BY <1>0, <1>4 DEF Bind, Idle
  <2>2a. /\ srv'[r] = place
         /\ \A s \in Runs : s # r => srv'[s] = srv[s] /\ srv[s] \in Idle
         /\ OneRun'
    BY ONLY <2>0, <2>1, MovesAlone, r \in Runs
  <2>2. /\ srv[r] = "bind" /\ srv'[r] = place
        /\ \A s \in Runs : s # r => srv'[s] = srv[s] /\ srv[s] \in Idle
        /\ OneRun'
    BY <2>0, <2>2a
  <2>3. UNCHANGED <<winsock_init, wsa, g_hcp, arg, hcp, comp, cport, sock, at, ctx>>
    BY <1>4 DEF Bind
  <2>4. WinsockAgrees'
    BY <1>0, <2>1, <2>2, <2>3
  <2>5. SocketsGone' /\ PortsAgree' /\ SetUpAgrees'
    BY <1>0, <2>1, <2>2, <2>3
  <2>. QED BY <2>2, <2>4, <2>5
<1>5. ASSUME Listen(r) PROVE ServerInv'
  BY <1>0, <1>5 DEF IocpTypeOK, Listen
<1>6. ASSUME MakePort(r) PROVE ServerInv'
  <2>0. /\ srv[r] = "port" /\ srv' = [srv EXCEPT ![r] = "threads"]
        /\ g_hcp' = r /\ hcp' = [hcp EXCEPT ![r] = "open"]
    BY <1>6 DEF MakePort
  <2>1. /\ srv'[r] = "threads"
        /\ \A s \in Runs : s # r => srv'[s] = srv[s] /\ srv[s] \in Idle
        /\ OneRun'
    BY <1>0, <2>0, MovesAlone
  <2>2. UNCHANGED <<winsock_init, wsa, arg, lsock, comp, cport, sock, at, ctx>>
    BY <1>6 DEF MakePort
  <2>3. hcp'[r] = "open" /\ \A s \in Runs : s # r => hcp'[s] = hcp[s]
    BY <1>0, <2>0, <2>1 DEF IocpTypeOK
  <2>4. PortsAgree'
    BY <1>0, <2>0, <2>1, <2>2, <2>3
  <2>5. WinsockAgrees'
    BY <1>0, <2>0, <2>1, <2>2
  <2>6. SocketsGone' /\ SetUpAgrees'
    BY <1>0, <2>0, <2>1, <2>2
  <2>. QED BY <2>1, <2>4, <2>5, <2>6
<1>7. ASSUME StartThreads(r) PROVE ServerInv'
  BY <1>0, <1>7 DEF IocpTypeOK, StartThreads
<1>8. ASSUME MakeQueue(r) PROVE ServerInv'
  BY <1>0, <1>8 DEF IocpTypeOK, MakeQueue
<1>9. ASSUME CallBack(r) PROVE ServerInv'
  BY <1>0, <1>9, SMTT(60) DEF IocpTypeOK, CallBack, Told
<1>10. ASSUME CallBackReturns(r) PROVE ServerInv'
  BY <1>0, <1>10 DEF IocpTypeOK, CallBackReturns
<1>11. ASSUME AcceptCall(r) PROVE ServerInv'
  BY <1>0, <1>11 DEF IocpTypeOK, AcceptCall
<1>12. ASSUME NEW c \in Clients, Accepted(r, c) PROVE ServerInv'
  BY <1>0, <1>12 DEF IocpTypeOK, Accepted
<1>13. ASSUME AcceptFails(r) PROVE ServerInv'
  BY <1>0, <1>13 DEF IocpTypeOK, AcceptFails
<1>14. ASSUME PostRecv(r) PROVE ServerInv'
  BY <1>0, <1>14 DEF IocpTypeOK, PostRecv
<1>15. ASSUME PostRecvFails(r) PROVE ServerInv'
  BY <1>0, <1>15 DEF IocpTypeOK, PostRecvFails
<1>16. ASSUME ForgetClient(r) PROVE ServerInv'
  BY <1>0, <1>16 DEF IocpTypeOK, ForgetClient, ForgetSocket
<1>17. ASSUME Quit(r) PROVE ServerInv'
  BY <1>0, <1>17 DEF IocpTypeOK, Quit
<1>18. ASSUME CloseListener(r) PROVE ServerInv'
  BY <1>0, <1>18 DEF IocpTypeOK, CloseListener, CloseListening
<1>19. ASSUME ClosePort(r) PROVE ServerInv'
  BY <1>0, <1>19 DEF IocpTypeOK, ClosePort
<1>20. ASSUME Cleanup(r) PROVE ServerInv'
  <2>1. srv[r] = "cleanup" /\ winsock_init /\ wsa = 1
    BY <1>0, <1>20 DEF Cleanup
  <2>2. /\ srv' = [srv EXCEPT ![r] = "unflag"] /\ wsa' = 0
        /\ lsock' = [l \in Runs |-> IF lsock[l] = "none" THEN "none" ELSE "closed"]
        /\ sock' = [c \in Clients |-> IF sock[c] \in {"queued", "open"}
                                      THEN "lost" ELSE sock[c]]
        /\ UNCHANGED <<winsock_init, g_hcp, arg, hcp, comp, cport, at, ctx>>
    BY <1>20, <2>1 DEF Cleanup
  <2>3. /\ srv'[r] = "unflag"
        /\ \A s \in Runs : s # r => srv'[s] = srv[s] /\ srv[s] \in Idle
        /\ OneRun'
    BY <1>0, <2>1, <2>2, MovesAlone
  <2>4. WinsockAgrees'
    BY <1>0, <2>1, <2>2, <2>3
  <2>5. SocketsGone'
    BY <2>2
  <2>6. PortsAgree' /\ SetUpAgrees'
    BY <1>0, <2>1, <2>2, <2>3
  <2>. QED BY <2>3, <2>4, <2>5, <2>6
<1>21. ASSUME Unflag(r) PROVE ServerInv'
  BY <1>0, <1>21 DEF IocpTypeOK, Unflag
<1>. QED BY <1>1, <1>2, <1>3, <1>4, <1>5, <1>6, <1>7, <1>8, <1>9, <1>10, <1>11, <1>12,
            <1>13, <1>14, <1>15, <1>16, <1>17, <1>18, <1>19, <1>20, <1>21
            DEF SetUp, AcceptLoop, WindDown
-----------------------------------------------------------------------------
(* The connections, their packets, and the threads that take these.        *)

ClientInv == ClientsAgree /\ PacketsAgree /\ CompletionAgrees

LEMMA ClientsUnchanged ==
    ASSUME ClientInv, UNCHANGED <<hcp, packets, comp, cctx, clients>>
    PROVE  ClientInv'
  BY DEF ClientInv, ClientsAgree, PacketsAgree, CompletionAgrees, Working, NoPacket, clients

LEMMA ServerKeepsClients ==
    ASSUME IInv, NEW r \in Runs,
           SetUp(r) \/ AcceptLoop(r) \/ WindDown(r) \/ CallBack(r) \/ CallBackReturns(r)
    PROVE  ClientInv'
<1>. USE IocpAssumption DEF Moves, GoTo, At, world, outside, winsock, statics, server,
         listeners, ports, completion, handler, clients, Handles
<1>0. IocpTypeOK /\ OneRun /\ PortsAgree /\ SetUpAgrees /\ ClientInv
  BY DEF IInv, ClientInv
<1>1. ASSUME MakePort(r) PROVE ClientInv'
  <2>1. ClientsAgree'
    BY <1>0, <1>1 DEF IocpTypeOK, ClientInv, ClientsAgree, PacketsAgree, CompletionAgrees,
                      Working, NoPacket, PortsAgree, SetUpAgrees, HasPort, Early, MakePort
  <2>2. PacketsAgree'
    BY <1>0, <1>1 DEF IocpTypeOK, ClientInv, ClientsAgree, PacketsAgree, CompletionAgrees,
                      Working, NoPacket, PortsAgree, SetUpAgrees, HasPort, Early, MakePort
  <2>3. CompletionAgrees'
    BY <1>0, <1>1 DEF IocpTypeOK, ClientInv, ClientsAgree, PacketsAgree, CompletionAgrees,
                      Working, NoPacket, PortsAgree, SetUpAgrees, HasPort, Early, MakePort
  <2>. QED BY <2>1, <2>2, <2>3 DEF ClientInv
<1>2. ASSUME StartThreads(r) PROVE ClientInv'
  <2>1. ClientsAgree'
    BY <1>0, <1>2 DEF IocpTypeOK, ClientInv, ClientsAgree, PacketsAgree, CompletionAgrees,
                      Working, NoPacket, PortsAgree, SetUpAgrees, HasPort, Early,
                      StartThreads
  <2>2. PacketsAgree'
    BY <1>0, <1>2 DEF IocpTypeOK, ClientInv, ClientsAgree, PacketsAgree, CompletionAgrees,
                      Working, NoPacket, PortsAgree, SetUpAgrees, HasPort, Early,
                      StartThreads
  <2>3. CompletionAgrees'
    BY <1>0, <1>2 DEF IocpTypeOK, ClientInv, ClientsAgree, PacketsAgree, CompletionAgrees,
                      Working, NoPacket, PortsAgree, SetUpAgrees, HasPort, Early,
                      StartThreads
  <2>. QED BY <2>1, <2>2, <2>3 DEF ClientInv
<1>3. ASSUME NEW c \in Clients, Accepted(r, c) PROVE ClientInv'
  <2>1. ClientsAgree'
    BY <1>0, <1>3 DEF IocpTypeOK, ClientInv, ClientsAgree, PacketsAgree, CompletionAgrees,
                      Working, NoPacket, PortsAgree, SetUpAgrees, HasPort, Early, Accepted
  <2>2. PacketsAgree'
    BY <1>0, <1>3, SMTT(60)
       DEF IocpTypeOK, ClientInv, ClientsAgree, PacketsAgree, CompletionAgrees,
                      Working, NoPacket, PortsAgree, SetUpAgrees, HasPort, Early, Accepted
  <2>3. CompletionAgrees'
    BY <1>0, <1>3 DEF IocpTypeOK, ClientInv, ClientsAgree, PacketsAgree, CompletionAgrees,
                      Working, NoPacket, PortsAgree, SetUpAgrees, HasPort, Early, Accepted
  <2>. QED BY <2>1, <2>2, <2>3 DEF ClientInv
<1>4. ASSUME PostRecv(r) PROVE ClientInv'
  <2>1. ClientsAgree'
    BY <1>0, <1>4 DEF IocpTypeOK, ClientInv, ClientsAgree, PacketsAgree, CompletionAgrees,
                      Working, NoPacket, PortsAgree, SetUpAgrees, HasPort, Early, PostRecv
  <2>2. PacketsAgree'
    BY <1>0, <1>4 DEF IocpTypeOK, ClientInv, ClientsAgree, PacketsAgree, CompletionAgrees,
                      Working, NoPacket, PortsAgree, SetUpAgrees, HasPort, Early, PostRecv
  <2>3. CompletionAgrees'
    BY <1>0, <1>4 DEF IocpTypeOK, ClientInv, ClientsAgree, PacketsAgree, CompletionAgrees,
                      Working, NoPacket, PortsAgree, SetUpAgrees, HasPort, Early, PostRecv
  <2>. QED BY <2>1, <2>2, <2>3 DEF ClientInv
<1>5. ASSUME PostRecvFails(r) PROVE ClientInv'
  <2>1. ClientsAgree'
    BY <1>0, <1>5 DEF IocpTypeOK, ClientInv, ClientsAgree, PacketsAgree, CompletionAgrees,
                      Working, NoPacket, PortsAgree, SetUpAgrees, HasPort, Early,
                      PostRecvFails
  <2>2. PacketsAgree'
    BY <1>0, <1>5 DEF IocpTypeOK, ClientInv, ClientsAgree, PacketsAgree, CompletionAgrees,
                      Working, NoPacket, PortsAgree, SetUpAgrees, HasPort, Early,
                      PostRecvFails
  <2>3. CompletionAgrees'
    BY <1>0, <1>5 DEF IocpTypeOK, ClientInv, ClientsAgree, PacketsAgree, CompletionAgrees,
                      Working, NoPacket, PortsAgree, SetUpAgrees, HasPort, Early,
                      PostRecvFails
  <2>. QED BY <2>1, <2>2, <2>3 DEF ClientInv
<1>6. ASSUME Quit(r) PROVE ClientInv'
  <2>1. ClientsAgree'
    BY <1>0, <1>6 DEF IocpTypeOK, ClientInv, ClientsAgree, PacketsAgree, CompletionAgrees,
                      Working, NoPacket, PortsAgree, SetUpAgrees, HasPort, Early, Quit
  <2>2. PacketsAgree'
    <3>1. /\ UNCHANGED <<hcp, at, pending, ctx, chunks>>
          /\ \/ packets' = packets
             \/ packets' = [packets EXCEPT ![g_hcp] = Append(@, <<NULL, "quit">>)]
      BY <1>6 DEF Quit
    <3>2. packets \in [Runs -> Seq((Clients \cup {NULL}) \X {"data", "end", "error", "quit"})]
      BY <1>0 DEF IocpTypeOK
    <3>3. ASSUME NEW q \in Runs, NEW i \in DOMAIN packets'[q]
          PROVE  \/ i \in DOMAIN packets[q] /\ packets'[q][i] = packets[q][i]
                 \/ packets'[q][i][1] = NULL /\ packets'[q][i][2] = "quit"
      <4>1. packets'[q] = packets[q] \/ packets'[q] = Append(packets[q], <<NULL, "quit">>)
        BY ONLY <3>1, <3>2, q \in Runs
      <4>2. CASE packets'[q] = packets[q]
        BY <3>3, <4>2
      <4>3. CASE packets'[q] = Append(packets[q], <<NULL, "quit">>)
        <5>1. packets[q] \in Seq((Clients \cup {NULL}) \X {"data", "end", "error", "quit"})
          BY ONLY <3>2, q \in Runs
        <5>2. \/ i \in DOMAIN packets[q] /\ packets'[q][i] = packets[q][i]
              \/ packets'[q][i] = <<NULL, "quit">>
          BY ONLY <3>3, <4>3, <5>1, AtTheEnd
        <5>. QED BY ONLY <5>2
      <4>. QED BY ONLY <4>1, <4>2, <4>3
    <3>4. PacketsAgree
      BY <1>0 DEF ClientInv
    <3>. QED BY ONLY <3>1, <3>3, <3>4, SMTT(60) DEF PacketsAgree
  <2>3. CompletionAgrees'
    BY <1>0, <1>6 DEF IocpTypeOK, ClientInv, ClientsAgree, PacketsAgree, CompletionAgrees,
                      Working, NoPacket, PortsAgree, SetUpAgrees, HasPort, Early, Quit
  <2>. QED BY <2>1, <2>2, <2>3 DEF ClientInv
<1>7. ASSUME ClosePort(r) PROVE ClientInv'
  <2>1. ClientsAgree'
    BY <1>0, <1>7 DEF IocpTypeOK, ClientInv, ClientsAgree, PacketsAgree, CompletionAgrees,
                      Working, NoPacket, PortsAgree, SetUpAgrees, HasPort, Early, ClosePort
  <2>2. PacketsAgree'
    BY <1>0, <1>7 DEF IocpTypeOK, ClientInv, ClientsAgree, PacketsAgree, CompletionAgrees,
                      Working, NoPacket, PortsAgree, SetUpAgrees, HasPort, Early, ClosePort
  <2>3. CompletionAgrees'
    BY <1>0, <1>7 DEF IocpTypeOK, ClientInv, ClientsAgree, PacketsAgree, CompletionAgrees,
                      Working, NoPacket, PortsAgree, SetUpAgrees, HasPort, Early, ClosePort
  <2>. QED BY <2>1, <2>2, <2>3 DEF ClientInv
<1>8. ASSUME Cleanup(r) PROVE ClientInv'
  <2>1. ClientsAgree'
    BY <1>0, <1>8 DEF IocpTypeOK, ClientInv, ClientsAgree, PacketsAgree, CompletionAgrees,
                      Working, NoPacket, PortsAgree, SetUpAgrees, HasPort, Early, Cleanup
  <2>2. PacketsAgree'
    BY <1>0, <1>8 DEF IocpTypeOK, ClientInv, ClientsAgree, PacketsAgree, CompletionAgrees,
                      Working, NoPacket, PortsAgree, SetUpAgrees, HasPort, Early, Cleanup
  <2>3. CompletionAgrees'
    BY <1>0, <1>8 DEF IocpTypeOK, ClientInv, ClientsAgree, PacketsAgree, CompletionAgrees,
                      Working, NoPacket, PortsAgree, SetUpAgrees, HasPort, Early, Cleanup
  <2>. QED BY <2>1, <2>2, <2>3 DEF ClientInv
<1>9. ASSUME \/ Startup(r) \/ Flag(r) \/ MakeSocket(r) \/ Bind(r) \/ Listen(r) \/ MakeQueue(r)
             \/ CallBack(r) \/ CallBackReturns(r) \/ AcceptCall(r) \/ AcceptFails(r)
             \/ ForgetClient(r) \/ CloseListener(r) \/ Unflag(r)
      PROVE  ClientInv'
  <2>1. UNCHANGED <<hcp, packets, comp, cctx, clients>>
    BY <1>9 DEF Startup, Flag, MakeSocket, Bind, Listen, MakeQueue, CallBack,
                CallBackReturns, AcceptCall, AcceptFails, ForgetClient, CloseListener,
                Unflag
  <2>. QED BY <1>0, <2>1, ClientsUnchanged
<1>. QED BY <1>1, <1>2, <1>3, <1>4, <1>5, <1>6, <1>7, <1>8, <1>9
            DEF SetUp, AcceptLoop, WindDown

\* Winsock takes the same steps for any run.
LEMMA NetworkKeepsClients ==
    ASSUME IInv, Network
    PROVE  ClientInv'
<1>. USE IocpAssumption
         DEF outside, winsock, server, listeners, completion, handler, Handles
<1>0. IocpTypeOK /\ PortsAgree /\ ClientInv
  BY DEF IInv, ClientInv
<1>1. ASSUME NEW c \in Clients, NEW l \in Runs, Connect(c, l) PROVE ClientInv'
  <2>1. ClientsAgree'
    BY <1>0, <1>1 DEF IocpTypeOK, ClientInv, ClientsAgree, PacketsAgree, CompletionAgrees,
                      Working, NoPacket, PortsAgree, Connect, ports
  <2>2. PacketsAgree'
    <3>1. /\ ctx[c] = "none" /\ UNCHANGED <<hcp, packets, pending, ctx, chunks>>
          /\ at' = [at EXCEPT ![c] = l]
      BY <1>0, <1>1 DEF ClientInv, ClientsAgree, Connect, ports, clients
    <3>2. \A q \in Runs : \A i \in DOMAIN packets[q] : packets[q][i][1] # c
      BY <1>0, <3>1 DEF ClientInv, PacketsAgree
    <3>. QED BY <1>0, <3>1, <3>2, SMTT(60) DEF IocpTypeOK, ClientInv, PacketsAgree
  <2>3. CompletionAgrees'
    BY <1>0, <1>1 DEF IocpTypeOK, ClientInv, ClientsAgree, PacketsAgree, CompletionAgrees,
                      Working, NoPacket, PortsAgree, Connect, ports
  <2>. QED BY <2>1, <2>2, <2>3 DEF ClientInv
<1>2. ASSUME NEW c \in Clients, NEW kind \in {"data", "end", "error"}, RecvEnds(c, kind)
      PROVE  ClientInv'
  <2>1. ClientsAgree'
    BY <1>0, <1>2 DEF IocpTypeOK, ClientInv, ClientsAgree, PacketsAgree, CompletionAgrees,
                      Working, NoPacket, PortsAgree, RecvEnds
  <2>2. PacketsAgree'
    <3>1. /\ pending[c] /\ at[c] \in Runs /\ hcp[at[c]] = "open" /\ ctx[c] = "live"
          /\ kind = "data" => chunks[c] < MaxChunks
          /\ pending' = [pending EXCEPT ![c] = FALSE]
          /\ packets' = [packets EXCEPT ![at[c]] = Append(@, <<c, kind>>)]
          /\ UNCHANGED <<hcp, at, ctx, chunks>>
      BY <1>0, <1>2 DEF IocpTypeOK, ClientInv, ClientsAgree, RecvEnds, ports, clients
    <3>2. \A q \in Runs : \A i \in DOMAIN packets[q] : packets[q][i][1] # c
      BY <1>0, <3>1 DEF ClientInv, PacketsAgree
    <3>3. ASSUME NEW q \in Runs, NEW i \in DOMAIN packets'[q]
          PROVE  \/ i \in DOMAIN packets[q] /\ packets'[q][i] = packets[q][i]
                 \/ i = Len(packets[q]) + 1 /\ q = at[c] /\ packets'[q][i] = <<c, kind>>
      BY <1>0, <3>1 DEF IocpTypeOK
    <3>4. PacketsAgree /\ c # NULL
      BY <1>0 DEF ClientInv
    <3>5. ~pending'[c] /\ \A d \in Clients : ~pending[d] => ~pending'[d]
      BY <1>0, <3>1 DEF IocpTypeOK
    <3>6. \A q \in Runs : \A i \in DOMAIN packets[q] :
             packets[q][i][1] \in Clients \cup {NULL}
      BY <1>0 DEF IocpTypeOK
    <3>7. /\ hcp[at[c]] = "open" /\ ctx[c] = "live"
          /\ kind = "data" => chunks[c] < MaxChunks
          /\ UNCHANGED <<hcp, at, ctx, chunks>>
      BY ONLY <3>1
    <3>. QED BY ONLY <3>2, <3>3, <3>4, <3>5, <3>6, <3>7, SMTT(60) DEF PacketsAgree
  <2>3. CompletionAgrees'
    BY <1>0, <1>2 DEF IocpTypeOK, ClientInv, ClientsAgree, PacketsAgree, CompletionAgrees,
                      Working, NoPacket, PortsAgree, RecvEnds
  <2>. QED BY <2>1, <2>2, <2>3 DEF ClientInv
<1>. QED BY <1>1, <1>2 DEF Network

\* The packets of the ports still agree when the first one of a port is taken.
LEMMA TakenPacketsAgree ==
    ASSUME IInv, NEW r \in Runs, NEW kind \in {"data", "end", "error", "quit"},
           Packet(r, kind), UNCHANGED <<hcp, at, pending, ctx>>,
           \A d \in Clients : d # packets[r][1][1] => chunks'[d] = chunks[d]
    PROVE  PacketsAgree'
<1>0. IocpTypeOK /\ PacketsAgree
  BY DEF IInv
<1>1. /\ \A i \in DOMAIN packets'[r] :
            /\ i + 1 \in DOMAIN packets[r] /\ packets'[r][i] = packets[r][i + 1]
            /\ packets'[r][i][1] # NULL => packets'[r][i][1] # packets[r][1][1]
      /\ \A s \in Runs : s # r => packets'[s] = packets[s]
      /\ packets[r][1][1] # NULL => packets[r][1][1] \in Clients /\ at[packets[r][1][1]] = r
      /\ packets' \in [Runs -> Seq((Clients \cup {NULL}) \X {"data", "end", "error", "quit"})]
  BY PacketTaken
<1>2. ASSUME NEW s \in Runs, NEW i \in DOMAIN packets'[s]
      PROVE  LET c == packets'[s][i][1]
                 k == packets'[s][i][2]
             IN  /\ c = NULL <=> k = "quit"
                 /\ c # NULL => /\ at[c] = s /\ ctx[c] # "none" /\ ~pending[c]
                                /\ hcp[s] = "open" => ctx[c] = "live"
                                /\ k = "data" => chunks'[c] < MaxChunks
  <2>. DEFINE c == packets'[s][i][1]
              k == packets'[s][i][2]
  <2>1. PICK j \in DOMAIN packets[s] : packets'[s][i] = packets[s][j]
    <3>1. CASE s = r
      BY <1>1, <1>2, <3>1
    <3>2. CASE s # r
      BY <1>1, <1>2, <3>2
    <3>. QED BY <3>1, <3>2
  <2>2. c \in Clients \cup {NULL}
    BY <1>1, <1>2
  <2>3. c # NULL => chunks'[c] = chunks[c]
    <3>1. CASE s = r
      BY <1>1, <1>2, <2>2, <3>1
    <3>2. CASE s # r
      BY <1>0, <1>1, <2>1, <2>2, <3>2 DEF PacketsAgree
    <3>. QED BY <3>1, <3>2
  <2>. QED BY <1>0, <2>1, <2>3 DEF PacketsAgree
<1>3. ASSUME NEW s \in Runs, NEW i \in DOMAIN packets'[s], NEW j \in DOMAIN packets'[s],
             packets'[s][i][1] = packets'[s][j][1], packets'[s][i][1] # NULL
      PROVE  i = j
  <2>1. CASE s # r
    BY <1>0, <1>1, <1>3, <2>1 DEF PacketsAgree
  <2>2. CASE s = r
    <3>1. i + 1 = j + 1
      BY <1>0, <1>1, <1>3, <2>2 DEF PacketsAgree
    <3>2. i \in Nat /\ j \in Nat
      BY <1>1, <1>3
    <3>. QED BY <3>1, <3>2
  <2>. QED BY <2>1, <2>2
<1>. QED BY <1>2, <1>3 DEF PacketsAgree

\* So do the completion threads, one of which now has that packet's client.
LEMMA TakenCompletionAgrees ==
    ASSUME IInv, NEW r \in Runs, NEW kind \in {"data", "end", "error", "quit"},
           Packet(r, kind), UNCHANGED <<hcp, at, pending, ctx>>,
           NEW place \in {"rearm", "clear", "clearLast", "done"},
           comp' = [comp EXCEPT ![r] = place], place = "done" <=> kind = "quit",
           \/ place \in {"rearm", "done"} /\ UNCHANGED sock
           \/ place \in {"clear", "clearLast"} /\ CloseClient(packets[r][1][1])
    PROVE  CompletionAgrees'
<1>. DEFINE c == packets[r][1][1]
<1>0. IocpTypeOK /\ PacketsAgree /\ ClientsAgree /\ CompletionAgrees
  BY DEF IInv
<1>1. /\ cctx' = [cctx EXCEPT ![r] = c] /\ (kind = "quit" => c = NULL)
      /\ kind # "quit" => /\ c \in Clients /\ at[c] = r /\ ctx[c] = "live" /\ ~pending[c]
                          /\ \A i \in DOMAIN packets'[r] : packets'[r][i][1] # c
      /\ \A s \in Runs : s # r => packets'[s] = packets[s]
  BY PacketTaken
<1>2. /\ cctx'[r] = c /\ comp'[r] = place
      /\ \A s \in Runs : s # r => cctx'[s] = cctx[s] /\ comp'[s] = comp[s]
  BY <1>0, <1>1 DEF IocpTypeOK
<1>3. \A d \in Clients : sock[d] \in {"closed", "lost"} => sock'[d] = sock[d]
  BY <1>0 DEF IocpTypeOK, CloseClient
<1>4. place \in {"clear", "clearLast"} => sock'[c] \in {"closed", "lost"}
  <2>1. ASSUME place \in {"clear", "clearLast"}
        PROVE  sock[c] \in {"open", "closed", "lost"} /\ CloseClient(c) /\ c \in Clients
    <3>1. CloseClient(c) /\ c \in Clients /\ ctx[c] = "live"
      BY <1>1, <2>1
    <3>2. /\ sock[c] \in {"off", "queued", "open", "closed", "lost"}
          /\ sock[c] \notin {"off", "queued"}
      BY <1>0, <3>1 DEF IocpTypeOK, ClientsAgree
    <3>. QED BY <3>1, <3>2
  <2>. QED BY <1>0, <2>1 DEF IocpTypeOK, CloseClient
<1>5. ASSUME NEW s \in Runs, s # r
      PROVE  /\ cctx'[s] # NULL => at'[cctx'[s]] = s /\ ctx'[cctx'[s]] = "live"
             /\ comp'[s] \in {"rearm", "clear", "clearLast"} => cctx'[s] # NULL
             /\ Working(s)' => ~pending'[cctx'[s]] /\ NoPacket(s, cctx[s])'
             /\ comp'[s] \in {"clear", "clearLast"} => sock'[cctx'[s]] \in {"closed", "lost"}
  <2>1. cctx[s] # NULL => cctx[s] \in Clients
    BY <1>0 DEF IocpTypeOK
  <2>. QED BY <1>0, <1>1, <1>2, <1>3, <1>5, <2>1 DEF CompletionAgrees, Working, NoPacket
<1>6. /\ cctx'[r] # NULL => at'[cctx'[r]] = r /\ ctx'[cctx'[r]] = "live"
      /\ comp'[r] \in {"rearm", "clear", "clearLast"} => cctx'[r] # NULL
      /\ comp'[r] \in {"clear", "clearLast"} => sock'[cctx'[r]] \in {"closed", "lost"}
  BY <1>1, <1>2, <1>4, IocpAssumption
<1>7. Working(r)' => ~pending'[cctx'[r]] /\ NoPacket(r, cctx[r])'
  BY <1>1, <1>2 DEF Working, NoPacket
<1>. QED BY <1>5, <1>6, <1>7 DEF CompletionAgrees

LEMMA CompletionKeepsClients ==
    ASSUME IInv, NEW r \in Runs, CompletionThread(r)
    PROVE  ClientInv'
<1>. USE IocpAssumption
         DEF outside, winsock, statics, server, listeners, ports, clients, handler, Handles
<1>0. IocpTypeOK /\ PortsAgree /\ ClientInv
  BY DEF IInv, ClientInv
<1>1. ASSUME GotData(r) PROVE ClientInv'
  <2>. DEFINE c == packets[r][1][1]
  <2>1. /\ Packet(r, "data") /\ comp' = [comp EXCEPT ![r] = "rearm"]
        /\ UNCHANGED <<hcp, at, pending, ctx>>
    BY <1>1 DEF GotData
  <2>2. UNCHANGED sock /\ \A d \in Clients : d # c => chunks'[d] = chunks[d]
    <3>1. cctx'[r] = c
      BY <1>0, <2>1, PacketTaken DEF IocpTypeOK
    <3>. QED BY <1>0, <1>1, <3>1 DEF IocpTypeOK, GotData
  <2>3. ClientsAgree'
    BY <1>0, <2>1, <2>2 DEF IocpTypeOK, ClientInv, ClientsAgree, CloseClient
  <2>4. PacketsAgree'
    BY <2>1, <2>2, TakenPacketsAgree
  <2>5. CompletionAgrees'
    BY <2>1, <2>2, TakenCompletionAgrees
  <2>. QED BY <2>3, <2>4, <2>5 DEF ClientInv
<1>2. ASSUME GotEnd(r) PROVE ClientInv'
  <2>. DEFINE c == packets[r][1][1]
  <2>1. /\ Packet(r, "end") /\ comp' = [comp EXCEPT ![r] = "clear"]
        /\ UNCHANGED <<hcp, at, pending, ctx>>
    BY <1>2 DEF GotEnd
  <2>2. CloseClient(c) /\ UNCHANGED chunks
    <3>1. cctx'[r] = c
      BY <1>0, <2>1, PacketTaken, SMTT(60) DEF IocpTypeOK
    <3>. QED BY <1>2, <3>1 DEF GotEnd
  <2>3. ClientsAgree'
    BY <1>0, <2>1, <2>2 DEF IocpTypeOK, ClientInv, ClientsAgree, CloseClient
  <2>4. PacketsAgree'
    BY <2>1, <2>2, TakenPacketsAgree
  <2>5. CompletionAgrees'
    BY <2>1, <2>2, TakenCompletionAgrees
  <2>. QED BY <2>3, <2>4, <2>5 DEF ClientInv
<1>3. ASSUME GotError(r) PROVE ClientInv'
  <2>. DEFINE c == packets[r][1][1]
  <2>1. /\ Packet(r, "error") /\ comp' = [comp EXCEPT ![r] = "clearLast"]
        /\ UNCHANGED <<hcp, at, pending, ctx>>
    BY <1>3 DEF GotError
  <2>2. CloseClient(c) /\ UNCHANGED chunks
    <3>1. cctx'[r] = c
      BY <1>0, <2>1, PacketTaken, SMTT(60) DEF IocpTypeOK
    <3>. QED BY <1>3, <3>1 DEF GotError
  <2>3. ClientsAgree'
    BY <1>0, <2>1, <2>2 DEF IocpTypeOK, ClientInv, ClientsAgree, CloseClient
  <2>4. PacketsAgree'
    BY <2>1, <2>2, TakenPacketsAgree
  <2>5. CompletionAgrees'
    BY <2>1, <2>2, TakenCompletionAgrees
  <2>. QED BY <2>3, <2>4, <2>5 DEF ClientInv
<1>4. ASSUME GotQuit(r) PROVE ClientInv'
  <2>. DEFINE c == packets[r][1][1]
  <2>1. /\ Packet(r, "quit") /\ comp' = [comp EXCEPT ![r] = "done"]
        /\ UNCHANGED <<hcp, at, pending, ctx>>
    BY <1>4 DEF GotQuit
  <2>2. UNCHANGED <<sock, chunks>>
    BY <1>4 DEF GotQuit
  <2>3. ClientsAgree'
    BY <1>0, <2>1, <2>2 DEF IocpTypeOK, ClientInv, ClientsAgree, CloseClient
  <2>4. PacketsAgree'
    BY <2>1, <2>2, TakenPacketsAgree
  <2>5. CompletionAgrees'
    BY <2>1, <2>2, TakenCompletionAgrees
  <2>. QED BY <2>3, <2>4, <2>5 DEF ClientInv
<1>5. ASSUME Rearm(r) PROVE ClientInv'
  <2>1. ClientsAgree'
    BY <1>0, <1>5 DEF IocpTypeOK, ClientInv, ClientsAgree, PacketsAgree, CompletionAgrees,
                      Working, NoPacket, PortsAgree, Rearm
  <2>2. PacketsAgree'
    BY <1>0, <1>5 DEF IocpTypeOK, ClientInv, ClientsAgree, PacketsAgree, CompletionAgrees,
                      Working, NoPacket, PortsAgree, Rearm
  <2>3. CompletionAgrees'
    BY <1>0, <1>5 DEF IocpTypeOK, ClientInv, ClientsAgree, PacketsAgree, CompletionAgrees,
                      Working, NoPacket, PortsAgree, Rearm
  <2>. QED BY <2>1, <2>2, <2>3 DEF ClientInv
<1>6. ASSUME RearmFails(r) PROVE ClientInv'
  <2>1. ClientsAgree'
    BY <1>0, <1>6 DEF IocpTypeOK, ClientInv, ClientsAgree, RearmFails, CloseClient
  <2>2. PacketsAgree'
    BY <1>0, <1>6 DEF ClientInv, PacketsAgree, RearmFails
  <2>3. /\ comp[r] = "rearm" /\ cctx[r] \in Clients /\ ctx[cctx[r]] = "live"
        /\ comp' = [comp EXCEPT ![r] = "clearLast"]
        /\ sock' = [sock EXCEPT ![cctx[r]] = IF @ = "open" THEN "closed" ELSE @]
        /\ UNCHANGED <<hcp, packets, cctx, at, pending, ctx>>
    BY <1>0, <1>6 DEF IocpTypeOK, ClientInv, CompletionAgrees, RearmFails, CloseClient
  <2>4. sock'[cctx[r]] \in {"closed", "lost"}
    <3>0. \A c \in Clients :
             /\ sock[c] \in {"off", "queued", "open", "closed", "lost"}
             /\ ctx[c] = "live" => sock[c] \notin {"off", "queued"}
      BY <1>0 DEF IocpTypeOK, ClientInv, ClientsAgree
    <3>1. sock[cctx[r]] \in {"open", "closed", "lost"}
      BY <2>3, <3>0
    <3>. QED BY <1>0, <2>3, <3>1 DEF IocpTypeOK
  <2>5. \A c \in Clients : sock[c] \in {"closed", "lost"} => sock'[c] \in {"closed", "lost"}
    BY <1>0, <2>3 DEF IocpTypeOK
  <2>6. comp'[r] = "clearLast" /\ \A s \in Runs : s # r => comp'[s] = comp[s]
    BY <1>0, <2>3 DEF IocpTypeOK
  <2>7. CompletionAgrees'
    BY <1>0, <2>3, <2>4, <2>5, <2>6
       DEF IocpTypeOK, ClientInv, CompletionAgrees, Working, NoPacket
  <2>. QED BY <2>1, <2>2, <2>7 DEF ClientInv
<1>7. ASSUME ClearClient(r) PROVE ClientInv'
  <2>1. ClientsAgree'
    BY <1>0, <1>7 DEF IocpTypeOK, ClientInv, ClientsAgree, PacketsAgree, CompletionAgrees,
                      Working, NoPacket, PortsAgree, ClearClient, DropContext
  <2>2. PacketsAgree'
    BY <1>0, <1>7 DEF IocpTypeOK, ClientInv, ClientsAgree, PacketsAgree, CompletionAgrees,
                      Working, NoPacket, PortsAgree, ClearClient, DropContext
  <2>3. CompletionAgrees'
    BY <1>0, <1>7 DEF IocpTypeOK, ClientInv, ClientsAgree, PacketsAgree, CompletionAgrees,
                      Working, NoPacket, PortsAgree, ClearClient, DropContext
  <2>. QED BY <2>1, <2>2, <2>3 DEF ClientInv
<1>8. ASSUME Abandoned(r) PROVE ClientInv'
  <2>1. /\ hcp[r] = "closed" /\ UNCHANGED <<hcp, packets, cctx, at, pending, ctx, chunks>>
        /\ \/ cctx[r] = NULL /\ comp' = [comp EXCEPT ![r] = "done"] /\ UNCHANGED sock
           \/ /\ cctx[r] \in Clients
              /\ comp' = [comp EXCEPT ![r] = "clearLast"]
              /\ CloseClient(cctx[r])
    <3>1. comp[r] = "get" /\ hcp[r] = "closed"
      BY <1>0, <1>8 DEF PortsAgree, Abandoned
    <3>2. cctx[r] \in Clients \cup {NULL}
      BY <1>0 DEF IocpTypeOK
    <3>. QED BY <1>8, <3>1, <3>2 DEF Abandoned
  <2>2. ClientsAgree'
    BY <1>0, <2>1 DEF IocpTypeOK, ClientInv, ClientsAgree, CloseClient
  <2>3. PacketsAgree'
    BY <1>0, <2>1 DEF ClientInv, PacketsAgree
  <2>4. CompletionAgrees'
    <3>1. CASE cctx[r] = NULL
      BY <1>0, <2>1, <3>1 DEF IocpTypeOK, ClientInv, CompletionAgrees, Working, NoPacket
    <3>2. CASE cctx[r] \in Clients
      <4>1. /\ comp'[r] = "clearLast" /\ \A s \in Runs : s # r => comp'[s] = comp[s]
            /\ \A d \in Clients : sock[d] \in {"closed", "lost"} => sock'[d] = sock[d]
        BY <1>0, <2>1, <3>2 DEF IocpTypeOK, CloseClient
      <4>2. sock[cctx[r]] \in {"open", "closed", "lost"}
        <5>1. ctx[cctx[r]] = "live"
          BY <1>0, <3>2 DEF ClientInv, CompletionAgrees
        <5>2. sock[cctx[r]] \notin {"off", "queued"}
          BY <1>0, <3>2, <5>1 DEF ClientInv, ClientsAgree
        <5>. QED BY <1>0, <3>2, <5>2 DEF IocpTypeOK
      <4>3. sock'[cctx[r]] \in {"closed", "lost"}
        BY <1>0, <2>1, <3>2, <4>2 DEF IocpTypeOK, CloseClient
      <4>. QED BY <1>0, <2>1, <3>2, <4>1, <4>3, SMTT(60)
                  DEF IocpTypeOK, ClientInv, CompletionAgrees, Working, NoPacket
    <3>. QED BY <2>1, <3>1, <3>2
  <2>. QED BY <2>2, <2>3, <2>4 DEF ClientInv
<1>. QED BY <1>1, <1>2, <1>3, <1>4, <1>5, <1>6, <1>7, <1>8 DEF CompletionThread
-----------------------------------------------------------------------------
(* The other steps, and the rest of IInv.                                  *)

\* A step that leaves the thread in startIocpServer where it is, opens no
\* socket that could be listened or accepted on, and starts no thread.
LEMMA ServerStays ==
    ASSUME IInv, UNCHANGED <<srv, arg, winsock, g_hcp, hcp, cport>>,
           \A l \in Runs : lsock'[l] \in {lsock[l], "closed"},
           \A c \in Clients : sock'[c] \in {"queued", "open"} =>
               sock'[c] = sock[c] \/ \E l \in Runs : lsock[l] = "listening",
           \A s \in Runs : comp[s] = "none" => comp'[s] = "none",
           \A c \in Clients : /\ ctx[c] = "live" /\ at[c] = NULL => ctx'[c] = "live"
                              /\ ctx[c] = "live" => at'[c] = at[c]
    PROVE  ServerInv'
<1>0. IocpTypeOK /\ ServerInv
  BY DEF IInv, ServerInv
<1>1. OneRun' /\ WinsockAgrees'
  BY <1>0 DEF ServerInv, OneRun, WinsockAgrees, Up, HasPort, At, winsock
<1>2. SocketsGone'
  BY <1>0 DEF ServerInv, SocketsGone
<1>3. PortsAgree'
  BY <1>0 DEF ServerInv, PortsAgree, HasPort, At
<1>4. SetUpAgrees'
  BY <1>0 DEF ServerInv, SetUpAgrees, At
<1>. QED BY <1>1, <1>2, <1>3, <1>4 DEF ServerInv

LEMMA OthersKeepServer ==
    ASSUME IInv,
           \/ Network \/ CleanCloses \/ CleanForgets
           \/ \E r \in Runs : \/ CompletionThread(r) \/ HandlerCalls(r) \/ HandlerTakes(r)
                              \/ HandlerFrees(r)
    PROVE  ServerInv'
<1>. USE IocpAssumption DEF world, outside, winsock, statics, server, listeners, ports,
         completion, handler, clients
<1>0. IocpTypeOK /\ ClientInv
  BY DEF IInv, ClientInv
<1>1. ASSUME NEW c \in Clients, NEW l \in Runs, Connect(c, l) PROVE ServerInv'
  <2>1. ctx[c] = "none"
    BY <1>0, <1>1 DEF ClientInv, ClientsAgree, Connect
  <2>. QED BY <1>0, <1>1, <2>1, ServerStays DEF IocpTypeOK, Connect
<1>2. ASSUME NEW c \in Clients, NEW kind \in {"data", "end", "error"}, RecvEnds(c, kind)
      PROVE  ServerInv'
  BY <1>2, ServerStays DEF RecvEnds
<1>3. ASSUME NEW r \in Runs, CompletionThread(r) PROVE ServerInv'
  <2>1. UNCHANGED <<srv, arg, winsock, g_hcp, hcp, cport, lsock, at>>
    BY <1>3, SMTT(60)
       DEF CompletionThread, GotData, Rearm, RearmFails, GotEnd, GotError, ClearClient,
                GotQuit, Abandoned
  <2>2. \A s \in Runs : comp[s] = "none" => comp'[s] = "none"
    <3>1. comp[r] # "none" /\ \E word : comp' = [comp EXCEPT ![r] = word]
      BY <1>3 DEF CompletionThread, Packet, GotData, Rearm, RearmFails, GotEnd, GotError,
                  ClearClient, GotQuit, Abandoned
    <3>. QED BY <1>0, <3>1, SMTT(60) DEF IocpTypeOK
  <2>3. UNCHANGED sock \/ \E x : CloseClient(x)
    BY <1>3 DEF CompletionThread, GotData, Rearm, RearmFails, GotEnd, GotError, ClearClient,
                GotQuit, Abandoned
  <2>4. \A c \in Clients : sock'[c] \in {"queued", "open"} => sock'[c] = sock[c]
    BY <1>0, <2>3 DEF IocpTypeOK, CloseClient
  <2>5. \A c \in Clients : ctx[c] = "live" /\ at[c] = NULL => ctx'[c] = "live"
    <3>1. CASE UNCHANGED ctx
      BY <3>1
    <3>2. CASE ClearClient(r)
      BY <1>0, <3>2 DEF IocpTypeOK, ClientInv, CompletionAgrees, ClearClient, DropContext
    <3>. QED
      BY <1>3, <3>1, <3>2 DEF CompletionThread, GotData, Rearm, RearmFails, GotEnd,
                              GotError, GotQuit, Abandoned
  <2>. QED BY <2>1, <2>2, <2>4, <2>5, ServerStays
<1>4. ASSUME NEW r \in Runs, HandlerCalls(r) \/ HandlerTakes(r) \/ HandlerFrees(r)
      PROVE  ServerInv'
  BY <1>4, ServerStays DEF HandlerCalls, HandlerTakes, HandlerFrees
<1>5. ASSUME CleanCloses \/ CleanForgets PROVE ServerInv'
  BY <1>0, <1>5, ServerStays DEF IocpTypeOK, CleanCloses, CleanForgets, CloseListening
<1>. QED BY <1>1, <1>2, <1>3, <1>4, <1>5 DEF Network

\* startIocpServer is called when no run goes on.
LEMMA StartKeeps ==
    ASSUME IInv, NEW r \in Runs, NEW p \in TcpPorts, Start(r, p),
           \A s \in Runs : srv[s] \in Idle
    PROVE  ServerInv' /\ ClientInv'
<1>0. IocpTypeOK /\ ServerInv /\ ClientInv
  BY DEF IInv, ServerInv, ClientInv
<1>1. /\ srv[r] = "unused" /\ srv' = [srv EXCEPT ![r] = "ready"]
      /\ UNCHANGED <<winsock_init, wsa, g_hcp, arg, lsock, hcp, packets, comp, cport, cctx,
                     clients>>
  BY DEF Start, Moves, At, GoTo, world, winsock, statics, ports, completion
<1>2. srv'[r] = "ready" /\ \A s \in Runs : s # r => srv'[s] \in Idle /\ srv'[s] = srv[s]
  BY <1>0, <1>1 DEF IocpTypeOK
<1>3. OneRun' /\ SocketsGone'
  BY <1>2 DEF OneRun, SocketsGone, Idle
<1>4. WinsockAgrees'
  BY <1>0, <1>1, <1>2 DEF ServerInv, WinsockAgrees, Idle, At, Up, HasPort
<1>5. PortsAgree'
  BY <1>0, <1>1, <1>2 DEF ServerInv, PortsAgree, Idle, Early, At, HasPort
<1>6. SetUpAgrees'
  BY <1>0, <1>1, <1>2, SMTT(60) DEF ServerInv, SetUpAgrees, Idle, At, clients
<1>7. ClientInv'
  BY <1>0, <1>1, ClientsUnchanged, SMTT(60)
<1>. QED BY <1>3, <1>4, <1>5, <1>6, <1>7 DEF ServerInv

LEMMA HandlersKeep ==
    ASSUME IInv, IocpNext
    PROVE  HandlerAgrees'
<1>0. IocpTypeOK /\ HandlerAgrees
  BY DEF IInv
<1>1. ASSUME NEW r \in Runs, HandlerCalls(r) PROVE HandlerAgrees'
  BY <1>0, <1>1 DEF IocpTypeOK, HandlerAgrees, HandlerCalls, Handles
<1>2. ASSUME NEW r \in Runs, HandlerTakes(r) \/ HandlerFrees(r) PROVE HandlerAgrees'
  <2>1. /\ hnd' = [hnd EXCEPT ![r] = "show"] \/ hnd' = [hnd EXCEPT ![r] = "call"]
        /\ \A s \in Runs : s # r => hold'[s] = hold[s]
    BY <1>0, <1>2 DEF IocpTypeOK, HandlerTakes, HandlerFrees
  <2>2. hnd'[r] # "wait" /\ \A s \in Runs : s # r => hnd'[s] = hnd[s]
    BY <1>0, <2>1 DEF IocpTypeOK
  <2>. QED BY <1>0, <2>1, <2>2 DEF HandlerAgrees
<1>3. ASSUME NEW r \in Runs, StartThreads(r) PROVE HandlerAgrees'
  BY <1>0, <1>3 DEF IocpTypeOK, HandlerAgrees, StartThreads
<1>4. CASE UNCHANGED handler
  BY <1>0, <1>4 DEF HandlerAgrees, handler
<1>5. ASSUME NEW r \in Runs, SetUp(r) \/ WindDown(r) PROVE HandlerAgrees'
  BY <1>3, <1>4, <1>5
     DEF SetUp, Startup, Flag, MakeSocket, Bind, Listen, MakePort, MakeQueue, WindDown, Quit,
         CloseListener, ClosePort, Cleanup, Unflag, world, outside
<1>6. ASSUME NEW r \in Runs, AcceptLoop(r) PROVE HandlerAgrees'
  BY <1>4, <1>6 DEF AcceptLoop, AcceptCall, Accepted, AcceptFails, PostRecv, PostRecvFails,
                    ForgetClient, world, outside
<1>7. ASSUME NEW r \in Runs, CompletionThread(r) PROVE HandlerAgrees'
  BY <1>4, <1>7 DEF CompletionThread, GotData, Rearm, RearmFails, GotEnd, GotError,
                    ClearClient, GotQuit, Abandoned, outside
<1>8. ASSUME NEW r \in Runs, \/ CallBack(r) \/ CallBackReturns(r)
                             \/ \E p \in TcpPorts : Start(r, p)
      PROVE  HandlerAgrees'
  BY <1>4, <1>8 DEF CallBack, CallBackReturns, Start, world, outside
<1>9. ASSUME Network \/ CleanCloses \/ CleanForgets PROVE HandlerAgrees'
  BY <1>4, <1>9 DEF Network, Connect, RecvEnds, CleanCloses, CleanForgets, world, outside
<1>. QED BY <1>1, <1>2, <1>5, <1>6, <1>7, <1>8, <1>9 DEF IocpNext, Internal

\* What g_cSocket holds stays open or lost, unless the thread that closes it is
\* about to clear g_cSocket, which is what that thread does next.
LEMMA WriteTargetKept ==
    ASSUME IInv, IocpNext
    PROVE  WriteTarget'
<1>. USE DEF world, outside, winsock, statics, server, listeners, ports, completion,
         handler, clients, At, GoTo, Moves
<1>0. IocpTypeOK /\ WriteTarget
  BY DEF IInv
<1>1. ASSUME NEW r \in Runs, NEW c \in Clients, Accepted(r, c) PROVE WriteTarget'
  BY <1>0, <1>1 DEF IocpTypeOK, WriteTarget, Accepted
<1>2. ASSUME NEW r \in Runs, ForgetClient(r) \/ ClearClient(r) PROVE WriteTarget'
  BY <1>2 DEF WriteTarget, ForgetClient, ClearClient, ForgetSocket
<1>3. ASSUME NEW r \in Runs, PostRecvFails(r) PROVE WriteTarget'
  <2>1. srv'[r] = "unpost"
    BY <1>0, <1>3 DEF IocpTypeOK, PostRecvFails
  <2>. QED BY <2>1 DEF WriteTarget
<1>4. ASSUME NEW r \in Runs, RearmFails(r) \/ GotEnd(r) \/ GotError(r) PROVE WriteTarget'
  <2>1. comp'[r] \in {"clear", "clearLast"}
    BY <1>0, <1>4 DEF IocpTypeOK, RearmFails, GotEnd, GotError
  <2>. QED BY <2>1 DEF WriteTarget
\* The other steps neither set g_cSocket nor close a socket, and leave those
\* that have closed one where they are.
<1>5. ASSUME UNCHANGED g_cSocket,
             \A r \in Runs : /\ srv[r] = "unpost" => srv'[r] = "unpost"
                             /\ comp[r] \in {"clear", "clearLast"} => comp'[r] = comp[r],
             \A c \in Clients : sock[c] \in {"open", "lost"} => sock'[c] \in {"open", "lost"}
      PROVE  WriteTarget'
  <2>1. CASE g_cSocket = NULL \/ sock[g_cSocket] \in {"open", "lost"}
    BY <1>0, <1>5, <2>1 DEF IocpTypeOK, WriteTarget
  <2>2. ASSUME NEW r \in Runs, srv[r] = "unpost" \/ comp[r] \in {"clear", "clearLast"}
        PROVE  WriteTarget'
    <3>1. srv'[r] = "unpost" \/ comp'[r] \in {"clear", "clearLast"}
      BY <1>5, <2>2
    <3>. QED BY <3>1 DEF WriteTarget
  <2>. QED BY <1>0, <2>1, <2>2 DEF WriteTarget
<1>6. ASSUME NEW r \in Runs, Abandoned(r) PROVE WriteTarget'
  <2>1. CASE cctx[r] = NULL /\ UNCHANGED sock
    BY <1>0, <1>5, <1>6, <2>1 DEF IocpTypeOK, Abandoned
  <2>2. CASE comp' = [comp EXCEPT ![r] = "clearLast"]
    <3>1. comp'[r] = "clearLast"
      BY <1>0, <2>2 DEF IocpTypeOK
    <3>. QED BY <3>1 DEF WriteTarget
  <2>. QED BY <1>6, <2>1, <2>2 DEF Abandoned
<1>7. ASSUME NEW r \in Runs,
             \/ SetUp(r) \/ AcceptCall(r) \/ AcceptFails(r) \/ PostRecv(r) \/ WindDown(r)
             \/ CallBack(r) \/ CallBackReturns(r) \/ \E p \in TcpPorts : Start(r, p)
      PROVE  WriteTarget'
  <2>1. UNCHANGED <<g_cSocket, cctx>>
    BY <1>7 DEF SetUp, WindDown, Start, Startup, Flag, MakeSocket, Bind, Listen, MakePort,
                StartThreads, MakeQueue, CallBack, CallBackReturns, AcceptCall, AcceptFails,
                PostRecv, Quit, CloseListener, ClosePort, Cleanup, Unflag
  <2>2. \A s \in Runs : srv[s] = "unpost" => srv'[s] = "unpost"
    BY <1>0, <1>7 DEF IocpTypeOK, SetUp, WindDown, Start, Startup, Flag, MakeSocket, Bind,
                      Listen, MakePort, StartThreads, MakeQueue, CallBack, CallBackReturns,
                      AcceptCall, AcceptFails, PostRecv, Quit, CloseListener, ClosePort,
                      Cleanup, Unflag
  <2>3. \A s \in Runs : comp[s] \in {"clear", "clearLast"} => comp'[s] = comp[s]
    <3>1. CASE StartThreads(r)
      <4>1. comp[r] = "none"
        BY <3>1 DEF IInv, PortsAgree, StartThreads, Early
      <4>. QED BY <1>0, <3>1, <4>1 DEF IocpTypeOK, StartThreads
    <3>. QED
      BY <1>7, <3>1
         DEF SetUp, WindDown, Start, Startup, Flag, MakeSocket, Bind, Listen, MakePort,
             MakeQueue, CallBack, CallBackReturns, AcceptCall, AcceptFails,
             PostRecv, Quit, CloseListener, ClosePort, Cleanup, Unflag
  <2>4. \A c \in Clients : sock[c] \in {"open", "lost"} => sock'[c] \in {"open", "lost"}
    BY <1>0, <1>7 DEF IocpTypeOK, SetUp, WindDown, Start, Startup, Flag, MakeSocket, Bind,
                      Listen, MakePort, StartThreads, MakeQueue, CallBack, CallBackReturns,
                      AcceptCall, AcceptFails, PostRecv, Quit, CloseListener, ClosePort,
                      Cleanup, Unflag
  <2>. QED BY <1>5, <2>1, <2>2, <2>3, <2>4
<1>8. ASSUME NEW r \in Runs, GotData(r) \/ Rearm(r) \/ GotQuit(r) \/ HandlerCalls(r)
                           \/ HandlerTakes(r) \/ HandlerFrees(r)
      PROVE  WriteTarget'
  <2>1. UNCHANGED <<g_cSocket, srv, sock>>
    BY <1>8 DEF GotData, Rearm, GotQuit, HandlerCalls, HandlerTakes, HandlerFrees
  <2>2. \A s \in Runs : comp[s] \in {"clear", "clearLast"} => comp'[s] = comp[s]
    BY <1>0, <1>8 DEF IocpTypeOK, Packet, GotData, Rearm, GotQuit, HandlerCalls,
                      HandlerTakes, HandlerFrees
  <2>. QED BY <1>5, <2>1, <2>2
<1>9. ASSUME Network \/ CleanCloses \/ CleanForgets PROVE WriteTarget'
  <2>1. UNCHANGED <<g_cSocket, srv, comp>>
    BY <1>9 DEF Network, Connect, RecvEnds, CleanCloses, CleanForgets
  <2>2. \A c \in Clients : sock[c] \in {"open", "lost"} => sock'[c] \in {"open", "lost"}
    <3>1. CASE Network
      BY <1>0, <3>1 DEF IocpTypeOK, Network, Connect, RecvEnds
    <3>2. CASE CleanCloses \/ CleanForgets
      BY <3>2 DEF CleanCloses, CleanForgets
    <3>. QED BY <1>9, <3>1, <3>2
  <2>. QED BY <1>5, <2>1, <2>2
<1>. QED
  BY <1>1, <1>2, <1>3, <1>4, <1>6, <1>7, <1>8, <1>9
     DEF IocpNext, Internal, AcceptLoop, CompletionThread
-----------------------------------------------------------------------------
(* The theorems.                                                           *)

\* The types of every variable, one run at a time, Winsock's count, and who
\* holds a client: together they are kept by every step.
THEOREM Inductive == IocpSpec => []IInv
<1>. USE IocpAssumption
<1>1. IocpInit => IInv
  <2>. SUFFICES ASSUME IocpInit PROVE IInv
    OBVIOUS
  <2>1. IocpTypeOK
    <3>1. \A S : [r \in Runs |-> << >>] \in [Runs -> Seq(S)]
      OBVIOUS
    <3>2. packets \in [Runs -> Seq((Clients \cup {NULL}) \X {"data", "end", "error", "quit"})]
      BY <3>1 DEF IocpInit
    <3>3. queue \in [Runs -> Seq(Chunks)]
      BY <3>1 DEF IocpInit
    <3>4. /\ winsock_init \in BOOLEAN /\ wsa \in Nat
          /\ g_hcp \in Handles /\ gQueue \in Handles
          /\ g_sSocket \in Handles \cup {INVALID} /\ g_cSocket \in Clients \cup {NULL}
          /\ cleaning \in BOOLEAN
      BY DEF IocpInit, Handles
    <3>5. 0 \in 0 .. MaxChunks
      BY DEF IocpAssumption
    <3>. QED BY <3>2, <3>3, <3>4, <3>5 DEF IocpInit, IocpTypeOK, Handles
  <2>2. ServerInv
    BY DEF IocpInit, ServerInv, OneRun, WinsockAgrees, SocketsGone, PortsAgree, SetUpAgrees,
           Idle, Early, Up, HasPort, At
  <2>3. ClientInv /\ HandlerAgrees /\ WriteTarget
    BY DEF IocpInit, ClientInv, ClientsAgree, PacketsAgree, CompletionAgrees, HandlerAgrees,
           Working, WriteTarget
  <2>. QED BY <2>1, <2>2, <2>3 DEF IInv, ServerInv, ClientInv
<1>2. IInv /\ [IocpNext]_iocpVars => IInv'
  <2>1. ASSUME IInv, IocpNext PROVE ServerInv' /\ ClientInv'
    <3>1. ASSUME NEW r \in Runs,
                 \/ SetUp(r) \/ AcceptLoop(r) \/ WindDown(r) \/ CallBack(r) \/ CallBackReturns(r)
          PROVE  ServerInv' /\ ClientInv'
      BY <2>1, <3>1, ServerMoves, ServerKeepsClients
    <3>2. ASSUME NEW r \in Runs, NEW p \in TcpPorts, Start(r, p),
                 \A s \in Runs : srv[s] \in {"unused", "done"}
          PROVE  ServerInv' /\ ClientInv'
      BY <2>1, <3>2, StartKeeps DEF Idle
    <3>3. ASSUME NEW r \in Runs, CompletionThread(r) PROVE ServerInv' /\ ClientInv'
      BY <2>1, <3>3, OthersKeepServer, CompletionKeepsClients
    <3>4. ASSUME Network PROVE ServerInv' /\ ClientInv'
      BY <2>1, <3>4, OthersKeepServer, NetworkKeepsClients
    <3>5. ASSUME \/ CleanCloses \/ CleanForgets
                 \/ \E r \in Runs : HandlerCalls(r) \/ HandlerTakes(r) \/ HandlerFrees(r)
          PROVE  ServerInv' /\ ClientInv'
      <4>1. UNCHANGED <<hcp, packets, comp, cctx, clients>>
        BY <3>5 DEF CleanCloses, CleanForgets, HandlerCalls, HandlerTakes, HandlerFrees,
                    ports, completion
      <4>2. ClientInv
        BY <2>1 DEF IInv, ClientInv
      <4>. QED BY <2>1, <3>5, <4>1, <4>2, OthersKeepServer, ClientsUnchanged
    <3>. QED BY <2>1, <3>1, <3>2, <3>3, <3>4, <3>5 DEF IocpNext, Internal
  <2>2. ASSUME IInv, IocpNext PROVE IInv'
    BY <2>1, <2>2, TypeStep, HandlersKeep, WriteTargetKept DEF IInv, ServerInv, ClientInv
  <2>3. ASSUME IInv, UNCHANGED iocpVars PROVE IInv'
    BY <2>3 DEF IInv, iocpVars, IocpTypeOK, OneRun, WinsockAgrees, SocketsGone, PortsAgree,
                SetUpAgrees, ClientsAgree, PacketsAgree, CompletionAgrees, HandlerAgrees,
                WriteTarget, Up, HasPort, At, Working, NoPacket
  <2>. QED BY <2>2, <2>3
<1>. QED BY <1>1, <1>2, PTL DEF IocpSpec

\* A run that reports that it has stopped leaves neither Winsock nor a socket
\* behind, however the runs before it ended (lines 104-109).
THEOREM StopCorrect == IocpSpec => []StopLeavesNothing
<1>1. IInv => StopLeavesNothing
  BY DEF IInv, WinsockAgrees, SocketsGone, StopLeavesNothing, At
<1>. QED BY <1>1, Inductive, PTL

\* What socketWrite finds in g_cSocket is open, taken away by WSACleanup, or
\* about to be cleared (line 217).
THEOREM WriteCorrect == IocpSpec => []WriteTarget
<1>1. IInv => WriteTarget
  BY DEF IInv
<1>. QED BY <1>1, Inductive, PTL

\* No thread reaches a HANDLE_CONTEXT that has been freed (lines 159-160,
\* 191-195).
THEOREM ContextCorrect == IocpSpec => []ContextSafe
<1>1. IInv => ContextSafe
  <2>. SUFFICES ASSUME IInv PROVE ContextSafe
    OBVIOUS
  <2>0. IocpTypeOK /\ ClientsAgree /\ PacketsAgree /\ CompletionAgrees
    BY DEF IInv
  <2>1. \A r \in Runs : cctx[r] # NULL => ctx[cctx[r]] = "live"
    BY <2>0 DEF CompletionAgrees
  <2>2. \A r \in Runs : \A i \in DOMAIN packets[r] :
          hcp[r] = "open" /\ packets[r][i][1] # NULL => ctx[packets[r][i][1]] = "live"
    BY <2>0 DEF PacketsAgree
  <2>3. \A c \in Clients : pending[c] /\ sock[c] = "open" => ctx[c] = "live"
    BY <2>0 DEF IocpTypeOK, ClientsAgree
  <2>. QED BY <2>1, <2>2, <2>3 DEF ContextSafe
<1>. QED BY <1>1, Inductive, PTL

\* A client's one buffer is used by one receive, packet or thread at a time
\* (line 18).
THEOREM BufferCorrect == IocpSpec => []ReceiveBuffer
<1>1. ASSUME NEW S, \A x, y \in S : x = y
      PROVE  IsFiniteSet(S) /\ Cardinality(S) \in {0, 1} /\ (S = {} => Cardinality(S) = 0)
  <2>1. CASE S = {}
    BY <2>1, FS_EmptySet
  <2>2. CASE S # {}
    <3>1. PICK x \in S : S = {x}
      BY <1>1, <2>2
    <3>. QED BY <2>2, <3>1, FS_Singleton
  <2>. QED BY <2>1, <2>2
<1>2. IInv => ReceiveBuffer
  <2>. SUFFICES ASSUME IInv, NEW c \in Clients
       PROVE  LET waiting == {w \in UNION {{r} \X DOMAIN packets[r] : r \in Runs} :
                                packets[w[1]][w[2]][1] = c}
                  working == {r \in Runs : comp[r] \in {"rearm", "clear"} /\ cctx[r] = c}
              IN  (IF pending[c] THEN 1 ELSE 0) + Cardinality(waiting)
                    + Cardinality(working) <= 1
    BY DEF ReceiveBuffer
  <2>. DEFINE waiting == {w \in UNION {{r} \X DOMAIN packets[r] : r \in Runs} :
                            packets[w[1]][w[2]][1] = c}
              working == {r \in Runs : comp[r] \in {"rearm", "clear"} /\ cctx[r] = c}
  <2>0. PacketsAgree /\ CompletionAgrees /\ c # NULL
    BY IocpAssumption DEF IInv
  <2>1. \A w \in waiting : /\ w = <<w[1],
                                    w[2]>> /\ w[1] \in Runs /\ w[2] \in DOMAIN packets[w[1]]
                           /\ packets[w[1]][w[2]][1] = c
    OBVIOUS
  <2>2. \A w \in waiting : w[1] = at[c] /\ ~pending[c]
    BY <2>0, <2>1 DEF PacketsAgree
  <2>3. \A v, w \in waiting : v = w
    BY <2>0, <2>1, <2>2 DEF PacketsAgree
  <2>4. \A r \in working : /\ r = at[c] /\ ~pending[c]
                           /\ \A i \in DOMAIN packets[r] : packets[r][i][1] # c
    BY <2>0 DEF CompletionAgrees, Working, NoPacket
  <2>5. \A r, s \in working : r = s
    BY <2>4
  <2>6. waiting = {} \/ working = {}
    BY <2>1, <2>2, <2>4
  <2>7. pending[c] => waiting = {} /\ working = {}
    BY <2>2, <2>4
  <2>8. /\ Cardinality(waiting) \in {0, 1} /\ (waiting = {} => Cardinality(waiting) = 0)
        /\ Cardinality(working) \in {0, 1} /\ (working = {} => Cardinality(working) = 0)
    BY <1>1, <2>3, <2>5
  <2>. HIDE DEF waiting, working
  <2>9. (IF pending[c] THEN 1 ELSE 0) + Cardinality(waiting) + Cardinality(working) <= 1
    BY <2>6, <2>7, <2>8
  <2>. QED BY <2>9 DEF waiting, working
<1>. QED BY <1>2, Inductive, PTL
==============================================================================
