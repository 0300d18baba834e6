------------------------------ MODULE IocpServer ------------------------------
(***************************************************************************)
(* src/utils/socket/myIocpServer.c: the threads one call of startIocpServer*)
(* runs (the caller, one CompletionThread, one HandleReceivedThread), the  *)
(* static variables all calls share, and the caller's mysocket_clean.      *)
(*                                                                         *)
(* A run is one call of startIocpServer.  It makes one listening socket,   *)
(* one completion port and one queue, which are named after it.  A client  *)
(* is one connection: its socket and its HANDLE_CONTEXT are named after it.*)
(* Closed handles are not handed out again.                                *)
(*                                                                         *)
(* The queue is used through what BlockingQueue is shown to implement      *)
(* (BoundedFifo): an unlimited first-in first-out buffer, never closed,    *)
(* since nothing in this file calls destroyQueue.                          *)
(*                                                                         *)
(* Grain of atomicity: one access to a shared variable per action, with    *)
(* the local work and the system calls on private data around it.          *)
(***************************************************************************)
EXTENDS Integers, Sequences, FiniteSets, Functions

CONSTANTS
    Runs,        \* calls of startIocpServer
    Clients,     \* connections
    TcpPorts,    \* ports a run may be asked to listen on
    MaxChunks,   \* how many receives of one connection return data
    NULL,        \* a null pointer or handle, and the value of g_cSocket for none
    INVALID      \* INVALID_SOCKET

ASSUME IocpAssumption ==
    /\ NULL \notin Runs \cup Clients /\ INVALID \notin Runs \cup Clients
    /\ Runs \cap Clients = {} /\ NULL # INVALID
    /\ MaxChunks \in Nat

VARIABLES
    \* static variables; wsa is Winsock's own count of WSAStartup calls
    winsock_init, wsa, g_hcp, gQueue, g_sSocket, g_cSocket,
    \* the thread in startIocpServer: where it is, and the listening socket
    \* its accept was given, or the client it sets up, or what it is telling
    \* the stateChanged callback
    srv, arg,
    \* listening sockets, and the port each was bound to
    lsock, lport,
    \* completion ports, and the packets queued in each
    hcp, packets,
    \* completion threads: where, which port, and clientCtx
    comp, cport, cctx,
    \* handler threads: where, and the queue or the data they hold
    hnd, hold,
    \* connections: socket, the listening socket (while in its backlog) or the
    \* completion port it is tied to, whether a WSARecv is outstanding, the
    \* HANDLE_CONTEXT, and how many receives have returned data
    sock, at, pending, ctx, chunks,
    queue,       \* the queue of each run
    cleaning     \* a caller is between the two lines of mysocket_clean

winsock    == <<winsock_init, wsa>>
statics    == <<g_hcp, gQueue, g_sSocket, g_cSocket>>
server     == <<srv, arg>>
listeners  == <<lsock, lport>>
ports      == <<hcp, packets>>
completion == <<comp, cport, cctx>>
handler    == <<hnd, hold>>
clients    == <<sock, at, pending, ctx, chunks>>

\* What the thread in startIocpServer leaves alone, but for starting threads,
\* and what a completion thread leaves alone.
world   == <<completion, handler, queue, cleaning>>
outside == <<winsock, server, listeners, handler, cleaning>>

iocpVars == <<winsock_init, wsa, g_hcp, gQueue, g_sSocket, g_cSocket, srv, arg,
              lsock, lport, hcp, packets, comp, cport, cctx, hnd, hold,
              sock, at, pending, ctx, chunks, queue, cleaning>>

IocpInit ==
    /\ winsock_init = FALSE /\ wsa = 0
    /\ g_hcp = NULL /\ gQueue = NULL /\ g_sSocket = NULL /\ g_cSocket = NULL
    /\ srv = [r \in Runs |-> "unused"] /\ arg = [r \in Runs |-> NULL]
    /\ lsock = [r \in Runs |-> "none"] /\ lport = [r \in Runs |-> NULL]
    /\ hcp = [r \in Runs |-> "none"] /\ packets = [r \in Runs |-> << >>]
    /\ comp = [r \in Runs |-> "none"] /\ cport = [r \in Runs |-> NULL]
    /\ cctx = [r \in Runs |-> NULL]
    /\ hnd = [r \in Runs |-> "none"] /\ hold = [r \in Runs |-> NULL]
    /\ sock = [c \in Clients |-> "off"] /\ at = [c \in Clients |-> NULL]
    /\ pending = [c \in Clients |-> FALSE] /\ ctx = [c \in Clients |-> "none"]
    /\ chunks = [c \in Clients |-> 0]
    /\ queue = [r \in Runs |-> << >>]
    /\ cleaning = FALSE

At(r, place) == srv[r] = place
GoTo(r, place) == srv' = [srv EXCEPT ![r] = place]
Moves(r, from, to) == At(r, from) /\ GoTo(r, to)

\* Lines 86, 168 and 193: left out, and there.
ForgetSocket_Missing == UNCHANGED g_cSocket
ForgetSocket == g_cSocket' = NULL

\* closesocket(g_sSocket), left out and there.
CloseListening_Missing == UNCHANGED lsock
CloseListening == lsock' = [l \in Runs |-> IF l = g_sSocket THEN "closed" ELSE lsock[l]]

\* free(clientCtx), without and with clientCtx = NULL after it.
DropContext_KeepsPointer(r) ==
    ctx' = [ctx EXCEPT ![cctx[r]] = "freed"] /\ UNCHANGED cctx
DropContext(r) ==
    ctx' = [ctx EXCEPT ![cctx[r]] = "freed"] /\ cctx' = [cctx EXCEPT ![r] = NULL]
-----------------------------------------------------------------------------
(* startIocpServer up to its loop.                                         *)

Start(r, p) ==
    /\ Moves(r, "unused", "ready")
    /\ lport' = [lport EXCEPT ![r] = p]
    /\ UNCHANGED <<world, winsock, statics, ports, clients, arg, lsock>>

\* Bug: WSAStartup is called whatever winsock_init says.
Startup_IgnoresFlag(r) ==
    /\ At(r, "ready")
    /\ \/ GoTo(r, "flag") /\ wsa' = wsa + 1
       \/ GoTo(r, "failed") /\ UNCHANGED wsa
    /\ UNCHANGED <<world, statics, listeners, ports, clients, winsock_init, arg>>

\* ReadySocket.  winsock_init is tested, and set after WSAStartup returns.
Startup(r) ==
    /\ At(r, "ready")
    /\ \/ winsock_init /\ GoTo(r, "socket") /\ UNCHANGED wsa
       \/ ~winsock_init /\ GoTo(r, "flag") /\ wsa' = wsa + 1
       \/ ~winsock_init /\ GoTo(r, "failed") /\ UNCHANGED wsa
    /\ UNCHANGED <<world, statics, listeners, ports, clients, winsock_init, arg>>

Flag(r) ==
    /\ Moves(r, "flag", "socket")
    /\ winsock_init' = TRUE
    /\ UNCHANGED <<world, statics, listeners, ports, clients, wsa, arg>>

\* socket() may fail, unchecked, and does when Winsock is not up.
MakeSocket(r) ==
    /\ Moves(r, "socket", "bind")
    /\ \/ g_sSocket' = INVALID /\ UNCHANGED lsock
       \/ wsa > 0 /\ g_sSocket' = r /\ lsock' = [lsock EXCEPT ![r] = "made"]
    /\ UNCHANGED <<world, winsock, ports, clients, g_hcp, gQueue, g_cSocket, arg,
                   lport>>

\* The socket bound is whatever g_sSocket holds by now.
InUse(p) ==
    \E r \in Runs : lport[r] = p /\ lsock[r] \in {"bound", "listening"}

Bind(r) ==
    /\ At(r, "bind")
    /\ \/ /\ g_sSocket \in Runs /\ lsock[g_sSocket] = "made" /\ ~InUse(lport[r])
          /\ lsock' = [lsock EXCEPT ![g_sSocket] = "bound"]
          /\ lport' = [lport EXCEPT ![g_sSocket] = lport[r]]
          /\ GoTo(r, "listen")
       \/ GoTo(r, "failed") /\ UNCHANGED listeners
    /\ UNCHANGED <<world, winsock, statics, ports, clients, arg>>

\* listen's result is ignored.
Listen(r) ==
    /\ Moves(r, "listen", "port")
    /\ lsock' = [l \in Runs |-> IF l = g_sSocket /\ lsock[l] = "bound"
                                THEN "listening" ELSE lsock[l]]
    /\ UNCHANGED <<world, winsock, statics, ports, clients, arg, lport>>

MakePort(r) ==
    /\ Moves(r, "port", "threads")
    /\ g_hcp' = r
    /\ hcp' = [hcp EXCEPT ![r] = "open"]
    /\ UNCHANGED <<world, winsock, listeners, clients, gQueue, g_sSocket,
                   g_cSocket, arg, packets>>

StartThreads(r) ==
    /\ Moves(r, "threads", "queue")
    /\ comp' = [comp EXCEPT ![r] = "get"]
    /\ cport' = [cport EXCEPT ![r] = g_hcp]
    /\ hnd' = [hnd EXCEPT ![r] = "call"]
    /\ UNCHANGED <<winsock, statics, listeners, ports, clients, arg, cctx, hold,
                   queue, cleaning>>

\* Line 60: the handler thread is already running.
MakeQueue(r) ==
    /\ Moves(r, "queue", "running")
    /\ gQueue' = r
    /\ UNCHANGED <<world, winsock, listeners, ports, clients, g_hcp, g_sSocket,
                   g_cSocket, arg>>

\* cbs->stateChanged is called with Told(r), and the thread stays in the
\* callback until it returns.
Told(r) ==
    CASE At(r, "failed")  -> "error"       \* wsacode + 1
      [] At(r, "running") -> "running"     \* 1
      [] At(r, "stopped") -> "stopped"     \* 0

CallBack(r) ==
    /\ srv[r] \in {"failed", "running", "stopped"}
    /\ GoTo(r, "telling")
    /\ arg' = [arg EXCEPT ![r] = Told(r)]
    /\ UNCHANGED <<world, winsock, statics, listeners, ports, clients>>

CallBackReturns(r) ==
    /\ At(r, "telling")
    /\ GoTo(r, IF arg[r] = "running" THEN "accept" ELSE "done")
    /\ arg' = [arg EXCEPT ![r] = NULL]
    /\ UNCHANGED <<world, winsock, statics, listeners, ports, clients>>
-----------------------------------------------------------------------------
(* The accept loop.                                                        *)

AcceptCall(r) ==
    /\ Moves(r, "accept", "accepting")
    /\ arg' = [arg EXCEPT ![r] = g_sSocket]
    /\ UNCHANGED <<world, winsock, statics, listeners, ports, clients>>

\* Lines 70-78.
Accepted(r, c) ==
    /\ At(r, "accepting")
    /\ sock[c] = "queued" /\ at[c] = arg[r] /\ lsock[arg[r]] = "listening"
    /\ GoTo(r, "post")
    /\ arg' = [arg EXCEPT ![r] = c]
    /\ sock' = [sock EXCEPT ![c] = "open"]
    /\ at' = [at EXCEPT ![c] = NULL]
    /\ ctx' = [ctx EXCEPT ![c] = "live"]
    /\ g_cSocket' = c
    /\ UNCHANGED <<world, winsock, listeners, ports, g_hcp, gQueue, g_sSocket,
                   pending, chunks>>

\* Lines 71-73: the listening socket is gone, or something else is wrong.
AcceptFails(r) ==
    /\ At(r, "accepting")
    /\ GoTo(r, "quit")
    /\ arg' = [arg EXCEPT ![r] = NULL]
    /\ UNCHANGED <<world, winsock, statics, listeners, ports, clients>>

\* Lines 80-82.  A port that is closed takes no socket: what is received on
\* such a socket reaches nobody.
PostRecv(r) ==
    /\ At(r, "post")
    /\ LET c == arg[r] IN
       /\ sock[c] = "open"
       /\ at' = [at EXCEPT ![c] = IF hcp[g_hcp] = "open" THEN g_hcp ELSE NULL]
       /\ pending' = [pending EXCEPT ![c] = TRUE]
    /\ GoTo(r, "accept")
    /\ arg' = [arg EXCEPT ![r] = NULL]
    /\ UNCHANGED <<world, winsock, statics, listeners, ports, sock, ctx, chunks>>

\* Lines 83-88: the loop ends, and with it the server, on one client's error.
PostRecvFails(r) ==
    /\ Moves(r, "post", "unpost")
    /\ sock' = [sock EXCEPT ![arg[r]] = "closed"]
    /\ UNCHANGED <<world, winsock, statics, listeners, ports, arg, at, pending,
                   ctx, chunks>>

ForgetClient(r) ==
    /\ Moves(r, "unpost", "quit")
    /\ arg' = [arg EXCEPT ![r] = NULL]
    /\ ForgetSocket
    /\ UNCHANGED <<world, winsock, listeners, ports, clients, g_hcp, gQueue,
                   g_sSocket>>
-----------------------------------------------------------------------------
(* startIocpServer after its loop.                                         *)

Quit(r) ==
    /\ Moves(r, "quit", "close")
    /\ packets' = IF hcp[g_hcp] = "open"
                  THEN [packets EXCEPT ![g_hcp] = Append(@, <<NULL, "quit">>)]
                  ELSE packets
    /\ UNCHANGED <<world, winsock, statics, listeners, clients, arg, hcp>>

\* Before it, lines 95-96 wait for the two threads for five and two seconds.
\* Both waits may time out (the second always does), so they order nothing.
CloseListener(r) ==
    /\ Moves(r, "close", "closePort")
    /\ CloseListening
    /\ UNCHANGED <<world, winsock, statics, ports, clients, arg, lport>>

ClosePort(r) ==
    /\ Moves(r, "closePort", "cleanup")
    /\ hcp' = [hcp EXCEPT ![g_hcp] = "closed"]
    /\ UNCHANGED <<world, winsock, statics, listeners, clients, arg, packets>>

\* The last WSACleanup takes every socket of the process away.
Cleanup(r) ==
    /\ At(r, "cleanup")
    /\ \/ ~winsock_init /\ GoTo(r, "stopped") /\ UNCHANGED <<wsa, lsock, sock>>
       \/ /\ winsock_init
          /\ GoTo(r, "unflag")
          /\ wsa' = IF wsa = 0 THEN 0 ELSE wsa - 1
          /\ \/ wsa > 1 /\ UNCHANGED <<lsock, sock>>
             \/ /\ wsa <= 1
                /\ lsock' = [l \in Runs |-> IF lsock[l] = "none" THEN "none" ELSE "closed"]
                /\ sock' = [c \in Clients |-> IF sock[c] \in {"queued", "open"}
                                              THEN "lost" ELSE sock[c]]
    /\ UNCHANGED <<world, statics, ports, winsock_init, arg, lport, at, pending,
                   ctx, chunks>>

Unflag(r) ==
    /\ Moves(r, "unflag", "stopped")
    /\ winsock_init' = FALSE
    /\ UNCHANGED <<world, statics, listeners, ports, clients, wsa, arg>>
-----------------------------------------------------------------------------
(* The network and Winsock.                                                *)

Connect(c, l) ==
    /\ sock[c] = "off" /\ lsock[l] = "listening"
    /\ sock' = [sock EXCEPT ![c] = "queued"]
    /\ at' = [at EXCEPT ![c] = l]
    /\ UNCHANGED <<outside, statics, ports, completion, pending, ctx, chunks,
                   queue>>

\* An outstanding WSARecv ends: with data, with none because the peer has
\* shut down, or with an error.
RecvEnds(c, kind) ==
    /\ pending[c] /\ at[c] # NULL /\ hcp[at[c]] = "open"
    /\ \/ kind = "data" /\ sock[c] = "open" /\ chunks[c] < MaxChunks
       \/ kind = "end" /\ sock[c] = "open"
       \/ kind = "error"
    /\ pending' = [pending EXCEPT ![c] = FALSE]
    /\ packets' = [packets EXCEPT ![at[c]] = Append(@, <<c, kind>>)]
    /\ UNCHANGED <<outside, statics, completion, hcp, sock, at, ctx, chunks,
                   queue>>
-----------------------------------------------------------------------------
(* CompletionThread.  Taking a packet is merged with the work on it up to  *)
(* the next shared access.                                                 *)

Packet(r, kind) ==
    /\ comp[r] = "get"
    /\ hcp[cport[r]] = "open" /\ packets[cport[r]] # << >>
    /\ Head(packets[cport[r]])[2] = kind
    /\ packets' = [packets EXCEPT ![cport[r]] = Tail(@)]
    /\ cctx' = [cctx EXCEPT ![r] = Head(packets[cport[r]])[1]]

\* closesocket(clientCtx->cSocket), left out and there.
CloseClient_Missing(c) == UNCHANGED sock
CloseClient(c) == sock' = [sock EXCEPT ![c] = IF @ = "open" THEN "closed" ELSE @]

\* Bug: the next WSARecv is posted before the buffer has been copied.
GotData_RearmsFirst(r) ==
    /\ Packet(r, "data")
    /\ LET c == cctx'[r] IN
       /\ chunks' = [chunks EXCEPT ![c] = @ + 1]
       /\ queue' = [q \in Runs |-> IF q = gQueue
                                   THEN Append(queue[q], <<c, chunks[c] + 1>>)
                                   ELSE queue[q]]
    /\ comp' = [comp EXCEPT ![r] = "rearm"]
    /\ pending' = [pending EXCEPT ![cctx'[r]] = TRUE]
    /\ UNCHANGED <<outside, statics, hcp, cport, sock, at, ctx>>

\* Lines 178-181; enqueue on a null queue drops the data.
GotData(r) ==
    /\ Packet(r, "data")
    /\ LET c == cctx'[r] IN
       /\ chunks' = [chunks EXCEPT ![c] = @ + 1]
       /\ queue' = [q \in Runs |-> IF q = gQueue
                                   THEN Append(queue[q], <<c, chunks[c] + 1>>)
                                   ELSE queue[q]]
    /\ comp' = [comp EXCEPT ![r] = "rearm"]
    /\ UNCHANGED <<outside, statics, hcp, cport, sock, at, pending, ctx>>

\* Lines 184-189.
Rearm(r) ==
    /\ comp[r] = "rearm"
    /\ sock[cctx[r]] = "open"
    /\ comp' = [comp EXCEPT ![r] = "get"]
    /\ pending' = [pending EXCEPT ![cctx[r]] = TRUE]
    /\ UNCHANGED <<outside, statics, ports, cport, cctx, sock, at, ctx, chunks,
                   queue>>

RearmFails(r) ==
    /\ comp[r] = "rearm"
    /\ comp' = [comp EXCEPT ![r] = "clearLast"]
    /\ CloseClient(cctx[r])
    /\ UNCHANGED <<outside, statics, ports, cport, cctx, at, pending, ctx, chunks,
                   queue>>

\* Lines 163-167.
GotEnd(r) ==
    /\ Packet(r, "end")
    /\ comp' = [comp EXCEPT ![r] = "clear"]
    /\ CloseClient(cctx'[r])
    /\ UNCHANGED <<outside, statics, hcp, cport, at, pending, ctx, chunks, queue>>

\* Lines 159-160 and 191-192: the only completion thread ends on an error of
\* one client.
GotError(r) ==
    /\ Packet(r, "error")
    /\ comp' = [comp EXCEPT ![r] = "clearLast"]
    /\ CloseClient(cctx'[r])
    /\ UNCHANGED <<outside, statics, hcp, cport, at, pending, ctx, chunks, queue>>

\* Lines 168-171, and 193-197 on the way out of the thread.
ClearClient(r) ==
    /\ comp[r] \in {"clear", "clearLast"}
    /\ ForgetSocket
    /\ DropContext(r)
    /\ comp' = [comp EXCEPT ![r] = IF @ = "clear" THEN "get" ELSE "done"]
    /\ UNCHANGED <<outside, ports, g_hcp, gQueue, g_sSocket, cport, sock, at,
                   pending, chunks, queue>>

GotQuit(r) ==
    /\ Packet(r, "quit")
    /\ comp' = [comp EXCEPT ![r] = "done"]
    /\ UNCHANGED <<outside, statics, clients, hcp, cport, queue>>

\* The port was closed under the thread: no packet is taken, and clientCtx
\* still points to the client of the packet before, if that was data.
Abandoned(r) ==
    /\ comp[r] = "get" /\ hcp[cport[r]] = "closed"
    /\ \/ cctx[r] = NULL /\ comp' = [comp EXCEPT ![r] = "done"] /\ UNCHANGED sock
       \/ /\ cctx[r] # NULL
          /\ comp' = [comp EXCEPT ![r] = "clearLast"]
          /\ CloseClient(cctx[r])
    /\ UNCHANGED <<outside, statics, ports, cport, cctx, at, pending, ctx, chunks,
                   queue>>
-----------------------------------------------------------------------------
(* HandleReceivedThread.                                                   *)

\* The argument of dequeue is read; a null queue ends the thread at once.
HandlerCalls(r) ==
    /\ hnd[r] = "call"
    /\ hold' = [hold EXCEPT ![r] = gQueue]
    /\ hnd' = [hnd EXCEPT ![r] = IF gQueue = NULL THEN "done" ELSE "wait"]
    /\ UNCHANGED <<winsock, statics, server, listeners, ports, completion,
                   clients, queue, cleaning>>

\* dequeue returns, and dataReceived is called.
HandlerTakes(r) ==
    /\ hnd[r] = "wait"
    /\ LET q == hold[r] IN
       /\ queue[q] # << >>
       /\ hold' = [hold EXCEPT ![r] = Head(queue[q])]
       /\ queue' = [queue EXCEPT ![q] = Tail(@)]
    /\ hnd' = [hnd EXCEPT ![r] = "show"]
    /\ UNCHANGED <<winsock, statics, server, listeners, ports, completion,
                   clients, cleaning>>

\* dataReceived returns; the data is freed.
HandlerFrees(r) ==
    /\ hnd[r] = "show"
    /\ hnd' = [hnd EXCEPT ![r] = "call"]
    /\ hold' = [hold EXCEPT ![r] = NULL]
    /\ UNCHANGED <<winsock, statics, server, listeners, ports, completion,
                   clients, queue, cleaning>>
-----------------------------------------------------------------------------
(* mysocket_clean, by the thread that also starts the runs.                *)

CleanCloses ==
    /\ ~cleaning /\ g_sSocket # INVALID     \* with INVALID it changes nothing
    /\ cleaning' = TRUE
    /\ CloseListening
    /\ UNCHANGED <<winsock, statics, server, ports, completion, handler, clients,
                   lport, queue>>

CleanForgets ==
    /\ cleaning
    /\ cleaning' = FALSE
    /\ g_sSocket' = INVALID
    /\ UNCHANGED <<winsock, server, listeners, ports, completion, handler,
                   clients, g_hcp, gQueue, g_cSocket, queue>>
-----------------------------------------------------------------------------
SetUp(r) ==
    \/ Startup(r) \/ Flag(r) \/ MakeSocket(r) \/ Bind(r) \/ Listen(r)
    \/ MakePort(r) \/ StartThreads(r) \/ MakeQueue(r)

AcceptLoop(r) ==
    \/ AcceptCall(r) \/ AcceptFails(r) \/ PostRecv(r) \/ PostRecvFails(r)
    \/ ForgetClient(r) \/ \E c \in Clients : Accepted(r, c)

\* What the accept thread is bound to do: on a socket that still listens, accept
\* need not fail.
AcceptGoesOn(r) ==
    /\ AcceptLoop(r)
    /\ At(r, "accepting") /\ arg[r] \in Runs /\ lsock[arg[r]] = "listening"
          => srv'[r] # "quit"

WindDown(r) ==
    \/ Quit(r) \/ CloseListener(r) \/ ClosePort(r) \/ Cleanup(r) \/ Unflag(r)

CompletionThread(r) ==
    \/ GotData(r) \/ Rearm(r) \/ RearmFails(r) \/ GotEnd(r) \/ GotError(r)
    \/ ClearClient(r) \/ GotQuit(r) \/ Abandoned(r)

Network ==
    \E c \in Clients :
       \/ \E l \in Runs : Connect(c, l)
       \/ \E kind \in {"data", "end", "error"} : RecvEnds(c, kind)

\* What the threads of the server do on their own, between the callbacks.
Internal ==
    \/ Network
    \/ \E r \in Runs :
          \/ SetUp(r) \/ AcceptLoop(r) \/ WindDown(r) \/ CompletionThread(r)
          \/ HandlerCalls(r) \/ HandlerTakes(r)

\* Any program that starts servers one after the other, and cleans up whenever
\* it likes, as long as one thread does both.
IocpNext ==
    \/ Internal
    \/ \E r \in Runs :
          \/ /\ ~cleaning
             /\ \A s \in Runs : srv[s] \in {"unused", "done"}
             /\ \E p \in TcpPorts : Start(r, p)
          \/ CallBack(r) \/ CallBackReturns(r) \/ HandlerFrees(r)
    \/ CleanCloses \/ CleanForgets

IocpSpec == IocpInit /\ [][IocpNext]_iocpVars
-----------------------------------------------------------------------------
Handles == Runs \cup {NULL}
Chunks == Clients \X (1 .. MaxChunks)

IocpTypeOK ==
    /\ winsock_init \in BOOLEAN /\ wsa \in Nat
    /\ g_hcp \in Handles /\ gQueue \in Handles
    /\ g_sSocket \in Handles \cup {INVALID} /\ g_cSocket \in Clients \cup {NULL}
    /\ srv \in [Runs -> {"unused", "ready", "flag", "socket", "bind", "listen",
                         "failed", "port", "threads", "queue", "running",
                         "telling", "accept", "accepting", "post", "unpost",
                         "quit", "close", "closePort", "cleanup",
                         "unflag", "stopped", "done"}]
    /\ arg \in [Runs -> Handles \cup Clients \cup {INVALID, "error", "running", "stopped"}]
    /\ lsock \in [Runs -> {"none", "made", "bound", "listening", "closed"}]
    /\ lport \in [Runs -> TcpPorts \cup {NULL}]
    /\ hcp \in [Runs -> {"none", "open", "closed"}]
    /\ packets \in [Runs -> Seq((Clients \cup {NULL})
                                  \X {"data", "end", "error", "quit"})]
    /\ comp \in [Runs -> {"none", "get", "rearm", "clear", "clearLast", "done"}]
    /\ cport \in [Runs -> Handles] /\ cctx \in [Runs -> Clients \cup {NULL}]
    /\ hnd \in [Runs -> {"none", "call", "wait", "show", "done"}]
    /\ hold \in [Runs -> Handles \cup Chunks]
    /\ sock \in [Clients -> {"off", "queued", "open", "closed", "lost"}]
    /\ at \in [Clients -> Handles]
    /\ pending \in [Clients -> BOOLEAN]
    /\ ctx \in [Clients -> {"none", "live", "freed"}]
    /\ chunks \in [Clients -> 0 .. MaxChunks]
    /\ queue \in [Runs -> Seq(Chunks)]
    /\ cleaning \in BOOLEAN

\* socketWrite (line 217) never finds in g_cSocket a connection the server has
\* closed, although the accept loop sets it and completion threads clear it
\* without a lock: what it finds is open, or about to be cleared by the thread
\* that closed it (lines 85-86, 167-168, 192-193), or was taken away by the
\* WSACleanup of a run that ended (line 105), which leaves g_cSocket as it is.
WriteTarget ==
    \/ g_cSocket = NULL
    \/ sock[g_cSocket] \in {"open", "lost"}
    \/ \E r \in Runs : \/ At(r, "unpost")
                       \/ comp[r] \in {"clear", "clearLast"}

\* A client has one buffer (line 18) and one OVERLAPPED: while a WSARecv on it
\* is outstanding, no packet of that client waits in a port and no thread is
\* still working on the previous one, whichever threads serve the port.
ReceiveBuffer ==
    \A c \in Clients :
       LET waiting == {w \in UNION {{r} \X DOMAIN packets[r] : r \in Runs} :
                         packets[w[1]][w[2]][1] = c}
           working == {r \in Runs : comp[r] \in {"rearm", "clear"} /\ cctx[r] = c}
       IN  (IF pending[c] THEN 1 ELSE 0) + Cardinality(waiting)
             + Cardinality(working) <= 1

\* No thread touches a HANDLE_CONTEXT that has been freed: neither through a
\* packet nor through the clientCtx a CompletionThread keeps from the packet
\* before (lines 159-160, 191-195), as long as runs follow one another.
ContextSafe ==
    /\ \A r \in Runs : cctx[r] # NULL => ctx[cctx[r]] = "live"
    /\ \A r \in Runs : \A i \in DOMAIN packets[r] :
          hcp[r] = "open" /\ packets[r][i][1] # NULL =>
             ctx[packets[r][i][1]] = "live"
    /\ \A c \in Clients : pending[c] /\ sock[c] = "open" => ctx[c] = "live"

\* A run that reports that it has stopped (line 109) leaves nothing behind,
\* whatever came before it: earlier runs that failed half way through
\* ReadySocket, errors of clients, a mysocket_clean at any moment. Winsock is
\* down and known to be down, and no socket of the process is left.
StopLeavesNothing ==
    \A r \in Runs : At(r, "stopped") =>
       /\ wsa = 0 /\ ~winsock_init
       /\ \A l \in Runs : lsock[l] \in {"none", "closed"}
       /\ \A c \in Clients : sock[c] \notin {"queued", "open"}
==============================================================================
