---------------------------- MODULE IocpSslServer ----------------------------
(***************************************************************************)
(* src/utils/socket/myIocpSSLServer.cpp: the IOCP server with an SSL       *)
(* session for each connection, and main, which starts it once.  What the  *)
(* file shares with myIocpServer.c is taken from IocpServer; the callbacks *)
(* are never set, so that nothing is told to anybody.                      *)
(*                                                                         *)
(* The accept thread makes the session and runs the handshake on the       *)
(* blocking socket; the completion thread decrypts what WSARecv returns by *)
(* putting it into a memory BIO.  Both find the session in one global      *)
(* variable, ssl.  A session is named after its connection.                *)
(***************************************************************************)
EXTENDS IocpServer

ASSUME SslAssumption == "socket" \notin Clients

VARIABLES
    ssl,          \* the global: the session made last
    stage,        \* what the accept thread does with the connection in arg
    ses,          \* each session: none, new, up, failed
    bio,          \* what it reads: nothing, its socket, or a memory BIO with
                  \* what was received on the connection named here
    peer,         \* each peer: silent until its part of the handshake is done
    plain,        \* how many packets of a connection have been decrypted
    neat,         \* so far each packet held one record of at most 127 bytes
    overlapped    \* a connection was accepted while another was open

session  == <<ssl, stage, ses, bio>>
sslVars  == <<ssl, stage, ses, bio, peer, plain, neat, overlapped>>
vars     == <<iocpVars, sslVars>>

Init ==
    /\ IocpInit
    /\ ssl = NULL /\ stage = "ready" /\ overlapped = FALSE
    /\ ses = [c \in Clients |-> "none"] /\ bio = [c \in Clients |-> "none"]
    /\ peer = [c \in Clients |-> "silent"]
    /\ plain = [c \in Clients |-> 0] /\ neat = [c \in Clients |-> TRUE]

\* main has returned, or exit was called, or the process was taken down.
Over == \E r \in Runs : At(r, "done")
-----------------------------------------------------------------------------
(* main and startIocpServer up to the loop.                                *)

Main == \E r \in Runs, p \in TcpPorts : Start(r, p) /\ UNCHANGED sslVars

ReadySocket(r) ==
    /\ Startup(r) \/ Flag(r) \/ MakeSocket(r) \/ Bind(r) \/ Listen(r)
    /\ UNCHANGED sslVars

\* The queue is made, and waited on, but never given anything (line 213).
StartWorkers(r) ==
    /\ MakePort(r) \/ StartThreads(r) \/ MakeQueue(r)
    /\ UNCHANGED sslVars

\* create_context and configure_context call exit when they fail.
MakeContext(r) ==
    /\ Moves(r, "running", "accept") \/ Moves(r, "running", "done")
    /\ UNCHANGED <<world, winsock, statics, listeners, ports, clients, arg, sslVars>>

MainReturns(r) ==
    /\ Moves(r, "failed", "done") \/ Moves(r, "stopped", "done")
    /\ UNCHANGED <<world, winsock, statics, listeners, ports, clients, arg, sslVars>>

Waits(r) == HandlerCalls(r) /\ UNCHANGED sslVars
-----------------------------------------------------------------------------
(* The accept loop.                                                        *)

Calls(r) == AcceptCall(r) /\ UNCHANGED sslVars

Takes(r, c) ==
    /\ Accepted(r, c)
    /\ stage' = "new"
    /\ overlapped' = (overlapped \/ \E d \in Clients : sock[d] = "open")
    /\ UNCHANGED <<ssl, ses, bio, peer, plain, neat>>

\* accept may report a peer that left the backlog; the loop ends with it.  That
\* it may fail for want of memory or handles too is left out here.
TakesNone(r, c) ==
    /\ Moves(r, "accepting", "quit")
    /\ sock[c] = "queued" /\ peer[c] = "gone"
    /\ sock' = [sock EXCEPT ![c] = "lost"]
    /\ arg' = [arg EXCEPT ![r] = NULL]
    /\ UNCHANGED <<world, winsock, statics, listeners, ports, at, pending, ctx,
                   chunks, sslVars>>

Staged(r, from, to) == At(r, "post") /\ stage = from /\ stage' = to

\* Bug: a session is made for the first connection only.
SslNew_Once(r) ==
    /\ Staged(r, "new", "fd")
    /\ ssl' = IF ssl = NULL THEN arg[r] ELSE ssl
    /\ ses' = [ses EXCEPT ![ssl'] = "new"]
    /\ UNCHANGED <<iocpVars, bio, peer, plain, neat, overlapped>>

SslNew(r) ==
    /\ Staged(r, "new", "fd")
    /\ ssl' = arg[r]
    /\ ses' = [ses EXCEPT ![arg[r]] = "new"]
    /\ UNCHANGED <<iocpVars, bio, peer, plain, neat, overlapped>>

SetFd(r) ==
    /\ Staged(r, "fd", "handshake")
    /\ bio' = [bio EXCEPT ![ssl] = "socket"]
    /\ UNCHANGED <<iocpVars, ssl, ses, peer, plain, neat, overlapped>>

\* Bug: SSL_accept is called again until it succeeds.
SslAccept_Retries(r) ==
    /\ Staged(r, "handshake", "ready")
    /\ bio[ssl] = "socket" /\ peer[ssl] = "ready"
    /\ ses' = [ses EXCEPT ![ssl] = "up"]
    /\ UNCHANGED <<iocpVars, ssl, bio, peer, plain, neat, overlapped>>

\* Line 105 waits for the peer; its result is not looked at.  On a memory BIO,
\* which the completion thread may have put under it, it fails at once.
SslAccept(r) ==
    /\ Staged(r, "handshake", "ready")
    /\ \/ /\ bio[ssl] = "socket" /\ peer[ssl] = "ready"
          /\ ses' = [ses EXCEPT ![ssl] = "up"]
       \/ /\ bio[ssl] # "socket" \/ peer[ssl] = "gone"
          /\ ses' = [ses EXCEPT ![ssl] = "failed"]
    /\ UNCHANGED <<iocpVars, ssl, bio, peer, plain, neat, overlapped>>

Arms(r) ==
    /\ stage = "ready"
    /\ PostRecv(r) \/ PostRecvFails(r)
    /\ UNCHANGED sslVars

StopServer(r) ==
    /\ \/ ForgetClient(r) \/ Quit(r) \/ CloseListener(r) \/ ClosePort(r)
       \/ Cleanup(r) \/ Unflag(r)
    /\ UNCHANGED sslVars
-----------------------------------------------------------------------------
(* CompletionThread.                                                       *)

\* A packet of data: exactly one short record, or anything else.
GetsData(r) ==
    /\ Packet(r, "data")
    /\ LET c == cctx'[r] IN
       /\ chunks' = [chunks EXCEPT ![c] = @ + 1]
       /\ \E one \in BOOLEAN : neat' = [neat EXCEPT ![c] = @ /\ one]
    /\ comp' = [comp EXCEPT ![r] = "bio"]
    /\ UNCHANGED <<outside, statics, hcp, cport, sock, at, pending, ctx, queue,
                   session, peer, plain, overlapped>>

\* Bug: the received bytes are not put under the session.
SetBio_Missing(r) ==
    /\ comp[r] = "bio"
    /\ comp' = [comp EXCEPT ![r] = "read"]
    /\ UNCHANGED <<outside, statics, ports, cport, cctx, clients, queue, session,
                   peer, plain, neat, overlapped>>

\* Lines 204-206, on whatever session is the last one made.
SetBio(r) ==
    /\ comp[r] = "bio"
    /\ comp' = [comp EXCEPT ![r] = "read"]
    /\ bio' = [bio EXCEPT ![ssl] = cctx[r]]
    /\ UNCHANGED <<outside, statics, ports, cport, cctx, clients, queue, ssl,
                   stage, ses, peer, plain, neat, overlapped>>

\* Line 208 reads ssl again.  The result is used as an index without a test.
SslRead(r) ==
    /\ comp[r] = "read" /\ bio[ssl] # "socket"
    /\ comp' = [comp EXCEPT ![r] = "rearm"]
    /\ LET c == cctx[r]
           own == ssl = c /\ bio[ssl] = c /\ ses[ssl] = "up"
       IN  \/ own /\ plain' = [plain EXCEPT ![c] = @ + 1]
           \/ ~(own /\ neat[c]) /\ UNCHANGED plain
    /\ UNCHANGED <<outside, statics, ports, cport, cctx, clients, queue, session,
                   peer, neat, overlapped>>

\* The session may have become that of a new connection, which reads from its
\* socket: SSL_read waits for that connection's peer.
SslReadWaits(r) ==
    /\ comp[r] = "read" /\ bio[ssl] = "socket" /\ peer[ssl] # "silent"
    /\ comp' = [comp EXCEPT ![r] = "rearm"]
    /\ UNCHANGED <<outside, statics, ports, cport, cctx, clients, queue, sslVars>>

\* Two threads in one session, or a write beside ddata[0 .. 127]: undefined.
Fault(r) ==
    /\ \/ comp[r] \in {"bio", "read"} /\ stage \in {"fd", "handshake"}
       \/ comp[r] = "read" /\ ~neat[cctx[r]]
    /\ srv' = [srv EXCEPT ![r] = "done"]
    /\ UNCHANGED <<winsock, statics, arg, listeners, ports, completion, handler,
                   clients, queue, cleaning, sslVars>>

RearmsOrStops(r) ==
    /\ Rearm(r) \/ RearmFails(r) \/ Abandoned(r)
    /\ UNCHANGED sslVars

ClientEnds(r) ==
    /\ GotEnd(r) \/ GotError(r) \/ GotQuit(r) \/ ClearClient(r)
    /\ UNCHANGED sslVars
-----------------------------------------------------------------------------
(* The peers.                                                              *)

PeerConnects(c) == \E r \in Runs : Connect(c, r) /\ UNCHANGED sslVars

PeerActs(c) ==
    /\ sock[c] # "off" /\ peer[c] # "gone"
    /\ peer' = [peer EXCEPT ![c] = IF @ = "silent" THEN "ready" ELSE "gone"]
    /\ UNCHANGED <<iocpVars, session, plain, neat, overlapped>>

PeerLeaves(c) ==
    /\ sock[c] # "off" /\ peer[c] = "silent"
    /\ peer' = [peer EXCEPT ![c] = "gone"]
    /\ UNCHANGED <<iocpVars, session, plain, neat, overlapped>>

Receives(c, kind) == RecvEnds(c, kind) /\ UNCHANGED sslVars
-----------------------------------------------------------------------------
AcceptThread(r) ==
    \/ ReadySocket(r) \/ StartWorkers(r) \/ MakeContext(r) \/ MainReturns(r)
    \/ Calls(r) \/ SslNew(r) \/ SetFd(r) \/ SslAccept(r) \/ Arms(r)
    \/ StopServer(r) \/ \E c \in Clients : Takes(r, c) \/ TakesNone(r, c)

CompletionRuns(r) ==
    \/ GetsData(r) \/ SetBio(r) \/ SslRead(r) \/ RearmsOrStops(r)
    \/ ClientEnds(r)

Next ==
    /\ ~Over
    /\ \/ Main
       \/ \E r \in Runs : \/ AcceptThread(r) \/ CompletionRuns(r) \/ Waits(r)
                           \/ SslReadWaits(r) \/ Fault(r)
       \/ \E c \in Clients :
             \/ PeerConnects(c) \/ PeerActs(c) \/ PeerLeaves(c)
             \/ \E kind \in {"data", "end", "error"} : Receives(c, kind)

Spec == Init /\ [][Next]_vars

\* The two threads run whenever they can; peers and the network need not.
FairSpec ==
    /\ Spec
    /\ \A r \in Runs : /\ WF_vars(~Over /\ AcceptThread(r))
                       /\ WF_vars(~Over /\ CompletionRuns(r))
-----------------------------------------------------------------------------
\* With one connection at a time, every packet that is one short record reaches
\* its own session and is decrypted (lines 103-105, 204-208), although two
\* threads find the session in one unprotected global.
Decrypted ==
    \A c \in Clients, r \in Runs :
       /\ ~overlapped /\ neat[c] /\ ses[c] # "failed"
       /\ cctx[r] = c => comp[r] \notin {"bio", "read"}
       => plain[c] = chunks[c]

\* The completion thread gets back to the port: SSL_read finds what was put into
\* the memory BIO and waits for nobody, unless a later connection has taken ssl.
CompletionReturns ==
    \A r \in Runs : comp[r] \in {"bio", "read"} ~>
                      comp[r] \notin {"bio", "read"} \/ overlapped \/ Over

\* A peer in the backlog is accepted, or the server ends, if no handshake is
\* waited for without end: SSL_accept holds up the accept thread (line 105).
Waiting == stage = "handshake" /\ peer[ssl] = "silent"

BacklogServed ==
    []<>~Waiting =>
       \A c \in Clients : sock[c] = "queued" ~> sock[c] # "queued" \/ Over
==============================================================================
