------------------------- MODULE IocpSslServerProofs -------------------------
(***************************************************************************)
(* The server of myIocpSSLServer.cpp, whose main starts one run: who holds *)
(* a client, and, as long as connections do not overlap, whose session the *)
(* global variable ssl is.                                                 *)
(***************************************************************************)
EXTENDS IocpSslServer, FiniteSetTheorems, SequenceTheorems, TLAPS

\* Before the run has a completion port, while it has one, and from the end of
\* the accept loop on.
Early == {"unused", "ready", "flag", "socket", "bind", "listen", "port", "failed"}
Open  == {"threads", "queue", "running", "accept", "accepting", "post", "unpost",
          "quit", "close", "closePort"}
Past  == {"quit", "close", "closePort", "cleanup", "unflag", "stopped", "done"}

SslTypeOK ==
    /\ g_hcp \in Handles
    /\ srv \in [Runs -> Early \cup Open \cup Past]
    /\ arg \in [Runs -> Handles \cup Clients \cup {INVALID}]
    /\ g_sSocket \in Handles \cup {INVALID}
    /\ hcp \in [Runs -> {"none", "open", "closed"}]
    /\ packets \in [Runs -> Seq((Clients \cup {NULL}) \X {"data", "end", "error", "quit"})]
    /\ comp \in [Runs -> {"none", "get", "bio", "read", "rearm", "clear", "clearLast", "done"}]
    /\ cport \in [Runs -> Handles] /\ cctx \in [Runs -> Clients \cup {NULL}]
    /\ sock \in [Clients -> {"off", "queued", "open", "closed", "lost"}]
    /\ at \in [Clients -> Handles] /\ pending \in [Clients -> BOOLEAN]
    /\ ctx \in [Clients -> {"none", "live", "freed"}]
    /\ chunks \in [Clients -> Nat] /\ plain \in [Clients -> Nat]
    /\ neat \in [Clients -> BOOLEAN] /\ overlapped \in BOOLEAN
    /\ ssl \in Clients \cup {NULL} /\ stage \in {"ready", "new", "fd", "handshake"}
    /\ ses \in [Clients -> {"none", "new", "up", "failed"}]
    /\ bio \in [Clients -> Clients \cup {"none", "socket"}]

\* The port and the completion thread on it.
PortAgrees ==
    \A r \in Runs :
       /\ srv[r] \in Open => hcp[r] = "open" /\ g_hcp = r
       /\ srv[r] \in Early => hcp[r] = "none"
       /\ srv[r] \in Early \cup {"threads"} => comp[r] = "none"
       /\ comp[r] # "none" => cport[r] = r /\ hcp[r] # "none"

\* The client the accept thread sets up, and its session.
SetUpAgrees ==
    /\ stage # "ready" => \A r \in Runs : srv[r] \in {"post", "done"}
    /\ \A r \in Runs : At(r, "post") =>
          /\ arg[r] \in Clients
          /\ at[arg[r]] = NULL /\ ctx[arg[r]] = "live" /\ sock[arg[r]] = "open"
          /\ ses[arg[r]] \in CASE stage = "new"   -> {"none"}
                               [] stage = "ready" -> {"up", "failed"}
                               [] OTHER           -> {"new"}
          /\ stage # "new" => ssl = arg[r]

ClientsAgree ==
    \A c \in Clients :
       /\ sock[c] \in {"off", "queued"} => ctx[c] = "none" /\ ses[c] = "none"
       /\ ctx[c] = "freed" => sock[c] \in {"closed", "lost"}
       /\ at[c] # NULL /\ ctx[c] # "none" => hcp[at[c]] # "none"
       /\ pending[c] => /\ at[c] # NULL /\ ctx[c] # "none"
                        /\ hcp[at[c]] = "open" => ctx[c] = "live"

\* No packet of c waits in port r.
NoPacket(r, c) == \A i \in DOMAIN packets[r] : packets[r][i][1] # c

PacketsAgree ==
    \A r \in Runs :
       /\ \A i \in DOMAIN packets[r] :
             LET c == packets[r][i][1]
                 kind == packets[r][i][2]
             IN  /\ c = NULL <=> kind = "quit"
                 /\ c # NULL => /\ at[c] = r /\ ctx[c] # "none" /\ ~pending[c]
                                /\ hcp[r] = "open" => ctx[c] = "live"
       /\ \A i, j \in DOMAIN packets[r] :
             packets[r][i][1] = packets[r][j][1] /\ packets[r][i][1] # NULL => i = j

\* The completion thread works on the client of the last packet.
Working(r) ==
    \/ comp[r] \in {"bio", "read", "rearm", "clear"}
    \/ comp[r] = "clearLast" /\ hcp[r] # "closed"

CompletionAgrees ==
    \A r \in Runs :
       /\ cctx[r] # NULL => at[cctx[r]] = r /\ ctx[cctx[r]] = "live"
       /\ comp[r] \in {"bio", "read", "rearm", "clear", "clearLast"} => cctx[r] # NULL
       /\ Working(r) => ~pending[cctx[r]] /\ NoPacket(r, cctx[r])
       /\ comp[r] \in {"clear", "clearLast"} => sock[cctx[r]] \in {"closed", "lost"}

\* Something received, or to be received, of c.
Under(r, c) == cctx[r] = c /\ comp[r] \in {"bio", "read"}
Active(r, c) ==
    \/ pending[c] \/ ~NoPacket(r, c)
    \/ cctx[r] = c /\ comp[r] \in {"bio", "read", "rearm"}

\* Without overlap, only the last client can be active, and its session is the
\* one in ssl from the end of its handshake on.
OneSession ==
    ~overlapped => \A r \in Runs, c \in Clients :
       /\ Active(r, c) => /\ ssl = c /\ stage = "ready" /\ ses[c] \in {"up", "failed"}
                          /\ sock[c] = "open" \/ srv[r] \in Past
       /\ Under(r, c) /\ comp[r] = "read" => bio[c] = c
       /\ neat[c] /\ ses[c] # "failed" =>
             chunks[c] = IF Under(r, c) THEN plain[c] + 1 ELSE plain[c]

SslInv ==
    /\ SslTypeOK /\ PortAgrees /\ SetUpAgrees /\ ClientsAgree /\ PacketsAgree
    /\ CompletionAgrees /\ OneSession
-----------------------------------------------------------------------------
(* Steps that leave the clients, the port and the sessions alone.          *)

held == <<g_hcp, hcp, packets, comp, cport, cctx, clients, sslVars>>

\* The accept thread goes from one place to another.
LEMMA Elsewhere ==
    ASSUME NEW one \in Runs, Runs = {one}, SslInv, UNCHANGED held,
           NEW place \in (Early \cup Open \cup Past) \ {"threads", "post"},
           srv' = [srv EXCEPT ![one] = place],
           arg' \in [Runs -> Handles \cup Clients \cup {INVALID}],
           g_sSocket' \in Handles \cup {INVALID},
           place \in Early => srv[one] \in Early,
           place \in Open => srv[one] \in Open,
           srv[one] \in Past => place \in Past,
           stage # "ready" => place = "done"
    PROVE  SslInv'
<1>. USE DEF held, clients, sslVars
<1>0. /\ SslTypeOK /\ PortAgrees /\ SetUpAgrees /\ ClientsAgree /\ PacketsAgree
      /\ CompletionAgrees /\ OneSession
  BY DEF SslInv
<1>1. srv'[one] = place /\ place \notin {"threads", "post"}
  BY <1>0 DEF SslTypeOK
<1>2. SslTypeOK'
  BY <1>0 DEF SslTypeOK
<1>3. PortAgrees'
  BY <1>0, <1>1 DEF PortAgrees
<1>4. SetUpAgrees'
  BY <1>0, <1>1 DEF SetUpAgrees, At
<1>5. ClientsAgree' /\ PacketsAgree'
  BY <1>0 DEF ClientsAgree, PacketsAgree
<1>6. CompletionAgrees'
  BY <1>0 DEF CompletionAgrees, Working, NoPacket
<1>7. OneSession'
  BY <1>0, <1>1 DEF OneSession, Active, Under, NoPacket
<1>. QED BY <1>2, <1>3, <1>4, <1>5, <1>6, <1>7 DEF SslInv

LEMMA ElsewhereSteps ==
    ASSUME NEW one \in Runs, Runs = {one}, SslInv,
           \/ Main \/ ReadySocket(one) \/ (MakeQueue(one) /\ UNCHANGED sslVars)
           \/ MakeContext(one) \/ MainReturns(one) \/ Calls(one) \/ Waits(one) \/ Fault(one)
           \/ /\ CloseListener(one) \/ ForgetClient(one) \/ Unflag(one)
              /\ UNCHANGED sslVars
    PROVE  SslInv'
<1>. USE DEF held, world, clients, completion, handler, server, outside, listeners, statics,
         ports, winsock, Moves, GoTo, At
<1>0. SslTypeOK /\ SetUpAgrees
  BY DEF SslInv
<1>1. /\ srv[one] \in Early \cup Open \cup Past
      /\ stage # "ready" => srv[one] \in {"post", "done"}
  BY <1>0 DEF SslTypeOK, SetUpAgrees
<1>2. CASE Main
  <2>1. PICK p \in TcpPorts : Start(one, p) /\ UNCHANGED sslVars
    BY <1>2 DEF Main
  <2>2. UNCHANGED held /\ srv[one] = "unused" /\ srv' = [srv EXCEPT ![one] = "ready"]
        /\ UNCHANGED <<arg, g_sSocket>>
    BY <2>1 DEF Start
  <2>. QED BY <1>0, <1>1, <2>2, Elsewhere DEF SslTypeOK, Early, Open, Past
<1>3. CASE ReadySocket(one)
  <2>1. /\ UNCHANGED held
        /\ srv[one] \in {"ready", "flag", "socket", "bind", "listen"}
        /\ \E place \in {"flag", "socket", "bind", "listen", "port", "failed"} :
              srv' = [srv EXCEPT ![one] = place]
        /\ UNCHANGED arg /\ (g_sSocket' = g_sSocket \/ g_sSocket' \in {INVALID, one})
    BY <1>3 DEF ReadySocket, Startup, Flag, MakeSocket, Bind, Listen
  <2>2. PICK place \in {"flag", "socket", "bind", "listen", "port", "failed"} :
           srv' = [srv EXCEPT ![one] = place]
    BY <2>1
  <2>3. /\ g_sSocket' \in Handles \cup {INVALID}
        /\ arg' \in [Runs -> Handles \cup Clients \cup {INVALID}]
    BY <1>0, <2>1 DEF SslTypeOK, Handles
  <2>. QED BY <1>1, <2>1, <2>2, <2>3, Elsewhere DEF Early, Open, Past
<1>4. CASE \/ (MakeQueue(one) /\ UNCHANGED sslVars)
           \/ MakeContext(one) \/ MainReturns(one) \/ Calls(one)
           \/ /\ CloseListener(one) \/ ForgetClient(one) \/ Unflag(one)
              /\ UNCHANGED sslVars
  <2>1. /\ UNCHANGED held /\ UNCHANGED g_sSocket
        /\ \/ arg' = arg \/ arg' = [arg EXCEPT ![one] = NULL]
           \/ arg' = [arg EXCEPT ![one] = g_sSocket]
        /\ \/ srv[one] = "queue" /\ srv' = [srv EXCEPT ![one] = "running"]
           \/ srv[one] = "running" /\ srv' = [srv EXCEPT ![one] = "accept"]
           \/ srv[one] \in {"running", "failed", "stopped"} /\ srv' = [srv EXCEPT ![one] = "done"]
           \/ srv[one] = "accept" /\ srv' = [srv EXCEPT ![one] = "accepting"]
           \/ srv[one] = "close" /\ srv' = [srv EXCEPT ![one] = "closePort"]
           \/ srv[one] = "unpost" /\ srv' = [srv EXCEPT ![one] = "quit"]
           \/ srv[one] = "unflag" /\ srv' = [srv EXCEPT ![one] = "stopped"]
    BY <1>4 DEF MakeQueue, MakeContext, MainReturns, Calls, AcceptCall, CloseListener,
                ForgetClient, ForgetSocket, Unflag
  <2>2. PICK place \in {"running", "accept", "done", "accepting", "closePort", "quit", "stopped"} :
           /\ srv' = [srv EXCEPT ![one] = place]
           /\ place \in Open => srv[one] \in Open
           /\ srv[one] \in Past => place \in Past
           /\ srv[one] # "post"
           /\ srv[one] # "done"
    BY <2>1 DEF Open, Past
  <2>3. arg' \in [Runs -> Handles \cup Clients \cup {INVALID}]
    BY <1>0, <2>1 DEF SslTypeOK, Handles
  <2>. QED BY <1>0, <1>1, <2>1, <2>2, <2>3, Elsewhere DEF SslTypeOK, Early, Open, Past
<1>5. CASE Fault(one)
  <2>1. UNCHANGED held /\ srv' = [srv EXCEPT ![one] = "done"] /\ UNCHANGED <<arg,
                                                                             g_sSocket>>
    BY <1>5 DEF Fault
  <2>. QED BY <1>0, <1>1, <2>1, Elsewhere DEF SslTypeOK, Early, Open, Past
<1>6. CASE Waits(one)
  <2>1. UNCHANGED <<held, srv, arg, g_sSocket>>
    BY <1>6 DEF Waits, HandlerCalls
  <2>. QED BY <2>1 DEF SslInv, SslTypeOK, PortAgrees, SetUpAgrees, ClientsAgree,
                       PacketsAgree, CompletionAgrees, OneSession, Active, Under, Working,
                       NoPacket, sslVars
<1>. QED BY <1>2, <1>3, <1>4, <1>5, <1>6
-----------------------------------------------------------------------------
(* The accept thread and its port.                                         *)

LEMMA PortSteps ==
    ASSUME NEW one \in Runs, Runs = {one}, SslInv, UNCHANGED sslVars,
           \/ MakePort(one) \/ StartThreads(one) \/ Quit(one) \/ ClosePort(one)
           \/ Cleanup(one)
    PROVE  SslInv'
<1>. USE DEF world, clients, completion, handler, server, outside, listeners, statics,
         ports, winsock, Moves, GoTo, At, sslVars
<1>0. /\ SslTypeOK /\ PortAgrees /\ SetUpAgrees /\ ClientsAgree /\ PacketsAgree
      /\ CompletionAgrees /\ OneSession
  BY DEF SslInv
<1>1. stage # "ready" => srv[one] \in {"post", "done"}
  BY <1>0 DEF SetUpAgrees
<1>2. CASE MakePort(one)
  <2>1. /\ srv[one] = "port" /\ srv' = [srv EXCEPT ![one] = "threads"] /\ srv'[one] = "threads"
        /\ g_hcp' = one /\ hcp' = [hcp EXCEPT ![one] = "open"] /\ hcp'[one] = "open"
        /\ UNCHANGED <<arg, g_sSocket, packets, comp, cport, cctx, sock, at, pending, ctx,
                       chunks>>
    BY <1>0, <1>2 DEF MakePort, SslTypeOK
  <2>2. SslTypeOK'
    BY <1>0, <2>1 DEF SslTypeOK, Handles, Open
  <2>3. hcp[one] = "none" /\ comp[one] = "none"
    BY <1>0, <2>1 DEF PortAgrees, Early
  <2>4. PortAgrees' /\ SetUpAgrees'
    BY <1>0, <1>1, <2>1, <2>3 DEF PortAgrees, SetUpAgrees, Early, Open
\* Nobody is tied to a port that has not been made.
  <2>5. \A c \in Clients : at[c] # NULL => ctx[c] = "none"
    BY <1>0, <2>3 DEF ClientsAgree, SslTypeOK, Handles
  <2>6. ClientsAgree'
    BY <1>0, <2>1, <2>5 DEF ClientsAgree, SslTypeOK, Handles
  <2>7. PacketsAgree'
    <3>1. \A i \in DOMAIN packets[one] : packets[one][i][1] \in Clients \cup {NULL}
      BY <1>0 DEF SslTypeOK
    <3>. QED BY <1>0, IocpAssumption, <2>1, <2>5, <3>1 DEF PacketsAgree
  <2>8. CompletionAgrees' /\ OneSession'
    BY <1>0, <2>1, <2>3
       DEF CompletionAgrees, OneSession, Active, Under, Working, NoPacket, Past
  <2>. QED BY <2>2, <2>4, <2>6, <2>7, <2>8 DEF SslInv
<1>3. CASE StartThreads(one)
  <2>1. /\ srv[one] = "threads" /\ srv' = [srv EXCEPT ![one] = "queue"] /\ srv'[one] = "queue"
        /\ comp' = [comp EXCEPT ![one] = "get"] /\ comp'[one] = "get"
        /\ cport' = [cport EXCEPT ![one] = g_hcp] /\ cport'[one] = g_hcp
        /\ UNCHANGED <<arg, g_hcp, g_sSocket, hcp, packets, cctx, sock, at, pending, ctx,
                       chunks>>
    BY <1>0, <1>3 DEF StartThreads, SslTypeOK
  <2>2. SslTypeOK'
    BY <1>0, <2>1 DEF SslTypeOK, Open
  <2>3. hcp[one] = "open" /\ comp[one] = "none" /\ g_hcp = one
    BY <1>0, <2>1 DEF PortAgrees, Open
  <2>4. PortAgrees' /\ SetUpAgrees'
    BY <1>0, <1>1, <2>1, <2>3 DEF PortAgrees, SetUpAgrees, Early, Open
  <2>5. ClientsAgree' /\ PacketsAgree'
    BY <1>0, <2>1 DEF ClientsAgree, PacketsAgree
  <2>6. CompletionAgrees' /\ OneSession'
    BY <1>0, <2>1, <2>3
       DEF CompletionAgrees, OneSession, Active, Under, Working, NoPacket, Past
  <2>. QED BY <2>2, <2>4, <2>5, <2>6 DEF SslInv
<1>4. CASE Quit(one)
  <2>1. /\ srv[one] = "quit" /\ srv' = [srv EXCEPT ![one] = "close"] /\ srv'[one] = "close"
        /\ UNCHANGED <<arg, g_hcp, g_sSocket, hcp, comp, cport, cctx, sock, at, pending,
                       ctx, chunks>>
    BY <1>0, <1>4 DEF Quit, SslTypeOK
  <2>2. hcp[one] = "open" /\ g_hcp = one
    BY <1>0, <2>1 DEF PortAgrees, Open
  <2>. DEFINE K == {"data", "end", "error", "quit"}
              P == packets[one]
  <2>3. P \in Seq((Clients \cup {NULL}) \X K) /\ <<NULL,
                                                   "quit">> \in (Clients \cup {NULL}) \X K
    BY <1>0 DEF SslTypeOK
  <2>4. packets' = [packets EXCEPT ![one] = Append(P, <<NULL, "quit">>)]
    BY <1>4, <2>2 DEF Quit
  <2>5. /\ packets' \in [Runs -> Seq((Clients \cup {NULL}) \X K)]
        /\ packets'[one] = Append(P, <<NULL, "quit">>)
    BY <1>0, <2>3, <2>4, AppendProperties DEF SslTypeOK
  <2>6. \A i \in DOMAIN packets'[one] :
           (i \in DOMAIN P /\ packets'[one][i] = P[i]) \/ packets'[one][i] = <<NULL,
                                                                               "quit">>
    BY <2>3, <2>5, AppendProperties
  <2>7. SslTypeOK'
    BY <1>0, <2>1, <2>5 DEF SslTypeOK, Open
  <2>8. PortAgrees' /\ SetUpAgrees' /\ ClientsAgree'
    BY <1>0, <1>1, <2>1 DEF PortAgrees, SetUpAgrees, ClientsAgree, Early, Open
  <2>. HIDE DEF P, K
  <2>9. PacketsAgree'
    <3>1. \A i \in DOMAIN packets'[one] :
            \/ i \in DOMAIN P /\ packets'[one][i] = P[i]
            \/ packets'[one][i][1] = NULL /\ packets'[one][i][2] = "quit"
      BY <2>6
    <3>. QED BY <1>0, <2>1, <3>1 DEF PacketsAgree, P
  <2>10. \A c \in Clients : NoPacket(one, c) => NoPacket(one, c)'
    BY <2>6, IocpAssumption DEF NoPacket, P
  <2>11. CompletionAgrees'
    BY <1>0, <2>1, <2>10 DEF CompletionAgrees, Working, SslTypeOK
  <2>12. OneSession'
    BY <1>0, <2>1, <2>10 DEF OneSession, Active, Under, Past
  <2>. QED BY <2>7, <2>8, <2>9, <2>11, <2>12 DEF SslInv
<1>5. CASE ClosePort(one)
  <2>1. /\ srv[one] = "closePort" /\ srv' = [srv EXCEPT ![one] = "cleanup"] /\ srv'[one] = "cleanup"
        /\ hcp' = [hcp EXCEPT ![g_hcp] = "closed"]
        /\ UNCHANGED <<arg, g_hcp, g_sSocket, packets, comp, cport, cctx, sock, at,
                       pending, ctx, chunks>>
    BY <1>0, <1>5 DEF ClosePort, SslTypeOK
  <2>2. hcp' = [hcp EXCEPT ![one] = "closed"] /\ hcp'[one] = "closed"
    BY <1>0, <2>1 DEF PortAgrees, SslTypeOK, Open
  <2>3. SslTypeOK'
    BY <1>0, <2>1, <2>2 DEF SslTypeOK, Past
  <2>4. PortAgrees' /\ SetUpAgrees'
    BY <1>0, <1>1, <2>1, <2>2 DEF PortAgrees, SetUpAgrees, Early, Open
  <2>5. ClientsAgree' /\ PacketsAgree'
    BY <1>0, <2>1, <2>2 DEF ClientsAgree, PacketsAgree, SslTypeOK, Handles
  <2>6. CompletionAgrees' /\ OneSession'
    BY <1>0, <2>1, <2>2
       DEF CompletionAgrees, OneSession, Active, Under, Working, NoPacket, Past
  <2>. QED BY <2>3, <2>4, <2>5, <2>6 DEF SslInv
<1>6. CASE Cleanup(one)
  <2>1. /\ srv[one] = "cleanup"
        /\ \/ srv' = [srv EXCEPT ![one] = "stopped"] /\ srv'[one] = "stopped"
           \/ srv' = [srv EXCEPT ![one] = "unflag"] /\ srv'[one] = "unflag"
        /\ UNCHANGED <<arg, g_hcp, g_sSocket, hcp, packets, comp, cport, cctx, at, pending,
                       ctx, chunks>>
    BY <1>0, <1>6 DEF Cleanup, SslTypeOK
  <2>2. /\ sock' \in [Clients -> {"off", "queued", "open", "closed", "lost"}]
        /\ \A c \in Clients : \/ sock'[c] = sock[c]
                              \/ sock[c] \in {"queued", "open"} /\ sock'[c] = "lost"
    BY <1>0, <1>6 DEF Cleanup, SslTypeOK
  <2>3. SslTypeOK'
    BY <1>0, <2>1, <2>2 DEF SslTypeOK, Past
  <2>4. PortAgrees' /\ SetUpAgrees'
    BY <1>0, <1>1, <2>1 DEF PortAgrees, SetUpAgrees, Early, Open
  <2>5. ClientsAgree' /\ PacketsAgree'
    BY <1>0, <2>1, <2>2 DEF ClientsAgree, PacketsAgree
  <2>6. CompletionAgrees'
    BY <1>0, <2>1, <2>2 DEF CompletionAgrees, Working, NoPacket, SslTypeOK
  <2>7. OneSession'
    BY <1>0, <2>1, <2>2 DEF OneSession, Active, Under, NoPacket, Past
  <2>. QED BY <2>3, <2>4, <2>5, <2>6, <2>7 DEF SslInv
<1>. QED BY <1>2, <1>3, <1>4, <1>5, <1>6
-----------------------------------------------------------------------------
(* The accept thread and the client it sets up.                            *)

LEMMA TakeSteps ==
    ASSUME NEW one \in Runs, Runs = {one}, SslInv, NEW c \in Clients,
           Takes(one, c) \/ TakesNone(one, c)
    PROVE  SslInv'
<1>. USE DEF world, completion, handler, server, listeners, statics, ports, winsock,
         Moves, GoTo, At, sslVars
<1>0. /\ SslTypeOK /\ PortAgrees /\ SetUpAgrees /\ ClientsAgree /\ PacketsAgree
      /\ CompletionAgrees /\ OneSession
  BY DEF SslInv
\* A client of the backlog is no one's yet.
<1>1. /\ sock[c] = "queued" /\ ctx[c] = "none" /\ ses[c] = "none" /\ ~pending[c]
      /\ cctx[one] # c /\ NoPacket(one, c)
  <2>1. sock[c] = "queued" /\ c # NULL
    BY IocpAssumption DEF Takes, TakesNone, Accepted
  <2>2. ctx[c] = "none" /\ ses[c] = "none" /\ ~pending[c]
    BY <1>0, <2>1 DEF ClientsAgree, SslTypeOK
  <2>3. cctx[one] # c
    BY <1>0, <2>1, <2>2 DEF CompletionAgrees
  <2>4. NoPacket(one, c)
    BY <1>0, <2>1, <2>2 DEF PacketsAgree, NoPacket
  <2>. QED BY <2>1, <2>2, <2>3, <2>4
<1>2. srv[one] = "accepting" /\ stage = "ready"
  BY <1>0 DEF Takes, TakesNone, Accepted, SetUpAgrees
<1>3. CASE Takes(one, c)
  <2>1. /\ srv' = [srv EXCEPT ![one] = "post"] /\ srv'[one] = "post"
        /\ arg' = [arg EXCEPT ![one] = c] /\ arg'[one] = c
        /\ sock' = [sock EXCEPT ![c] = "open"] /\ sock'[c] = "open"
        /\ at' = [at EXCEPT ![c] = NULL] /\ at'[c] = NULL
        /\ ctx' = [ctx EXCEPT ![c] = "live"] /\ ctx'[c] = "live"
        /\ stage' = "new"
        /\ overlapped' = (overlapped \/ \E d \in Clients : sock[d] = "open")
        /\ UNCHANGED <<g_hcp, g_sSocket, hcp, packets, comp, cport, cctx, pending, chunks,
                       ssl, ses, bio, peer, plain, neat>>
    BY <1>0, <1>3 DEF Takes, Accepted, SslTypeOK
  <2>2. SslTypeOK'
    BY <1>0, <2>1 DEF SslTypeOK, Open, Handles
  <2>3. PortAgrees' /\ SetUpAgrees'
    BY <1>0, <1>1, <1>2, <2>1 DEF PortAgrees, SetUpAgrees, Early, Open
  <2>4. \A d \in Clients : d # c => sock'[d] = sock[d] /\ at'[d] = at[d] /\ ctx'[d] = ctx[d]
    BY <1>0, <2>1 DEF SslTypeOK
  <2>5. ClientsAgree'
    BY <1>0, <1>1, <2>1, <2>4 DEF ClientsAgree
  <2>6. PacketsAgree'
    <3>1. \A i \in DOMAIN packets[one] :
             packets[one][i][1] \in Clients \cup {NULL} /\ packets[one][i][1] # c
      BY <1>0, <1>1 DEF SslTypeOK, NoPacket
    <3>. QED BY <1>0, <2>1, <2>4, <3>1 DEF PacketsAgree
  <2>7. CompletionAgrees'
    BY <1>0, <1>1, <2>1, <2>4 DEF CompletionAgrees, Working, NoPacket, SslTypeOK
\* An active client would be open, and the new one overlap it.
  <2>8. OneSession'
    <3>. SUFFICES ASSUME ~overlapped' PROVE OneSession'
      BY DEF OneSession
    <3>1. ~overlapped /\ \A d \in Clients : sock[d] # "open"
      BY <1>0, <2>1 DEF SslTypeOK
    <3>2. \A d \in Clients : ~Active(one, d)
      BY <1>0, <1>2, <3>1 DEF OneSession, Past
    <3>. QED BY <1>0, <2>1, <3>1, <3>2 DEF OneSession, Active, Under, NoPacket
  <2>. QED BY <2>2, <2>3, <2>5, <2>6, <2>7, <2>8 DEF SslInv
<1>4. CASE TakesNone(one, c)
  <2>1. /\ srv' = [srv EXCEPT ![one] = "quit"] /\ srv'[one] = "quit"
        /\ arg' = [arg EXCEPT ![one] = NULL]
        /\ sock' = [sock EXCEPT ![c] = "lost"] /\ sock'[c] = "lost"
        /\ UNCHANGED <<g_hcp, g_sSocket, hcp, packets, comp, cport, cctx, at, pending, ctx,
                       chunks, sslVars>>
    BY <1>0, <1>4 DEF TakesNone, SslTypeOK
  <2>2. SslTypeOK'
    BY <1>0, <2>1 DEF SslTypeOK, Open, Handles
  <2>3. PortAgrees' /\ SetUpAgrees'
    BY <1>0, <1>2, <2>1 DEF PortAgrees, SetUpAgrees, Early, Open
  <2>4. ClientsAgree' /\ PacketsAgree'
    BY <1>0, <1>1, <2>1 DEF ClientsAgree, PacketsAgree, SslTypeOK
  <2>5. CompletionAgrees'
    BY <1>0, <1>1, <2>1 DEF CompletionAgrees, Working, NoPacket, SslTypeOK
  <2>6. OneSession'
    BY <1>0, <1>1, <2>1 DEF OneSession, Active, Under, NoPacket, Past, SslTypeOK
  <2>. QED BY <2>2, <2>3, <2>4, <2>5, <2>6 DEF SslInv
<1>. QED BY <1>3, <1>4

LEMMA SessionSteps ==
    ASSUME NEW one \in Runs, Runs = {one}, SslInv,
           SslNew(one) \/ SetFd(one) \/ SslAccept(one)
    PROVE  SslInv'
<1>. USE DEF At, iocpVars
<1>0. /\ SslTypeOK /\ PortAgrees /\ SetUpAgrees /\ ClientsAgree /\ PacketsAgree
      /\ CompletionAgrees /\ OneSession
  BY DEF SslInv
<1>. DEFINE c == arg[one]
<1>1. /\ srv[one] = "post" /\ stage \in {"new", "fd", "handshake"}
      /\ c \in Clients /\ c # NULL /\ sock[c] = "open" /\ at[c] = NULL /\ ctx[c] = "live"
      /\ stage = "new" => ses[c] = "none"
      /\ stage # "new" => ses[c] = "new" /\ ssl = c
  BY <1>0, IocpAssumption DEF SslNew, SetFd, SslAccept, Staged, SetUpAgrees
\* Without overlap nobody is active while a session is set up.
<1>2. ~overlapped => \A d \in Clients : ~Active(one, d)
  BY <1>0, <1>1 DEF OneSession
<1>3. UNCHANGED <<g_hcp, g_sSocket, srv, arg, hcp, packets, comp, cport, cctx, sock, at,
                  pending, ctx,
                  chunks, peer, plain, neat, overlapped>>
  BY DEF SslNew, SetFd, SslAccept
<1>4. /\ stage = "new"       => stage' = "fd" /\ ssl' = c /\ ses' = [ses EXCEPT ![c] = "new"]
                                /\ UNCHANGED bio
      /\ stage = "fd"        => stage' = "handshake" /\ bio' = [bio EXCEPT ![c] = "socket"]
                                /\ UNCHANGED <<ssl, ses>>
      /\ stage = "handshake" => /\ stage' = "ready" /\ UNCHANGED <<ssl, bio>>
                                /\ \/ ses' = [ses EXCEPT ![c] = "up"]
                                   \/ ses' = [ses EXCEPT ![c] = "failed"]
  BY <1>1 DEF SslNew, SetFd, SslAccept, Staged
<1>5. SslTypeOK'
  <2>1. /\ ssl' \in Clients \cup {NULL} /\ stage' \in {"ready", "new", "fd", "handshake"}
        /\ ses' \in [Clients -> {"none", "new", "up", "failed"}]
        /\ bio' \in [Clients -> Clients \cup {"none", "socket"}]
    <3>1. /\ ses \in [Clients -> {"none", "new", "up", "failed"}]
          /\ bio \in [Clients -> Clients \cup {"none", "socket"}]
          /\ ssl \in Clients \cup {NULL}
      BY <1>0 DEF SslTypeOK
    <3>. HIDE DEF c
    <3>. QED BY <1>1, <1>4, <3>1
  <2>. QED BY <1>0, <1>3, <2>1 DEF SslTypeOK
<1>6. PortAgrees' /\ PacketsAgree' /\ CompletionAgrees'
  BY <1>0, <1>3 DEF PortAgrees, PacketsAgree, CompletionAgrees, Working, NoPacket
<1>7. SetUpAgrees'
  BY <1>0, <1>1, <1>3, <1>4 DEF SetUpAgrees, SslTypeOK
<1>8. ClientsAgree'
  BY <1>0, <1>1, <1>3, <1>4 DEF ClientsAgree, SslTypeOK
<1>9. OneSession'
  BY <1>0, <1>1, <1>2, <1>3, <1>4 DEF OneSession, Active, Under, NoPacket, SslTypeOK
<1>. QED BY <1>5, <1>6, <1>7, <1>8, <1>9 DEF SslInv

LEMMA ArmSteps ==
    ASSUME NEW one \in Runs, Runs = {one}, SslInv, Arms(one)
    PROVE  SslInv'
<1>. USE DEF world, completion, handler, server, listeners, statics, ports, winsock,
         Moves, GoTo, At, sslVars
<1>0. /\ SslTypeOK /\ PortAgrees /\ SetUpAgrees /\ ClientsAgree /\ PacketsAgree
      /\ CompletionAgrees /\ OneSession
  BY DEF SslInv
<1>. DEFINE c == arg[one]
<1>1. /\ srv[one] = "post" /\ stage = "ready" /\ g_hcp = one /\ hcp[one] = "open"
      /\ c \in Clients /\ c # NULL /\ sock[c] = "open" /\ at[c] = NULL /\ ctx[c] = "live"
      /\ ses[c] \in {"up", "failed"} /\ ssl = c /\ one # NULL
  BY <1>0, IocpAssumption DEF Arms, PostRecv, PostRecvFails, SetUpAgrees, PortAgrees, Open
<1>2. ~pending[c] /\ cctx[one] # c /\ NoPacket(one, c)
  BY <1>0, <1>1 DEF ClientsAgree, CompletionAgrees, PacketsAgree, NoPacket, SslTypeOK
<1>3. CASE PostRecv(one)
  <2>1. /\ srv' = [srv EXCEPT ![one] = "accept"] /\ srv'[one] = "accept"
        /\ arg' = [arg EXCEPT ![one] = NULL]
        /\ at' = [at EXCEPT ![c] = one] /\ pending' = [pending EXCEPT ![c] = TRUE]
        /\ UNCHANGED <<g_hcp, g_sSocket, hcp, packets, comp, cport, cctx, sock, ctx,
                       chunks, sslVars>>
    BY <1>0, <1>1, <1>3 DEF PostRecv, Arms, SslTypeOK
  <2>2. SslTypeOK'
    BY <1>0, <1>1, <2>1 DEF SslTypeOK, Open, Handles
  <2>3. PortAgrees' /\ SetUpAgrees'
    BY <1>0, <1>1, <2>1 DEF PortAgrees, SetUpAgrees, Early, Open
  <2>4. /\ at'[c] = one /\ pending'[c]
        /\ \A d \in Clients : d # c => at'[d] = at[d] /\ pending'[d] = pending[d]
    BY <1>0, <1>1, <2>1 DEF SslTypeOK
  <2>5. ClientsAgree'
    BY <1>0, <1>1, <2>1, <2>4 DEF ClientsAgree
  <2>6. PacketsAgree'
    <3>1. \A i \in DOMAIN packets[one] :
             packets[one][i][1] \in Clients \cup {NULL} /\ packets[one][i][1] # c
      BY <1>0, <1>2 DEF SslTypeOK, NoPacket
    <3>. QED BY <1>0, <2>1, <2>4, <3>1 DEF PacketsAgree
  <2>7. CompletionAgrees'
    BY <1>0, <1>2, <2>1, <2>4 DEF CompletionAgrees, Working, NoPacket, SslTypeOK
  <2>8. OneSession'
    BY <1>0, <1>1, <1>2, <2>1, <2>4 DEF OneSession, Active, Under, NoPacket, Past
  <2>. QED BY <2>2, <2>3, <2>5, <2>6, <2>7, <2>8 DEF SslInv
<1>4. CASE PostRecvFails(one)
  <2>1. /\ srv' = [srv EXCEPT ![one] = "unpost"] /\ srv'[one] = "unpost"
        /\ sock' = [sock EXCEPT ![c] = "closed"]
        /\ UNCHANGED <<g_hcp, g_sSocket, arg, hcp, packets, comp, cport, cctx, at, pending,
                       ctx,
                       chunks, sslVars>>
    BY <1>0, <1>1, <1>4 DEF PostRecvFails, Arms, SslTypeOK
  <2>2. SslTypeOK'
    BY <1>0, <1>1, <2>1 DEF SslTypeOK, Open
  <2>3. PortAgrees' /\ SetUpAgrees'
    BY <1>0, <1>1, <2>1 DEF PortAgrees, SetUpAgrees, Early, Open
  <2>4. ClientsAgree' /\ PacketsAgree'
    BY <1>0, <1>1, <2>1 DEF ClientsAgree, PacketsAgree, SslTypeOK
  <2>5. CompletionAgrees'
    BY <1>0, <1>2, <2>1 DEF CompletionAgrees, Working, NoPacket, SslTypeOK
  <2>6. OneSession'
    BY <1>0, <1>1, <1>2, <2>1 DEF OneSession, Active, Under, NoPacket, Past, SslTypeOK
  <2>. QED BY <2>2, <2>3, <2>4, <2>5, <2>6 DEF SslInv
<1>. QED BY <1>3, <1>4 DEF Arms
-----------------------------------------------------------------------------
(* The completion thread.                                                  *)

\* The first packet of the port is taken.
LEMMA Taken ==
    ASSUME NEW one \in Runs, Runs = {one}, SslInv,
           NEW kind \in {"data", "end", "error", "quit"}, Packet(one, kind),
           UNCHANGED <<hcp, at, pending, ctx>>
    PROVE  \E c :
           /\ comp[one] = "get" /\ hcp[one] = "open"
           /\ packets' \in [Runs -> Seq((Clients \cup {NULL})
                                          \X {"data", "end", "error", "quit"})]
           /\ cctx' = [cctx EXCEPT ![one] = c] /\ cctx'[one] = c
           /\ IF kind = "quit"
              THEN c = NULL
              ELSE /\ c \in Clients /\ c # NULL /\ at[c] = one /\ ctx[c] = "live" /\ ~pending[c]
                   /\ ~NoPacket(one, c) /\ NoPacket(one, c)'
           /\ \A d \in Clients : NoPacket(one, d) => NoPacket(one, d)'
           /\ PacketsAgree'
<1>. DEFINE K == (Clients \cup {NULL}) \X {"data", "end", "error", "quit"}
            P == packets[one]
<1>c. PICK c : c = P[1][1]
  OBVIOUS
<1>0. SslTypeOK /\ PortAgrees /\ PacketsAgree
  BY DEF SslInv
<1>1. /\ comp[one] = "get" /\ cport[one] = one /\ hcp[one] = "open"
      /\ P # << >> /\ Head(P)[2] = kind
      /\ packets' = [packets EXCEPT ![one] = Tail(P)]
      /\ cctx' = [cctx EXCEPT ![one] = Head(P)[1]]
  BY <1>0 DEF Packet, PortAgrees
<1>2. P \in Seq(K) /\ packets \in [Runs -> Seq(K)]
  BY <1>0 DEF SslTypeOK
<1>3. /\ Head(P) = P[1] /\ P[1] \in K /\ 1 \in DOMAIN P /\ Tail(P) \in Seq(K)
      /\ \A i \in DOMAIN Tail(P) :
            i \in Nat \ {0} /\ i + 1 \in DOMAIN P /\ Tail(P)[i] = P[i + 1]
  BY <1>1, <1>2
<1>4. packets' \in [Runs -> Seq(K)] /\ packets'[one] = Tail(P)
  BY <1>1, <1>2, <1>3
<1>5. /\ P[1][2] = kind /\ c \in Clients \cup {NULL}
      /\ cctx' = [cctx EXCEPT ![one] = c] /\ cctx'[one] = c
  BY <1>c, <1>0, <1>1, <1>3 DEF SslTypeOK
<1>6. kind = "quit" <=> c = NULL
  BY <1>c, <1>0, <1>3, <1>5 DEF PacketsAgree
<1>7. c # NULL => at[c] = one /\ ctx[c] = "live" /\ ~pending[c] /\ ~NoPacket(one, c)
  BY <1>c, <1>0, <1>1, <1>3, <1>5 DEF PacketsAgree, NoPacket
<1>8. ASSUME c # NULL, NEW i \in DOMAIN packets'[one] PROVE packets'[one][i][1] # c
  <2>1. i \in Nat \ {0} /\ i + 1 \in DOMAIN P /\ packets'[one][i] = P[i + 1] /\ i + 1 # 1
    BY <1>3, <1>4
  <2>. QED BY <1>c, <1>0, <1>3, <1>8, <2>1 DEF PacketsAgree
<1>9. \A d \in Clients : NoPacket(one, d) => NoPacket(one, d)'
  BY <1>3, <1>4 DEF NoPacket
<1>10. PacketsAgree'
  <2>. HIDE DEF P, K
  <2>1. \A i \in DOMAIN packets'[one] :
           i + 1 \in DOMAIN P /\ packets'[one][i] = P[i + 1] /\ i \in Nat
    BY <1>3, <1>4
  <2>2. \A i, j \in DOMAIN packets'[one] :
           packets'[one][i][1] = packets'[one][j][1] /\ packets'[one][i][1] # NULL => i = j
    <3>. SUFFICES ASSUME NEW i \in DOMAIN packets'[one], NEW j \in DOMAIN packets'[one],
                         packets'[one][i][1] = packets'[one][j][1],
                         packets'[one][i][1] # NULL
         PROVE  i = j
      OBVIOUS
    <3>1. i + 1 = j + 1
      BY <1>0, <2>1 DEF PacketsAgree, P
    <3>. QED BY <2>1, <3>1
  <2>3. \A i \in DOMAIN packets'[one] :
           LET d == packets'[one][i][1]
               word == packets'[one][i][2]
           IN  /\ d = NULL <=> word = "quit"
               /\ d # NULL => /\ at[d] = one /\ ctx[d] # "none" /\ ~pending[d]
                              /\ hcp[one] = "open" => ctx[d] = "live"
    BY <1>0, <2>1 DEF PacketsAgree, P
  <2>. QED BY <2>2, <2>3 DEF PacketsAgree
<1>11. c # NULL => NoPacket(one, c)'
  BY <1>8 DEF NoPacket
<1>. HIDE DEF P, K
<1>. QED BY <1>1, <1>4, <1>5, <1>6, <1>7, <1>9, <1>10, <1>11 DEF P, K

LEMMA PacketSteps ==
    ASSUME NEW one \in Runs, Runs = {one}, SslInv,
           \/ GetsData(one)
           \/ (GotEnd(one) \/ GotError(one) \/ GotQuit(one)) /\ UNCHANGED sslVars
    PROVE  SslInv'
<1>. USE DEF outside, statics, server, listeners, handler, winsock, clients, session,
             sslVars
<1>0. /\ SslTypeOK /\ PortAgrees /\ SetUpAgrees /\ ClientsAgree /\ PacketsAgree
      /\ CompletionAgrees /\ OneSession
  BY DEF SslInv
<1>1. UNCHANGED <<g_hcp, g_sSocket, srv, arg, hcp, cport, at, pending, ctx, ssl, stage,
                  ses, bio, plain,
                  overlapped>>
  BY DEF GetsData, GotEnd, GotError, GotQuit
<1>2. CASE GetsData(one)
  <2>1. Packet(one, "data")
    BY <1>2 DEF GetsData
  <2>2. PICK c :
        /\ comp[one] = "get" /\ hcp[one] = "open"
        /\ packets' \in [Runs -> Seq((Clients \cup {NULL}) \X {"data", "end", "error", "quit"})]
        /\ cctx' = [cctx EXCEPT ![one] = c] /\ cctx'[one] = c
        /\ c \in Clients /\ c # NULL /\ at[c] = one /\ ctx[c] = "live" /\ ~pending[c]
        /\ ~NoPacket(one, c) /\ NoPacket(one, c)'
        /\ \A d \in Clients : NoPacket(one, d) => NoPacket(one, d)'
        /\ PacketsAgree'
    BY <1>1, <2>1, Taken
  <2>3. /\ comp' = [comp EXCEPT ![one] = "bio"] /\ comp'[one] = "bio"
        /\ chunks' = [chunks EXCEPT ![c] = chunks[c] + 1]
        /\ \E b \in BOOLEAN : neat' = [neat EXCEPT ![c] = @ /\ b]
        /\ UNCHANGED sock
    BY <1>0, <1>2, <2>2 DEF GetsData, SslTypeOK
  <2>4. neat' \in [Clients -> BOOLEAN] /\ \A d \in Clients : neat'[d] => neat[d]
    BY <1>0, <2>2, <2>3 DEF SslTypeOK
  <2>5. SslTypeOK'
    BY <1>0, <1>1, <2>2, <2>3, <2>4 DEF SslTypeOK
  <2>6. PortAgrees' /\ SetUpAgrees' /\ ClientsAgree'
    BY <1>0, <1>1, <2>2, <2>3 DEF PortAgrees, SetUpAgrees, ClientsAgree, At
  <2>7. CompletionAgrees'
    BY <1>0, <1>1, <2>2, <2>3 DEF CompletionAgrees, Working, NoPacket
  <2>8. OneSession'
    <3>. SUFFICES ASSUME ~overlapped, NEW d \in Clients
         PROVE  /\ Active(one, d)' => /\ ssl = d /\ stage = "ready" /\ ses[d] \in {"up", "failed"}
                                      /\ sock[d] = "open" \/ srv[one] \in Past
                /\ neat'[d] /\ ses[d] # "failed" =>
                      chunks'[d] = IF d = c THEN plain[d] + 1 ELSE plain[d]
      BY <1>1, <2>2, <2>3 DEF OneSession, Under
    <3>1. Active(one, d)' => Active(one, d)
      BY <1>1, <2>2, <2>3 DEF Active, NoPacket
    <3>2. neat[d] /\ ses[d] # "failed" => chunks[d] = plain[d]
      BY <1>0, <2>2 DEF OneSession, Under
    <3>3. chunks'[d] = IF d = c THEN chunks[d] + 1 ELSE chunks[d]
      BY <1>0, <2>2, <2>3 DEF SslTypeOK
    <3>. QED BY <1>0, <2>4, <3>1, <3>2, <3>3 DEF OneSession
  <2>. QED BY <2>2, <2>5, <2>6, <2>7, <2>8 DEF SslInv
<1>3. CASE (GotEnd(one) \/ GotError(one)) /\ UNCHANGED sslVars
  <2>1. Packet(one, "end") \/ Packet(one, "error")
    BY <1>3 DEF GotEnd, GotError
  <2>2. PICK c :
        /\ comp[one] = "get" /\ hcp[one] = "open"
        /\ packets' \in [Runs -> Seq((Clients \cup {NULL}) \X {"data", "end", "error", "quit"})]
        /\ cctx' = [cctx EXCEPT ![one] = c] /\ cctx'[one] = c
        /\ c \in Clients /\ c # NULL /\ at[c] = one /\ ctx[c] = "live" /\ ~pending[c]
        /\ ~NoPacket(one, c) /\ NoPacket(one, c)'
        /\ \A d \in Clients : NoPacket(one, d) => NoPacket(one, d)'
        /\ PacketsAgree'
    BY <1>1, <2>1, Taken
  <2>3. /\ comp' = [comp EXCEPT ![one] = "clear"] \/ comp' = [comp EXCEPT ![one] = "clearLast"]
        /\ comp'[one] \in {"clear", "clearLast"}
        /\ sock' = [sock EXCEPT ![c] = IF @ = "open" THEN "closed" ELSE @]
        /\ UNCHANGED <<chunks, neat>>
    BY <1>0, <1>3, <2>2 DEF GotEnd, GotError, CloseClient, SslTypeOK
  <2>4. /\ sock[c] \notin {"off", "queued"} /\ sock'[c] \in {"closed", "lost"}
        /\ \A d \in Clients : d # c => sock'[d] = sock[d]
    BY <1>0, <2>2, <2>3 DEF SslTypeOK, ClientsAgree
  <2>5. SslTypeOK'
    BY <1>0, <1>1, <2>2, <2>3 DEF SslTypeOK
  <2>6. PortAgrees' /\ SetUpAgrees' /\ ClientsAgree'
    <3>1. PortAgrees' /\ ClientsAgree'
      BY <1>0, <1>1, <2>2, <2>3, <2>4 DEF PortAgrees, ClientsAgree
    <3>2. srv[one] = "post" => arg[one] # c
      BY <1>0, <2>2, IocpAssumption DEF SetUpAgrees, At
    <3>3. SetUpAgrees'
      BY <1>0, <1>1, <2>3, <2>4, <3>2 DEF SetUpAgrees, At
    <3>. QED BY <3>1, <3>3
  <2>7. CompletionAgrees'
    BY <1>0, <1>1, <2>2, <2>3, <2>4 DEF CompletionAgrees, Working, NoPacket
  <2>8. OneSession'
    <3>. SUFFICES ASSUME ~overlapped, NEW d \in Clients
         PROVE  /\ Active(one, d)' => /\ ssl = d /\ stage = "ready" /\ ses[d] \in {"up", "failed"}
                                      /\ sock'[d] = "open" \/ srv[one] \in Past
                /\ neat[d] /\ ses[d] # "failed" => chunks[d] = plain[d]
      BY <1>1, <2>2, <2>3 DEF OneSession, Under
    <3>1. Active(one, d)' => Active(one, d) /\ d # c
      BY <1>1, <2>2, <2>3 DEF Active, NoPacket
    <3>2. neat[d] /\ ses[d] # "failed" => chunks[d] = plain[d]
      BY <1>0, <2>2 DEF OneSession, Under
    <3>. QED BY <1>0, <2>4, <3>1, <3>2 DEF OneSession
  <2>. QED BY <2>2, <2>5, <2>6, <2>7, <2>8 DEF SslInv
<1>4. CASE GotQuit(one) /\ UNCHANGED sslVars
  <2>1. Packet(one, "quit")
    BY <1>4 DEF GotQuit
  <2>2. PICK c :
        /\ comp[one] = "get" /\ hcp[one] = "open"
        /\ packets' \in [Runs -> Seq((Clients \cup {NULL}) \X {"data", "end", "error", "quit"})]
        /\ c = NULL /\ cctx' = [cctx EXCEPT ![one] = c] /\ cctx'[one] = c
        /\ \A d \in Clients : NoPacket(one, d) => NoPacket(one, d)'
        /\ PacketsAgree'
    BY <1>1, <2>1, Taken, ZenonT(60)
  <2>3. /\ comp' = [comp EXCEPT ![one] = "done"] /\ comp'[one] = "done"
        /\ UNCHANGED <<sock, chunks, neat>>
    BY <1>0, <1>4 DEF GotQuit, SslTypeOK
  <2>5. SslTypeOK'
    BY <1>0, <1>1, <2>2, <2>3 DEF SslTypeOK
  <2>6. PortAgrees' /\ SetUpAgrees' /\ ClientsAgree'
    BY <1>0, <1>1, <2>2, <2>3 DEF PortAgrees, SetUpAgrees, ClientsAgree, At
  <2>7. CompletionAgrees'
    BY <1>0, <1>1, <2>2, <2>3 DEF CompletionAgrees, Working, NoPacket
  <2>8. OneSession'
    BY <1>0, <1>1, <2>2, <2>3 DEF OneSession, Active, Under
  <2>. QED BY <2>2, <2>5, <2>6, <2>7, <2>8 DEF SslInv
<1>. QED BY <1>2, <1>3, <1>4

\* The received bytes go through the session, and the next receive is posted.
LEMMA WorkSteps ==
    ASSUME NEW one \in Runs, Runs = {one}, SslInv,
           \/ SetBio(one) \/ SslRead(one) \/ SslReadWaits(one)
           \/ (Rearm(one) \/ RearmFails(one)) /\ UNCHANGED sslVars
    PROVE  SslInv'
<1>. USE DEF outside, statics, server, listeners, handler, winsock, clients, session,
             sslVars, ports
<1>0. /\ SslTypeOK /\ PortAgrees /\ SetUpAgrees /\ ClientsAgree /\ PacketsAgree
      /\ CompletionAgrees /\ OneSession
  BY DEF SslInv
<1>. DEFINE c == cctx[one]
<1>1. /\ comp[one] \in {"bio", "read", "rearm"}
      /\ c \in Clients /\ c # NULL /\ at[c] = one /\ ctx[c] = "live" /\ ~pending[c]
      /\ NoPacket(one, c)
  BY <1>0, IocpAssumption DEF SetBio, SslRead, SslReadWaits, Rearm, RearmFails, SslTypeOK,
                              CompletionAgrees, Working
<1>2. UNCHANGED <<g_hcp, g_sSocket, srv, arg, hcp, packets, cport, cctx, at, ctx, chunks,
                  ssl, stage,
                  ses, neat, overlapped>>
  BY DEF SetBio, SslRead, SslReadWaits, Rearm, RearmFails, CloseClient
<1>3. /\ ~overlapped => /\ ssl = c /\ stage = "ready" /\ ses[c] \in {"up", "failed"}
                        /\ comp[one] = "read" => bio[c] = c
      /\ ~overlapped => \A d \in Clients : Active(one, d) => d = c
  BY <1>0, <1>1, SslAssumption DEF OneSession, Active, Under
<1>4. CASE SetBio(one) \/ SslRead(one) \/ SslReadWaits(one)
  <2>1. /\ \/ comp[one] = "bio" /\ comp' = [comp EXCEPT ![one] = "read"] /\ comp'[one] = "read"
           \/ comp[one] = "read" /\ comp' = [comp EXCEPT ![one] = "rearm"] /\ comp'[one] = "rearm"
        /\ bio' = bio \/ bio' = [bio EXCEPT ![ssl] = c]
        /\ plain' = plain \/ plain' = [plain EXCEPT ![c] = plain[c] + 1]
        /\ UNCHANGED <<sock, pending>>
    BY <1>0, <1>4 DEF SetBio, SslRead, SslReadWaits, SslTypeOK
  <2>2. bio' \in [Clients -> Clients \cup {"none", "socket"}] /\ plain' \in [Clients -> Nat]
    <3>1. bio' \in [Clients -> Clients \cup {"none", "socket"}]
      BY <1>0, <1>1, <2>1 DEF SslTypeOK
    <3>2. plain \in [Clients -> Nat] /\ plain[c] + 1 \in Nat
      BY <1>0, <1>1 DEF SslTypeOK
    <3>. QED BY <2>1, <3>1, <3>2
  <2>3. SslTypeOK'
    BY <1>0, <1>2, <2>1, <2>2 DEF SslTypeOK
  <2>4. PortAgrees' /\ SetUpAgrees' /\ ClientsAgree' /\ PacketsAgree'
    BY <1>0, <1>2, <2>1 DEF PortAgrees, SetUpAgrees, ClientsAgree, PacketsAgree, At
  <2>5. CompletionAgrees'
    BY <1>0, <1>1, <1>2, <2>1 DEF CompletionAgrees, Working, NoPacket
  <2>6. ASSUME ~overlapped, NEW d \in Clients
        PROVE  /\ Active(one, d)' => /\ ssl = d /\ stage = "ready" /\ ses[d] \in {"up", "failed"}
                                     /\ sock[d] = "open" \/ srv[one] \in Past
               /\ Under(one, d)' /\ comp'[one] = "read" => bio'[d] = d
    <3>1. Active(one, d)' => Active(one, d)
      BY <1>2, <2>1 DEF Active, NoPacket
    <3>2. comp'[one] = "read" => bio'[c] = c
      BY <1>0, <1>1, <1>3, <1>4, <2>1, <2>6 DEF SetBio, SslRead, SslReadWaits, SslTypeOK
    <3>. QED BY <1>0, <1>2, <2>6, <3>1, <3>2 DEF OneSession, Under
\* What is read is c's own, and counted when it can be.
  <2>7. ASSUME ~overlapped, NEW d \in Clients, neat[d], ses[d] # "failed"
        PROVE  chunks[d] = IF Under(one, d)' THEN plain'[d] + 1 ELSE plain'[d]
    <3>1. chunks[d] = IF Under(one, d) THEN plain[d] + 1 ELSE plain[d]
      BY <1>0, <2>7 DEF OneSession
    <3>2. CASE comp[one] = "bio"
      <4>1. comp'[one] = "read" /\ plain' = plain
        BY <1>4, <2>1, <3>2 DEF SetBio, SslRead, SslReadWaits
      <4>. QED BY <1>2, <3>1, <3>2, <4>1 DEF Under
    <3>3. CASE comp[one] = "read"
      <4>1. comp'[one] = "rearm" /\ SslRead(one)
        BY <1>3, <1>4, <2>1, <2>7, <3>3, SslAssumption, <1>1 DEF SetBio, SslReadWaits
      <4>2. ssl = c /\ bio[ssl] = c /\ (d = c => ses[ssl] = "up")
        BY <1>3, <2>7, <3>3
      <4>3. d = c => plain'[d] = plain[d] + 1
        BY <1>0, <2>7, <4>1, <4>2 DEF SslRead, SslTypeOK
      <4>4. d # c => plain'[d] = plain[d]
        BY <1>0, <1>1, <2>1 DEF SslTypeOK
      <4>5. chunks[d] \in Nat /\ plain[d] \in Nat
        BY <1>0 DEF SslTypeOK
      <4>. QED BY <1>2, <3>1, <3>3, <4>1, <4>3, <4>4, <4>5 DEF Under
    <3>. QED BY <2>1, <3>2, <3>3
  <2>8. OneSession'
    BY <1>2, <2>1, <2>6, <2>7 DEF OneSession
  <2>. QED BY <2>3, <2>4, <2>5, <2>8 DEF SslInv
<1>5. CASE Rearm(one) /\ UNCHANGED sslVars
  <2>1. /\ comp[one] = "rearm" /\ comp' = [comp EXCEPT ![one] = "get"] /\ comp'[one] = "get"
        /\ pending' = [pending EXCEPT ![c] = TRUE]
        /\ UNCHANGED <<sock, bio, plain>>
    BY <1>0, <1>5 DEF Rearm, SslTypeOK
  <2>2. SslTypeOK'
    BY <1>0, <1>2, <2>1 DEF SslTypeOK
  <2>3. PortAgrees' /\ SetUpAgrees'
    BY <1>0, <1>2, <2>1 DEF PortAgrees, SetUpAgrees, At
  <2>4. ClientsAgree'
    <3>1. \A d \in Clients : d # c => pending'[d] = pending[d]
      BY <1>0, <2>1 DEF SslTypeOK
    <3>. HIDE DEF c
    <3>. QED BY <1>0, <1>1, <1>2, <2>1, <3>1, IocpAssumption DEF ClientsAgree
  <2>5. PacketsAgree'
    <3>1. \A i \in DOMAIN packets[one] :
             packets[one][i][1] \in Clients \cup {NULL} /\ packets[one][i][1] # c
      BY <1>0, <1>1 DEF SslTypeOK, NoPacket
    <3>. QED BY <1>0, <1>2, <2>1, <3>1 DEF PacketsAgree, SslTypeOK
  <2>6. CompletionAgrees'
    BY <1>0, <1>2, <2>1 DEF CompletionAgrees, Working
  <2>7. OneSession'
    BY <1>0, <1>1, <1>2, <2>1 DEF OneSession, Active, Under, NoPacket, SslTypeOK
  <2>. QED BY <2>2, <2>3, <2>4, <2>5, <2>6, <2>7 DEF SslInv
<1>6. CASE RearmFails(one) /\ UNCHANGED sslVars
  <2>1. /\ comp[one] = "rearm" /\ comp' = [comp EXCEPT ![one] = "clearLast"]
        /\ comp'[one] = "clearLast"
        /\ sock' = [sock EXCEPT ![c] = IF @ = "open" THEN "closed" ELSE @]
        /\ UNCHANGED <<pending, bio, plain>>
    BY <1>0, <1>6 DEF RearmFails, CloseClient, SslTypeOK
  <2>2. /\ sock[c] \notin {"off", "queued"} /\ sock'[c] \in {"closed", "lost"}
        /\ \A d \in Clients : d # c => sock'[d] = sock[d]
    BY <1>0, <1>1, <2>1 DEF SslTypeOK, ClientsAgree
  <2>3. SslTypeOK'
    BY <1>0, <1>2, <2>1 DEF SslTypeOK
  <2>4. PortAgrees' /\ ClientsAgree' /\ PacketsAgree'
    BY <1>0, <1>2, <2>1, <2>2 DEF PortAgrees, ClientsAgree, PacketsAgree
  <2>5. srv[one] = "post" => arg[one] # c
    BY <1>0, <1>1, IocpAssumption DEF SetUpAgrees, At
  <2>6. SetUpAgrees'
    BY <1>0, <1>2, <2>1, <2>2, <2>5 DEF SetUpAgrees, At
  <2>7. CompletionAgrees'
    BY <1>0, <1>1, <1>2, <2>1, <2>2 DEF CompletionAgrees, Working, NoPacket
  <2>8. OneSession'
    BY <1>0, <1>1, <1>2, <2>1, <2>2 DEF OneSession, Active, Under, NoPacket
  <2>. QED BY <2>3, <2>4, <2>6, <2>7, <2>8 DEF SslInv
<1>. QED BY <1>4, <1>5, <1>6

\* The thread finds its port closed, or lets a client go.
LEMMA EndSteps ==
    ASSUME NEW one \in Runs, Runs = {one}, SslInv, UNCHANGED sslVars,
           Abandoned(one) \/ ClearClient(one)
    PROVE  SslInv'
<1>. USE DEF outside, statics, server, listeners, handler, winsock, clients, session,
             sslVars, ports
<1>0. /\ SslTypeOK /\ PortAgrees /\ SetUpAgrees /\ ClientsAgree /\ PacketsAgree
      /\ CompletionAgrees /\ OneSession
  BY DEF SslInv
<1>. DEFINE c == cctx[one]
<1>1. UNCHANGED <<g_hcp, g_sSocket, srv, arg, hcp, packets, cport, at, pending, chunks>>
  BY DEF Abandoned, ClearClient, ForgetSocket, DropContext
<1>2. c # NULL => c \in Clients /\ at[c] = one /\ ctx[c] = "live"
  BY <1>0 DEF SslTypeOK, CompletionAgrees
<1>3. srv[one] = "post" => arg[one] # c
  BY <1>0, <1>2, IocpAssumption DEF SetUpAgrees, At
<1>4. CASE Abandoned(one)
  <2>1. comp[one] = "get" /\ hcp[one] = "closed" /\ UNCHANGED <<cctx, ctx>>
    BY <1>0, <1>4 DEF Abandoned, PortAgrees
  <2>2. srv[one] \in Past
    BY <1>0, <2>1 DEF PortAgrees, SslTypeOK, Early
  <2>3. \/ c = NULL /\ comp' = [comp EXCEPT ![one] = "done"] /\ comp'[one] = "done"
           /\ UNCHANGED sock
        \/ /\ c # NULL /\ comp' = [comp EXCEPT ![one] = "clearLast"] /\ comp'[one] = "clearLast"
           /\ sock' = [sock EXCEPT ![c] = IF @ = "open" THEN "closed" ELSE @]
    BY <1>0, <1>4 DEF Abandoned, CloseClient, SslTypeOK
  <2>4. /\ sock' \in [Clients -> {"off", "queued", "open", "closed", "lost"}]
        /\ c # NULL => sock[c] \notin {"off", "queued"} /\ sock'[c] \in {"closed", "lost"}
        /\ \A d \in Clients : d # c => sock'[d] = sock[d]
    <3>1. sock \in [Clients -> {"off", "queued", "open", "closed", "lost"}]
      BY <1>0 DEF SslTypeOK
    <3>2. c # NULL => sock[c] \notin {"off", "queued"}
      BY <1>0, <1>2 DEF ClientsAgree
    <3>. HIDE DEF c
    <3>. QED BY <1>2, <2>3, <3>1, <3>2
  <2>5. SslTypeOK'
    BY <1>0, <1>1, <2>1, <2>3, <2>4 DEF SslTypeOK
  <2>6. PortAgrees' /\ PacketsAgree'
    BY <1>0, <1>1, <2>1, <2>3 DEF PortAgrees, PacketsAgree
  <2>7. ClientsAgree' /\ SetUpAgrees'
    BY <1>0, <1>1, <1>3, <2>1, <2>4, IocpAssumption DEF ClientsAgree, SetUpAgrees, At
  <2>8. CompletionAgrees'
    BY <1>0, <1>1, <2>1, <2>3, <2>4 DEF CompletionAgrees, Working
  <2>9. OneSession'
    BY <1>0, <1>1, <2>1, <2>2, <2>3 DEF OneSession, Active, Under, NoPacket
  <2>. QED BY <2>5, <2>6, <2>7, <2>8, <2>9 DEF SslInv
<1>5. CASE ClearClient(one)
  <2>1. /\ comp[one] \in {"clear", "clearLast"} /\ UNCHANGED sock
        /\ ctx' = [ctx EXCEPT ![c] = "freed"]
        /\ cctx' = [cctx EXCEPT ![one] = NULL] /\ cctx'[one] = NULL
        /\ \/ comp' = [comp EXCEPT ![one] = "get"] /\ comp'[one] = "get"
           \/ comp' = [comp EXCEPT ![one] = "done"] /\ comp'[one] = "done"
    BY <1>0, <1>5 DEF ClearClient, DropContext, SslTypeOK
  <2>2. /\ c \in Clients /\ c # NULL /\ sock[c] \in {"closed", "lost"}
        /\ hcp[one] # "closed" => ~pending[c] /\ NoPacket(one, c)
    BY <1>0, <1>2, <2>1 DEF CompletionAgrees, Working
  <2>3. ctx'[c] = "freed" /\ \A d \in Clients : d # c => ctx'[d] = ctx[d]
    BY <1>0, <2>1, <2>2 DEF SslTypeOK
  <2>4. SslTypeOK'
    BY <1>0, <1>1, <2>1, <2>2 DEF SslTypeOK
  <2>5. PortAgrees' /\ SetUpAgrees'
    BY <1>0, <1>1, <1>3, <2>1, <2>3 DEF PortAgrees, SetUpAgrees, At
  <2>6. ClientsAgree'
    BY <1>0, <1>1, <1>2, <2>1, <2>2, <2>3 DEF ClientsAgree
  <2>7. PacketsAgree'
    <3>1. \A i \in DOMAIN packets[one] :
             /\ packets[one][i][1] \in Clients \cup {NULL}
             /\ hcp[one] = "open" => packets[one][i][1] # c
      BY <1>0, <2>2 DEF SslTypeOK, NoPacket
    <3>. QED BY <1>0, <1>1, <2>1, <2>3, <3>1 DEF PacketsAgree
  <2>8. CompletionAgrees'
    BY <1>0, <1>1, <2>1 DEF CompletionAgrees, Working
  <2>9. OneSession'
    BY <1>0, <1>1, <2>1 DEF OneSession, Active, Under, NoPacket
  <2>. QED BY <2>4, <2>5, <2>6, <2>7, <2>8, <2>9 DEF SslInv
<1>. QED BY <1>4, <1>5
-----------------------------------------------------------------------------
(* The network.                                                            *)

LEMMA NetworkSteps ==
    ASSUME NEW one \in Runs, Runs = {one}, SslInv, NEW c \in Clients,
           \/ PeerConnects(c) \/ PeerActs(c) \/ PeerLeaves(c)
           \/ \E kind \in {"data", "end", "error"} : Receives(c, kind)
    PROVE  SslInv'
<1>. USE DEF outside, statics, server, listeners, handler, winsock, clients, session,
             sslVars, ports, completion
<1>0. /\ SslTypeOK /\ PortAgrees /\ SetUpAgrees /\ ClientsAgree /\ PacketsAgree
      /\ CompletionAgrees /\ OneSession
  BY DEF SslInv
<1>1. c # NULL /\ one # NULL
  BY IocpAssumption
<1>2. CASE PeerConnects(c)
  <2>1. /\ sock[c] = "off" /\ sock' = [sock EXCEPT ![c] = "queued"]
        /\ at' = [at EXCEPT ![c] = one]
        /\ UNCHANGED <<g_hcp, g_sSocket, srv, arg, hcp, packets, comp, cport, cctx,
                       pending, ctx, chunks,
                       sslVars>>
    BY <1>2 DEF PeerConnects, Connect
  <2>2. ctx[c] = "none" /\ ses[c] = "none" /\ ~pending[c]
    BY <1>0, <2>1 DEF ClientsAgree, SslTypeOK
  <2>3. cctx[one] # c /\ NoPacket(one, c)
    BY <1>0, <1>1, <2>2 DEF CompletionAgrees, PacketsAgree, NoPacket
  <2>4. /\ sock'[c] = "queued" /\ at'[c] = one
        /\ \A d \in Clients : d # c => sock'[d] = sock[d] /\ at'[d] = at[d]
    BY <1>0, <2>1 DEF SslTypeOK
  <2>5. SslTypeOK'
    BY <1>0, <2>1 DEF SslTypeOK, Handles
  <2>6. PortAgrees' /\ ClientsAgree'
    BY <1>0, <2>1, <2>2, <2>4 DEF PortAgrees, ClientsAgree
  <2>7. SetUpAgrees'
    BY <1>0, <2>1, <2>4 DEF SetUpAgrees, At
  <2>8. PacketsAgree'
    <3>1. \A i \in DOMAIN packets[one] :
             packets[one][i][1] \in Clients \cup {NULL} /\ packets[one][i][1] # c
      BY <1>0, <2>3 DEF SslTypeOK, NoPacket
    <3>. QED BY <1>0, <2>1, <2>4, <3>1 DEF PacketsAgree
  <2>9. CompletionAgrees'
    BY <1>0, <2>1, <2>3, <2>4 DEF CompletionAgrees, Working, NoPacket, SslTypeOK
  <2>10. OneSession'
    BY <1>0, <2>1, <2>2, <2>3, <2>4 DEF OneSession, Active, Under, NoPacket
  <2>. QED BY <2>5, <2>6, <2>7, <2>8, <2>9, <2>10 DEF SslInv
<1>3. CASE PeerActs(c) \/ PeerLeaves(c)
  <2>1. UNCHANGED <<iocpVars, session, plain, neat, overlapped>>
    BY <1>3 DEF PeerActs, PeerLeaves
  <2>. QED BY <2>1 DEF SslInv, SslTypeOK, PortAgrees, SetUpAgrees, ClientsAgree,
                       PacketsAgree, At, CompletionAgrees, OneSession, Active, Under,
                       Working, NoPacket, iocpVars
<1>4. ASSUME NEW kind \in {"data", "end", "error"}, Receives(c, kind) PROVE SslInv'
  <2>1. /\ pending[c] /\ at[c] = one /\ hcp[one] = "open"
        /\ pending' = [pending EXCEPT ![c] = FALSE]
        /\ packets' = [packets EXCEPT ![one] = Append(packets[one], <<c, kind>>)]
        /\ UNCHANGED <<g_hcp, g_sSocket, srv, arg, hcp, comp, cport, cctx, sock, at, ctx,
                       chunks,
                       sslVars>>
    <3>1. at[c] = one
      BY <1>0, <1>4 DEF Receives, RecvEnds, SslTypeOK, Handles
    <3>. QED BY <1>0, <1>4, <3>1 DEF Receives, RecvEnds, SslTypeOK
  <2>2. ctx[c] = "live"
    BY <1>0, <2>1 DEF ClientsAgree
  <2>3. NoPacket(one, c) /\ (Working(one) => cctx[one] # c)
    BY <1>0, <1>1, <2>1 DEF PacketsAgree, CompletionAgrees, NoPacket
  <2>. DEFINE K == (Clients \cup {NULL}) \X {"data", "end", "error", "quit"}
              P == packets[one]
  <2>4. P \in Seq(K) /\ <<c, kind>> \in K /\ packets \in [Runs -> Seq(K)]
    BY <1>0 DEF SslTypeOK
  <2>5. packets' \in [Runs -> Seq(K)] /\ packets'[one] = Append(P, <<c, kind>>)
    BY <2>1, <2>4, AppendProperties
  <2>6. /\ \A i \in DOMAIN packets'[one] :
              \/ i \in DOMAIN P /\ packets'[one][i] = P[i]
              \/ i = Len(P) + 1 /\ packets'[one][i] = <<c, kind>>
        /\ \A d \in Clients : d # c /\ NoPacket(one, d) => NoPacket(one, d)'
    <3>1. \A i \in DOMAIN packets'[one] :
              \/ i \in DOMAIN P /\ packets'[one][i] = P[i]
              \/ i = Len(P) + 1 /\ packets'[one][i] = <<c, kind>>
      BY <2>4, <2>5, AppendProperties
    <3>. HIDE DEF P, K
    <3>2. \A d \in Clients : d # c /\ NoPacket(one, d) => NoPacket(one, d)'
      BY <3>1 DEF NoPacket, P
    <3>. QED BY <3>1, <3>2
  <2>7. pending' \in [Clients -> BOOLEAN] /\ ~pending'[c]
        /\ \A d \in Clients : d # c => pending'[d] = pending[d]
    BY <1>0, <2>1 DEF SslTypeOK
  <2>8. SslTypeOK'
    BY <1>0, <2>1, <2>5, <2>7 DEF SslTypeOK
  <2>. HIDE DEF P, K
  <2>9. PortAgrees' /\ SetUpAgrees' /\ ClientsAgree'
    BY <1>0, <2>1, <2>7 DEF PortAgrees, SetUpAgrees, ClientsAgree, At
  <2>10. PacketsAgree'
    <3>1. \A i \in DOMAIN P : P[i][1] \in Clients \cup {NULL} /\ P[i][1] # c
      BY <1>0, <2>3 DEF SslTypeOK, NoPacket, P
    <3>2. \A i \in DOMAIN packets'[one] :
              \/ i \in DOMAIN P /\ packets'[one][i] = P[i]
              \/ i = Len(P) + 1 /\ packets'[one][i][1] = c /\ packets'[one][i][2] = kind
      BY <2>6
    <3>3. \A i \in DOMAIN packets'[one] :
             LET d == packets'[one][i][1]
                 word == packets'[one][i][2]
             IN  /\ d = NULL <=> word = "quit"
                 /\ d # NULL => /\ at[d] = one /\ ctx[d] # "none" /\ ~pending'[d]
                                /\ hcp[one] = "open" => ctx[d] = "live"
      BY <1>0, <1>1, <2>1, <2>2, <2>7, <3>1, <3>2 DEF PacketsAgree, P
    <3>4. \A i, j \in DOMAIN packets'[one] :
             packets'[one][i][1] = packets'[one][j][1] /\ packets'[one][i][1] # NULL => i = j
      BY <1>0, <3>1, <3>2 DEF PacketsAgree, P
    <3>. QED BY <2>1, <3>3, <3>4 DEF PacketsAgree
  <2>11. CompletionAgrees'
    BY <1>0, <2>1, <2>3, <2>6, <2>7 DEF CompletionAgrees, Working, SslTypeOK
  <2>12. OneSession'
    BY <1>0, <2>1, <2>6, <2>7 DEF OneSession, Active, Under
  <2>. QED BY <2>8, <2>9, <2>10, <2>11, <2>12 DEF SslInv
<1>. QED BY <1>2, <1>3, <1>4
-----------------------------------------------------------------------------
(* The server.                                                             *)

LEMMA Step ==
    ASSUME NEW one \in Runs, Runs = {one}, SslInv, [Next]_vars
    PROVE  SslInv'
<1>1. CASE UNCHANGED vars
  BY <1>1 DEF SslInv, SslTypeOK, PortAgrees, SetUpAgrees, ClientsAgree, PacketsAgree, At,
              vars, sslVars, CompletionAgrees, OneSession, Active, Under, Working, NoPacket,
              iocpVars
<1>2. CASE Main \/ MainReturns(one) \/ MakeContext(one) \/ Calls(one) \/ Waits(one) \/ Fault(one)
           \/ ReadySocket(one)
  BY <1>2, ElsewhereSteps
<1>3. CASE StartWorkers(one) \/ StopServer(one)
  BY <1>3, ElsewhereSteps, PortSteps DEF StartWorkers, StopServer
<1>4. CASE SslNew(one) \/ SetFd(one) \/ SslAccept(one) \/ Arms(one)
  BY <1>4, SessionSteps, ArmSteps
<1>5. CASE \E c \in Clients : Takes(one, c) \/ TakesNone(one, c)
  BY <1>5, TakeSteps
<1>6. CASE CompletionRuns(one) \/ SslReadWaits(one)
  BY <1>6, PacketSteps, WorkSteps, EndSteps DEF CompletionRuns, RearmsOrStops, ClientEnds
<1>7. CASE \E c \in Clients :
              \/ PeerConnects(c) \/ PeerActs(c) \/ PeerLeaves(c)
              \/ \E kind \in {"data", "end", "error"} : Receives(c, kind)
  BY <1>7, NetworkSteps
<1>. QED BY <1>1, <1>2, <1>3, <1>4, <1>5, <1>6, <1>7 DEF Next, AcceptThread

\* With the one run main starts, the port, the packets and the sessions agree
\* with one another in every state.
THEOREM Inductive ==
    ASSUME NEW one \in Runs, Runs = {one}
    PROVE  Spec => []SslInv
<1>1. Init => SslInv
  <2>. SUFFICES ASSUME Init PROVE SslInv
    OBVIOUS
  <2>. USE DEF Init, IocpInit
  <2>1. SslTypeOK
    <3>1. packets \in [Runs -> Seq((Clients \cup {NULL}) \X {"data", "end", "error", "quit"})]
      OBVIOUS
    <3>. QED BY <3>1 DEF SslTypeOK, Handles, Early
  <2>2. PortAgrees /\ SetUpAgrees /\ ClientsAgree /\ PacketsAgree
    BY DEF PortAgrees, SetUpAgrees, ClientsAgree, PacketsAgree, Open, At
  <2>3. CompletionAgrees /\ OneSession
    BY DEF CompletionAgrees, OneSession, Active, Under, Working, NoPacket
  <2>. QED BY <2>1, <2>2, <2>3 DEF SslInv
<1>2. SslInv /\ [Next]_vars => SslInv'
  BY Step
<1>. QED BY <1>1, <1>2, PTL DEF Spec

\* With one connection at a time every packet that is one short record has been
\* decrypted in its own session (lines 103-105 and 204-208), however the two
\* threads interleave on the global ssl.
THEOREM DecryptedCorrect ==
    ASSUME NEW one \in Runs, Runs = {one}
    PROVE  Spec => []Decrypted
<1>1. SslInv => Decrypted
  <2>. SUFFICES ASSUME SslInv, NEW c \in Clients, ~overlapped, neat[c], ses[c] # "failed",
                       cctx[one] = c => comp[one] \notin {"bio", "read"}
       PROVE  plain[c] = chunks[c]
    BY DEF Decrypted
  <2>. QED BY DEF SslInv, OneSession, Under
<1>. QED BY <1>1, Inductive, PTL

\* A receive is outstanding on a live context only, and the thread works on one,
\* as in the plain server, with the accept thread held up in a handshake too
\* (lines 103-127 and 150-222).
THEOREM ContextCorrect ==
    ASSUME NEW one \in Runs, Runs = {one}
    PROVE  Spec => []ContextSafe
<1>1. SslInv => ContextSafe
  <2>. SUFFICES ASSUME SslInv PROVE ContextSafe
    OBVIOUS
  <2>1. \A r \in Runs : cctx[r] # NULL => ctx[cctx[r]] = "live"
    BY DEF SslInv, CompletionAgrees
  <2>2. \A r \in Runs : \A i \in DOMAIN packets[r] :
           hcp[r] = "open" /\ packets[r][i][1] # NULL => ctx[packets[r][i][1]] = "live"
    BY DEF SslInv, PacketsAgree
  <2>3. \A c \in Clients : pending[c] /\ sock[c] = "open" => ctx[c] = "live"
    BY DEF SslInv, SslTypeOK, ClientsAgree
  <2>. QED BY <2>1, <2>2, <2>3 DEF ContextSafe
<1>. QED BY <1>1, Inductive, PTL
\* A client has one buffer and one OVERLAPPED (lines 36, 108) through the handshake
\* and the decryption: while a WSARecv on it is outstanding, no packet of that
\* client waits in the port and the thread does not work on the packet before.
BufferHeldOnce ==
    \A c \in Clients :
       LET waiting == {w \in UNION {{r} \X DOMAIN packets[r] : r \in Runs} :
                         packets[w[1]][w[2]][1] = c}
           working == {r \in Runs : /\ comp[r] \in {"bio", "read", "rearm", "clear"}
                                    /\ cctx[r] = c}
       IN  (IF pending[c] THEN 1 ELSE 0) + Cardinality(waiting)
             + Cardinality(working) <= 1

\* The buffer of a client is the network's, a packet's or the thread's, overlapping
\* connections included.
THEOREM BufferCorrect ==
    ASSUME NEW one \in Runs, Runs = {one}
    PROVE  Spec => []BufferHeldOnce
<1>1. ASSUME NEW S, \A x, y \in S : x = y
      PROVE  Cardinality(S) \in {0, 1} /\ (S = {} => Cardinality(S) = 0)
  <2>1. CASE S = {}
    BY <2>1, FS_EmptySet
  <2>2. CASE S # {}
    <3>1. PICK x \in S : S = {x}
      BY <1>1, <2>2
    <3>. QED BY <2>2, <3>1, FS_Singleton
  <2>. QED BY <2>1, <2>2
<1>2. SslInv => BufferHeldOnce
  <2>. SUFFICES ASSUME SslInv, NEW c \in Clients
       PROVE  LET waiting == {w \in UNION {{r} \X DOMAIN packets[r] : r \in Runs} :
                                packets[w[1]][w[2]][1] = c}
                  working == {r \in Runs : /\ comp[r] \in {"bio", "read", "rearm", "clear"}
                                           /\ cctx[r] = c}
              IN  (IF pending[c] THEN 1 ELSE 0) + Cardinality(waiting)
                    + Cardinality(working) <= 1
    BY DEF BufferHeldOnce
  <2>. DEFINE waiting == {w \in UNION {{r} \X DOMAIN packets[r] : r \in Runs} :
                            packets[w[1]][w[2]][1] = c}
              working == {r \in Runs : /\ comp[r] \in {"bio", "read", "rearm", "clear"}
                                       /\ cctx[r] = c}
  <2>0. PacketsAgree /\ CompletionAgrees /\ c # NULL
    BY IocpAssumption DEF SslInv
  <2>1. \A w \in waiting : /\ w = <<w[1], w[2]>> /\ w[1] = one /\ w[2] \in DOMAIN packets[one]
                           /\ packets[one][w[2]][1] = c
    OBVIOUS
  <2>2. \A w \in waiting : ~pending[c] /\ ~NoPacket(one, c)
    BY <2>0, <2>1 DEF PacketsAgree, NoPacket
  <2>3. \A v, w \in waiting : v = w
    BY <2>0, <2>1 DEF PacketsAgree
  <2>4. \A r \in working : r = one /\ ~pending[c] /\ NoPacket(one, c)
    BY <2>0 DEF CompletionAgrees, Working
  <2>5. /\ waiting = {} \/ working = {}
        /\ pending[c] => waiting = {} /\ working = {}
    BY <2>2, <2>4
  <2>6. /\ Cardinality(waiting) \in {0, 1} /\ (waiting = {} => Cardinality(waiting) = 0)
        /\ Cardinality(working) \in {0, 1} /\ (working = {} => Cardinality(working) = 0)
    BY <1>1, <2>3, <2>4
  <2>. HIDE DEF waiting, working
  <2>7. (IF pending[c] THEN 1 ELSE 0) + Cardinality(waiting) + Cardinality(working) <= 1
    BY <2>5, <2>6
  <2>. QED BY <2>7 DEF waiting, working
<1>. QED BY <1>2, Inductive, PTL
-----------------------------------------------------------------------------
(* The end of the run.                                                     *)

\* While the run has sockets, Winsock is up and known to be up.
Up == {"socket", "bind", "listen", "port", "threads", "queue", "running", "accept",
       "accepting", "post", "unpost", "quit", "close", "closePort", "cleanup"}

WinsockAgrees ==
    \A r \in Runs :
       /\ srv[r] \in {"unused", "ready"} => ~winsock_init /\ wsa = 0
       /\ At(r, "flag") => wsa = 1
       /\ srv[r] \in Up => winsock_init /\ wsa = 1
       /\ At(r, "stopped") => ~winsock_init
       /\ srv[r] \in {"unflag", "stopped"} =>
             /\ wsa = 0 /\ lsock[r] \in {"none", "closed"}
             /\ \A c \in Clients : sock[c] \notin {"queued", "open"}

\* The accept thread moves on and leaves Winsock as it is.
Onward ==
    {<<"unused", "ready">>, <<"socket", "bind">>, <<"bind", "listen">>, <<"bind", "failed">>,
     <<"listen", "port">>, <<"port", "threads">>, <<"threads", "queue">>,
     <<"queue", "running">>, <<"running", "accept">>, <<"accept", "accepting">>,
     <<"accepting", "post">>, <<"accepting", "quit">>, <<"post", "accept">>,
     <<"post", "unpost">>, <<"unpost", "quit">>, <<"quit", "close">>,
     <<"close", "closePort">>, <<"closePort", "cleanup">>}

LEMMA OnwardSteps ==
    ASSUME NEW one \in Runs, Runs = {one}, SslInv, WinsockAgrees, UNCHANGED winsock,
           NEW from, NEW to, <<from, to>> \in Onward \/ to = "done",
           srv[one] = from, srv' = [srv EXCEPT ![one] = to]
    PROVE  WinsockAgrees'
<1>1. srv'[one] = to
  BY DEF SslInv, SslTypeOK
<1>2. to \notin {"unused", "flag", "unflag", "stopped"}
  BY DEF Onward
<1>3. to = "ready" => from = "unused"
  BY DEF Onward
<1>4. to \in Up => from \in Up
  BY DEF Onward, Up
<1>. QED BY <1>1, <1>2, <1>3, <1>4 DEF WinsockAgrees, winsock, At

\* No action but those of the accept thread touches Winsock, and no socket is
\* queued but at a port that listens.
LEMMA QuietSteps ==
    ASSUME NEW one \in Runs, Runs = {one}, SslInv, WinsockAgrees,
           UNCHANGED <<winsock, srv, lsock>>,
           \A c \in Clients : sock'[c] \in {sock[c], "closed"} \/ lsock[one] = "listening"
    PROVE  WinsockAgrees'
BY DEF WinsockAgrees, winsock, At

LEMMA WinsockStep ==
    ASSUME NEW one \in Runs, Runs = {one}, SslInv, WinsockAgrees, [Next]_vars
    PROVE  WinsockAgrees'
<1>. USE DEF world, completion, handler, server, outside, listeners, statics, ports,
         clients, winsock, Moves, GoTo, At
<1>0. /\ sock \in [Clients -> {"off", "queued", "open", "closed", "lost"}]
      /\ srv \in [Runs -> Early \cup Open \cup Past]
  BY DEF SslInv, SslTypeOK
<1>1. CASE UNCHANGED vars
  BY <1>1 DEF WinsockAgrees, vars, iocpVars
<1>2. CASE \/ Main \/ StartWorkers(one) \/ MakeContext(one) \/ MainReturns(one) \/ Calls(one)
           \/ MakeSocket(one) \/ Bind(one) \/ Listen(one) \/ Arms(one) \/ Fault(one)
           \/ ForgetClient(one) \/ Quit(one) \/ CloseListener(one) \/ ClosePort(one)
           \/ \E c \in Clients : Takes(one, c) \/ TakesNone(one, c)
  <2>1. \E to : /\ <<srv[one], to>> \in Onward \/ to = "done"
                /\ srv' = [srv EXCEPT ![one] = to]
    BY <1>2 DEF Onward, Main, Start, StartWorkers, MakePort, StartThreads, MakeQueue,
                MakeContext, MainReturns, Calls, AcceptCall, MakeSocket, Bind, Listen, Arms,
                PostRecv, PostRecvFails, Fault, ForgetClient, Quit, CloseListener, ClosePort,
                Takes, Accepted, TakesNone
  <2>2. UNCHANGED winsock
    BY <1>2 DEF Main, Start, StartWorkers, MakePort, StartThreads, MakeQueue,
                MakeContext, MainReturns, Calls, AcceptCall, MakeSocket, Bind, Listen, Arms,
                PostRecv, PostRecvFails, Fault, ForgetClient, Quit, CloseListener, ClosePort,
                Takes, Accepted, TakesNone
  <2>. QED BY <2>1, <2>2, OnwardSteps
<1>3. CASE Startup(one)
  BY <1>0, <1>3 DEF Startup, WinsockAgrees, Up
<1>4. CASE Flag(one)
  BY <1>0, <1>4 DEF Flag, WinsockAgrees, Up
<1>5. CASE Cleanup(one)
  <2>1. /\ winsock_init /\ wsa = 1 /\ srv[one] = "cleanup"
        /\ srv' = [srv EXCEPT ![one] = "unflag"] /\ srv'[one] = "unflag"
        /\ wsa' = 0 /\ UNCHANGED winsock_init
        /\ lsock' = [l \in Runs |-> IF lsock[l] = "none" THEN "none" ELSE "closed"]
        /\ sock' = [c \in Clients |-> IF sock[c] \in {"queued", "open"} THEN "lost" ELSE sock[c]]
    BY <1>0, <1>5 DEF Cleanup, WinsockAgrees, Up
  <2>2. lsock'[one] \in {"none", "closed"} /\ \A c \in Clients : sock'[c] \notin {"queued", "open"}
    BY <2>1
  <2>. QED BY <2>1, <2>2 DEF WinsockAgrees, Up
<1>6. CASE Unflag(one)
  BY <1>0, <1>6 DEF Unflag, WinsockAgrees, Up
<1>7. CASE SslNew(one) \/ SetFd(one) \/ SslAccept(one) \/ Waits(one) \/ SslReadWaits(one)
           \/ CompletionRuns(one)
  <2>1. UNCHANGED <<winsock, srv, lsock>>
    BY <1>7 DEF SslNew, SetFd, SslAccept, Waits, HandlerCalls, SslReadWaits, CompletionRuns,
                GetsData, SetBio, SslRead, RearmsOrStops, Rearm, RearmFails, Abandoned,
                ClientEnds, GotEnd, GotError, GotQuit, ClearClient, iocpVars
  <2>2. \A c \in Clients : sock'[c] \in {sock[c], "closed"}
    BY <1>0, <1>7
       DEF SslNew, SetFd, SslAccept, Waits, HandlerCalls, SslReadWaits, CompletionRuns,
           GetsData, SetBio, SslRead, RearmsOrStops, Rearm, RearmFails, Abandoned,
           ClientEnds, GotEnd, GotError, GotQuit, ClearClient, CloseClient, iocpVars
  <2>. QED BY <2>1, <2>2, QuietSteps
<1>8. CASE \E c \in Clients :
              \/ PeerConnects(c) \/ PeerActs(c) \/ PeerLeaves(c)
              \/ \E kind \in {"data", "end", "error"} : Receives(c, kind)
  <2>1. UNCHANGED <<winsock, srv, lsock>>
    BY <1>8 DEF PeerConnects, Connect, PeerActs, PeerLeaves, Receives, RecvEnds, iocpVars
  <2>2. \A c \in Clients : sock'[c] \in {sock[c], "closed"} \/ lsock[one] = "listening"
    BY <1>0, <1>8 DEF PeerConnects, Connect, PeerActs, PeerLeaves, Receives, RecvEnds, iocpVars
  <2>. QED BY <2>1, <2>2, QuietSteps
<1>. QED BY <1>1, <1>2, <1>3, <1>4, <1>5, <1>6, <1>7, <1>8
         DEF Next, AcceptThread, ReadySocket, StopServer

\* What the plain server promises of its end holds of the SSL server as well: when
\* its run has stopped (line 136), Winsock is down and known to be down, and no
\* socket of the process is left, those of clients still connected included.
THEOREM StopCorrect ==
    ASSUME NEW one \in Runs, Runs = {one}
    PROVE  Spec => []StopLeavesNothing
<1>1. Init => WinsockAgrees
  BY DEF Init, IocpInit, WinsockAgrees, Up, At
<1>2. SslInv /\ WinsockAgrees /\ [Next]_vars => WinsockAgrees'
  BY WinsockStep
<1>3. WinsockAgrees => StopLeavesNothing
  BY DEF WinsockAgrees, StopLeavesNothing, At
<1>. QED BY <1>1, <1>2, <1>3, Inductive, PTL DEF Spec
=============================================================================
