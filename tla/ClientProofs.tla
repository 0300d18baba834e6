----------------------------- MODULE ClientProofs -----------------------------
(***************************************************************************)
(* What a connection leaves behind, for any number of connections, receive *)
(* threads and messages.                                                   *)
(*                                                                         *)
(* Until a socket is made while a receive thread lives there is at most    *)
(* one receive thread, and none while the window's thread connects.  What  *)
(* the flags, the button, the sockets, Winsock and the display say then    *)
(* follows from where these two threads are.                               *)
(***************************************************************************)
EXTENDS Client, TLAPS

\* Where a receive thread is until it clears `connected`, until it tells the
\* window, and until it relabels the button.
Serving == {"watch", "select", "recv", "receiving", "check", "display", "send",
            "count", "clean"}
Linked == Serving \cup {"close", "tellDown"}
Labelled == Linked \cup {"told", "labelDown"}

\* Where the window's thread works on a connection not yet made, or given up.
Connecting == {"block", "connect", "await", "unblock", "flagUp", "tellUp"}
Displaying == {"display", "send", "count"}
Asking == {"startup", "flag", "socket"}

NoReceiver == \A r \in Receivers : ~Alive(r)

OneReceiver == \A r, s \in Receivers : Alive(r) /\ Alive(s) => r = s

WindowAgrees ==
    /\ pc[Window] \in Connecting => NoReceiver /\ Open(client_fd)
    /\ pc[Window] \in Displaying => NoReceiver
    /\ At(Window, "told") /\ gui_connected => NoReceiver
    /\ pc[Window] \in Asking => ~gui_connected
    /\ back[Window] = IF pc[Window] \in Displaying THEN "clean" ELSE "loop"

ReceiversAgree ==
    \A r \in Receivers :
       /\ pc[r] \in {"none"} \cup Labelled \cup {"winsock", "cleanup", "unflag"}
       /\ IF pc[r] \in Displaying THEN back[r] \in {"watch", "clean"}
                                  ELSE back[r] = "winsock"
       /\ At(r, "told") => ~gui_connected

\* A flag or a label that says "connected" has a thread that will take it back.
FlagsAgree ==
    /\ connected => \/ At(Window, "tellUp") \/ (At(Window, "told") /\ gui_connected)
                    \/ \E r \in Receivers : pc[r] \in Serving
    /\ gui_connected => \/ At(Window, "told")
                        \/ \E r \in Receivers : pc[r] \in Linked
    /\ label = "disconnect" \/ At(Window, "labelUp") =>
          \E r \in Receivers : pc[r] \in Labelled

\* So does an open socket.
SocketsAgree ==
    /\ \A c \in Conns : Open(c) =>
          /\ c = client_fd
          /\ \/ gui_connected
             \/ /\ pc[Window] \in Connecting \cup Displaying \cup {"clean", "close"}
                /\ NoReceiver
    /\ \A t \in Threads : At(t, "tellDown") => \A c \in Conns : ~Open(c)

WinsockAgrees ==
    /\ pc[Window] \in {"startup", "flag"} =>
          ~gwinsock_init /\ \A r \in Receivers : pc[r] \notin {"cleanup", "unflag"}
    /\ \A r \in Receivers : pc[r] \in {"cleanup", "unflag"} => gwinsock_init
    /\ wsa = IF \/ At(Window, "flag")
                \/ gwinsock_init /\ \A r \in Receivers : ~At(r, "unflag")
             THEN 1 ELSE 0

\* The mutex is held by the thread that displays, and the counter lags behind
\* the text only between that thread's two steps and the two of clearing.
DisplayAgrees ==
    /\ \A t \in Threads : g_mutex = t <=> pc[t] \in {"send", "count"}
    /\ IF At(Window, "clear") THEN shown = 0
       ELSE shown = g_display_count + IF \E t \in Threads : At(t, "count") THEN 1 ELSE 0

Agrees ==
    /\ OneReceiver /\ WindowAgrees /\ ReceiversAgree /\ FlagsAgree
    /\ SocketsAgree /\ WinsockAgrees /\ DisplayAgrees

\* A socket for the window's thread to make.
SocketLeft == pc[Window] \in Asking => \E c \in Conns : sock[c] = "none"

IInv == TypeOK /\ SocketLeft /\ (~overlapped => Agrees)
-----------------------------------------------------------------------------
(* Types.                                                                  *)

LEMMA TypeStep ==
    ASSUME TypeOK, SocketLeft, Next
    PROVE  TypeOK' /\ SocketLeft'
<1>. USE ClientAssumption DEF statics, button, display, net, fds, At, GoTo, CallThen,
                              Return, AfterClean, Threads, Pumps, Handled, Open, Close,
                              Forget, Asking, SocketLeft
<1>1. ASSUME Startup PROVE TypeOK' /\ SocketLeft'
  BY <1>1 DEF TypeOK, Startup
<1>2. ASSUME Flag PROVE TypeOK' /\ SocketLeft'
  BY <1>2 DEF TypeOK, Flag
<1>3. ASSUME MakeSocket PROVE TypeOK' /\ SocketLeft'
  BY <1>3 DEF TypeOK, MakeSocket
<1>4. ASSUME MakeSocketFails PROVE TypeOK' /\ SocketLeft'
  BY <1>4 DEF TypeOK, MakeSocketFails
<1>5. ASSUME SetNonBlocking PROVE TypeOK' /\ SocketLeft'
  BY <1>5 DEF TypeOK, SetNonBlocking
<1>6. ASSUME Connect PROVE TypeOK' /\ SocketLeft'
  BY <1>6 DEF TypeOK, Connect
<1>7. ASSUME Await PROVE TypeOK' /\ SocketLeft'
  BY <1>7 DEF TypeOK, Await
<1>8. ASSUME SetBlocking PROVE TypeOK' /\ SocketLeft'
  BY <1>8 DEF TypeOK, SetBlocking
<1>9. ASSUME FlagUp PROVE TypeOK' /\ SocketLeft'
  BY <1>9 DEF TypeOK, FlagUp
<1>10. ASSUME ClickDisconnect PROVE TypeOK' /\ SocketLeft'
  BY <1>10 DEF TypeOK, ClickDisconnect
<1>11. ASSUME ClickConnect PROVE TypeOK' /\ SocketLeft'
  BY <1>11 DEF TypeOK, ClickConnect
<1>12. ASSUME ClickClear PROVE TypeOK' /\ SocketLeft'
  BY <1>12 DEF TypeOK, ClickClear
<1>13. ASSUME CloseWindow PROVE TypeOK' /\ SocketLeft'
  BY <1>13 DEF TypeOK, CloseWindow
<1>14. ASSUME ClearCount PROVE TypeOK' /\ SocketLeft'
  BY <1>14 DEF TypeOK, ClearCount, ResetCount, GetsMutex, HeldUp, Overwritten
<1>15. ASSUME NEW t \in Threads, CleanFlag(t) PROVE TypeOK' /\ SocketLeft'
  BY <1>15 DEF TypeOK, CleanFlag
<1>16. ASSUME NEW t \in Threads, CleanClose(t) PROVE TypeOK' /\ SocketLeft'
  BY <1>16 DEF TypeOK, CleanClose
<1>17. ASSUME NEW t \in Threads, Tell(t) PROVE TypeOK' /\ SocketLeft'
  BY <1>17 DEF TypeOK, Tell
<1>18. ASSUME NEW t \in Threads, TellDown(t) PROVE TypeOK' /\ SocketLeft'
  BY <1>18 DEF TypeOK, TellDown
<1>19. ASSUME NEW t \in Threads, StartReceive(t) PROVE TypeOK' /\ SocketLeft'
  BY <1>19 DEF TypeOK, StartReceive
<1>20. ASSUME NEW t \in Threads, Relabel(t) PROVE TypeOK' /\ SocketLeft'
  BY <1>20 DEF TypeOK, Relabel
<1>21. ASSUME NEW t \in Threads, DisplayWait(t) PROVE TypeOK' /\ SocketLeft'
  BY <1>21 DEF TypeOK, DisplayWait, GetsMutex, HeldUp
<1>22. ASSUME NEW t \in Threads, DisplaySend(t) PROVE TypeOK' /\ SocketLeft'
  BY <1>22 DEF TypeOK, DisplaySend
<1>23. ASSUME NEW t \in Threads, DisplayCount(t) PROVE TypeOK' /\ SocketLeft'
  BY <1>23 DEF TypeOK, DisplayCount, Overwritten
<1>24. ASSUME NEW r \in Receivers, Watch(r) PROVE TypeOK' /\ SocketLeft'
  BY <1>24 DEF TypeOK, Watch
<1>25. ASSUME NEW r \in Receivers, SelectReady(r) PROVE TypeOK' /\ SocketLeft'
  BY <1>25 DEF TypeOK, SelectReady
<1>26. ASSUME NEW r \in Receivers, SelectFails(r) PROVE TypeOK' /\ SocketLeft'
  BY <1>26 DEF TypeOK, SelectFails
<1>27. ASSUME NEW r \in Receivers, SelectTimesOut(r) PROVE TypeOK' /\ SocketLeft'
  BY <1>27 DEF TypeOK, SelectTimesOut
<1>28. ASSUME NEW r \in Receivers, RecvCall(r) PROVE TypeOK' /\ SocketLeft'
  BY <1>28 DEF TypeOK, RecvCall
<1>29. ASSUME NEW r \in Receivers, RecvData(r) PROVE TypeOK' /\ SocketLeft'
  BY <1>29 DEF TypeOK, RecvData
<1>30. ASSUME NEW r \in Receivers, RecvEnds(r) PROVE TypeOK' /\ SocketLeft'
  BY <1>30 DEF TypeOK, RecvEnds
<1>31. ASSUME NEW r \in Receivers, Check(r) PROVE TypeOK' /\ SocketLeft'
  BY <1>31 DEF TypeOK, Check
<1>32. ASSUME NEW r \in Receivers, TestFlag(r) PROVE TypeOK' /\ SocketLeft'
  BY <1>32 DEF TypeOK, TestFlag
<1>33. ASSUME NEW r \in Receivers, Cleanup(r) PROVE TypeOK' /\ SocketLeft'
  BY <1>33 DEF TypeOK, Cleanup
<1>34. ASSUME NEW r \in Receivers, Unflag(r) PROVE TypeOK' /\ SocketLeft'
  BY <1>34 DEF TypeOK, Unflag
<1>35. ASSUME NEW c \in Conns, PeerAccepts(c) PROVE TypeOK' /\ SocketLeft'
  BY <1>35 DEF TypeOK, PeerAccepts
<1>36. ASSUME NEW c \in Conns, PeerSends(c) PROVE TypeOK' /\ SocketLeft'
  BY <1>36 DEF TypeOK, PeerSends
<1>37. ASSUME NEW c \in Conns, PeerCloses(c) PROVE TypeOK' /\ SocketLeft'
  BY <1>37 DEF TypeOK, PeerCloses
<1>38. ASSUME ClickSend \/ WriteFails \/ WriteEnds PROVE TypeOK' /\ SocketLeft'
  BY <1>38 DEF TypeOK, ClickSend, WriteFails, WriteEnds
<1>. QED BY <1>1, <1>2, <1>3, <1>4, <1>5, <1>6, <1>7, <1>8, <1>9, <1>10, <1>11, <1>12,
            <1>13, <1>14, <1>15, <1>16, <1>17, <1>18, <1>19, <1>20, <1>21, <1>22, <1>23,
            <1>24, <1>25, <1>26, <1>27, <1>28, <1>29, <1>30, <1>31, <1>32, <1>33, <1>34,
            <1>35, <1>36, <1>37, <1>38 DEF Next, User, WindowRuns, ReadySocket, ReceiverRuns,
                                    Receives, Clean, OnStatChanged, Display, Peer
-----------------------------------------------------------------------------
(* The window's thread.                                                    *)

LEMMA WindowSteps ==
    ASSUME IInv, ~overlapped', ReadySocket \/ User \/ WriteFails \/ WriteEnds \/ ClearCount
    PROVE  Agrees'
<1>. USE ClientAssumption DEF statics, button, display, net, fds, At, GoTo, CallThen,
                              Return, AfterClean, Threads, Pumps, Handled, Open, Close,
                              Forget, Alive, NoReceiver, Serving, Linked, Labelled,
                              Connecting, Displaying, Asking, OneReceiver, WindowAgrees,
                              ReceiversAgree, FlagsAgree, SocketsAgree, WinsockAgrees,
                              DisplayAgrees
<1>0. TypeOK /\ SocketLeft /\ (~overlapped => Agrees)
  BY DEF IInv
<1>1. ASSUME Startup PROVE Agrees'
  BY <1>0, <1>1 DEF TypeOK, Agrees, Startup
<1>2. ASSUME Flag PROVE Agrees'
  BY <1>0, <1>2 DEF TypeOK, Agrees, Flag
<1>3. ASSUME MakeSocket PROVE Agrees'
  <2>1. OneReceiver'
    BY <1>0, <1>3 DEF TypeOK, Agrees, MakeSocket
  <2>0. pc[Window] = "socket" /\ \E c \in Conns : sock[c] = "none"
    BY <1>0, <1>3 DEF SocketLeft, MakeSocket
  <2>8. client_fd' \in Conns /\ sock' = [sock EXCEPT ![client_fd'] = "made"]
    BY <1>3, <2>0 DEF MakeSocket
  <2>9. /\ NoReceiver /\ pc' = [pc EXCEPT ![Window] = "block"] /\ UNCHANGED back
        /\ back[Window] = "loop"
    BY <1>0, <1>3, <2>0 DEF TypeOK, Agrees, MakeSocket
  <2>2. WindowAgrees'
    BY <1>0, <2>8, <2>9 DEF TypeOK
  <2>3. ReceiversAgree'
    BY <1>0, <1>3 DEF TypeOK, Agrees, MakeSocket
  <2>4. FlagsAgree'
    BY <1>0, <1>3 DEF TypeOK, Agrees, MakeSocket
  <2>5. SocketsAgree'
    BY <1>0, <1>3 DEF TypeOK, Agrees, MakeSocket
  <2>6. WinsockAgrees'
    BY <1>0, <1>3 DEF TypeOK, Agrees, MakeSocket
  <2>7. DisplayAgrees'
    BY <1>0, <1>3 DEF TypeOK, Agrees, MakeSocket
  <2>. QED BY <2>1, <2>2, <2>3, <2>4, <2>5, <2>6, <2>7 DEF Agrees
<1>4. ASSUME MakeSocketFails PROVE Agrees'
  BY <1>0, <1>4 DEF TypeOK, Agrees, MakeSocketFails
<1>5. ASSUME SetNonBlocking PROVE Agrees'
  BY <1>0, <1>5 DEF TypeOK, Agrees, SetNonBlocking
<1>6. ASSUME Connect PROVE Agrees'
  BY <1>0, <1>6 DEF TypeOK, Agrees, Connect
<1>7. ASSUME Await PROVE Agrees'
  BY <1>0, <1>7 DEF TypeOK, Agrees, Await
<1>8. ASSUME SetBlocking PROVE Agrees'
  BY <1>0, <1>8 DEF TypeOK, Agrees, SetBlocking
<1>9. ASSUME FlagUp PROVE Agrees'
  BY <1>0, <1>9 DEF TypeOK, Agrees, FlagUp
<1>10. ASSUME ClickDisconnect PROVE Agrees'
  BY <1>0, <1>10 DEF TypeOK, Agrees, ClickDisconnect
<1>11. ASSUME ClickConnect PROVE Agrees'
  BY <1>0, <1>11 DEF TypeOK, Agrees, ClickConnect
<1>12. ASSUME ClickClear PROVE Agrees'
  BY <1>0, <1>12 DEF TypeOK, Agrees, ClickClear
<1>13. ASSUME CloseWindow PROVE Agrees'
  BY <1>0, <1>13 DEF TypeOK, Agrees, CloseWindow
<1>14. ASSUME ClearCount PROVE Agrees'
  BY <1>0, <1>14 DEF TypeOK, Agrees, ClearCount, ResetCount, GetsMutex, HeldUp, Overwritten
<1>15. ASSUME ClickSend \/ WriteFails \/ WriteEnds PROVE Agrees'
  BY <1>0, <1>15 DEF TypeOK, Agrees, ClickSend, WriteFails, WriteEnds
<1>. QED BY <1>1, <1>2, <1>3, <1>4, <1>5, <1>6, <1>7, <1>8, <1>9, <1>10, <1>11, <1>12,
            <1>13, <1>14, <1>15 DEF ReadySocket, User
-----------------------------------------------------------------------------
(* mysocket_clean and DisplayMessage, in either kind of thread.            *)

LEMMA ThreadSteps ==
    ASSUME IInv, ~overlapped', NEW t \in Threads,
           Clean(t) \/ OnStatChanged(t) \/ Display(t)
    PROVE  Agrees'
<1>. USE ClientAssumption DEF statics, button, display, net, fds, At, GoTo, CallThen,
                              Return, AfterClean, Threads, Pumps, Handled, Open, Close,
                              Forget, Alive, NoReceiver, Serving, Linked, Labelled,
                              Connecting, Displaying, Asking, OneReceiver, WindowAgrees,
                              ReceiversAgree, FlagsAgree, SocketsAgree, WinsockAgrees,
                              DisplayAgrees
<1>0. TypeOK /\ SocketLeft /\ (~overlapped => Agrees)
  BY DEF IInv
<1>1. ASSUME CleanFlag(t) PROVE Agrees'
  BY <1>0, <1>1 DEF TypeOK, Agrees, CleanFlag
<1>2. ASSUME CleanClose(t) PROVE Agrees'
  BY <1>0, <1>2 DEF TypeOK, Agrees, CleanClose
<1>3. ASSUME Tell(t) PROVE Agrees'
  <2>1. OneReceiver'
    BY <1>0, <1>3 DEF TypeOK, Agrees, Tell
  <2>2. WindowAgrees'
    BY <1>0, <1>3 DEF TypeOK, Agrees, Tell
  <2>3. ReceiversAgree'
    BY <1>0, <1>3 DEF TypeOK, Agrees, Tell
  <2>4. FlagsAgree'
    BY <1>0, <1>3 DEF TypeOK, Agrees, Tell
  <2>5. SocketsAgree'
    BY <1>0, <1>3, ZenonT(60) DEF TypeOK, Agrees, Tell
  <2>6. WinsockAgrees'
    BY <1>0, <1>3 DEF TypeOK, Agrees, Tell
  <2>7. DisplayAgrees'
    BY <1>0, <1>3 DEF TypeOK, Agrees, Tell
  <2>. QED BY <2>1, <2>2, <2>3, <2>4, <2>5, <2>6, <2>7 DEF Agrees
<1>4. ASSUME TellDown(t) PROVE Agrees'
  BY <1>0, <1>4 DEF TypeOK, Agrees, TellDown
<1>5. ASSUME StartReceive(t) PROVE Agrees'
  BY <1>0, <1>5, ZenonT(60) DEF TypeOK, Agrees, StartReceive
<1>6. ASSUME Relabel(t) PROVE Agrees'
  BY <1>0, <1>6 DEF TypeOK, Agrees, Relabel
<1>7. ASSUME DisplayWait(t) PROVE Agrees'
  BY <1>0, <1>7 DEF TypeOK, Agrees, DisplayWait, GetsMutex, HeldUp
<1>8. ASSUME DisplaySend(t) PROVE Agrees'
  BY <1>0, <1>8 DEF TypeOK, Agrees, DisplaySend
<1>9. ASSUME DisplayCount(t) PROVE Agrees'
  BY <1>0, <1>9 DEF TypeOK, Agrees, DisplayCount, Overwritten
<1>. QED BY <1>1, <1>2, <1>3, <1>4, <1>5, <1>6, <1>7, <1>8, <1>9
            DEF Clean, OnStatChanged, Display
-----------------------------------------------------------------------------
(* waitReceive.                                                            *)

LEMMA ReceiverSteps ==
    ASSUME IInv, ~overlapped', NEW r \in Receivers,
           Receives(r) \/ SelectTimesOut(r)
    PROVE  Agrees'
<1>. USE ClientAssumption DEF statics, button, display, net, fds, At, GoTo, CallThen,
                              Return, AfterClean, Threads, Pumps, Handled, Open, Close,
                              Forget, Alive, NoReceiver, Serving, Linked, Labelled,
                              Connecting, Displaying, Asking, OneReceiver, WindowAgrees,
                              ReceiversAgree, FlagsAgree, SocketsAgree, WinsockAgrees,
                              DisplayAgrees
<1>0. TypeOK /\ SocketLeft /\ (~overlapped => Agrees)
  BY DEF IInv
<1>1. ASSUME Watch(r) PROVE Agrees'
  BY <1>0, <1>1 DEF TypeOK, Agrees, Watch
<1>2. ASSUME SelectReady(r) PROVE Agrees'
  BY <1>0, <1>2 DEF TypeOK, Agrees, SelectReady
<1>3. ASSUME SelectFails(r) PROVE Agrees'
  BY <1>0, <1>3 DEF TypeOK, Agrees, SelectFails
<1>4. ASSUME SelectTimesOut(r) PROVE Agrees'
  BY <1>0, <1>4 DEF TypeOK, Agrees, SelectTimesOut
<1>5. ASSUME RecvCall(r) PROVE Agrees'
  BY <1>0, <1>5 DEF TypeOK, Agrees, RecvCall
<1>6. ASSUME RecvData(r) PROVE Agrees'
  BY <1>0, <1>6 DEF TypeOK, Agrees, RecvData
<1>7. ASSUME RecvEnds(r) PROVE Agrees'
  BY <1>0, <1>7 DEF TypeOK, Agrees, RecvEnds
<1>8. ASSUME Check(r) PROVE Agrees'
  BY <1>0, <1>8 DEF TypeOK, Agrees, Check
<1>9. ASSUME TestFlag(r) PROVE Agrees'
  BY <1>0, <1>9 DEF TypeOK, Agrees, TestFlag
<1>10. ASSUME Cleanup(r) PROVE Agrees'
  BY <1>0, <1>10 DEF TypeOK, Agrees, Cleanup
<1>11. ASSUME Unflag(r) PROVE Agrees'
  BY <1>0, <1>11 DEF TypeOK, Agrees, Unflag
<1>. QED BY <1>1, <1>2, <1>3, <1>4, <1>5, <1>6, <1>7, <1>8, <1>9, <1>10, <1>11 DEF Receives
-----------------------------------------------------------------------------
(* The peers.                                                              *)

LEMMA PeerSteps ==
    ASSUME IInv, ~overlapped', NEW c \in Conns, Peer(c)
    PROVE  Agrees'
<1>. USE ClientAssumption DEF statics, button, display, net, fds, At, GoTo, CallThen,
                              Return, AfterClean, Threads, Pumps, Handled, Open, Close,
                              Forget, Alive, NoReceiver, Serving, Linked, Labelled,
                              Connecting, Displaying, Asking, OneReceiver, WindowAgrees,
                              ReceiversAgree, FlagsAgree, SocketsAgree, WinsockAgrees,
                              DisplayAgrees
<1>0. TypeOK /\ SocketLeft /\ (~overlapped => Agrees)
  BY DEF IInv
<1>1. ASSUME PeerAccepts(c) PROVE Agrees'
  BY <1>0, <1>1 DEF TypeOK, Agrees, PeerAccepts
<1>2. ASSUME PeerSends(c) PROVE Agrees'
  BY <1>0, <1>2 DEF TypeOK, Agrees, PeerSends
<1>3. ASSUME PeerCloses(c) PROVE Agrees'
  BY <1>0, <1>3 DEF TypeOK, Agrees, PeerCloses
<1>. QED BY <1>1, <1>2, <1>3 DEF Peer
-----------------------------------------------------------------------------
(* The theorems.                                                           *)

\* Types, and, as long as no socket was made beside a living receive thread,
\* what the flags, the button, the sockets, Winsock and the display have to do
\* with where the two threads are.
THEOREM Inductive == Spec => []IInv
<1>1. Init => IInv
  <2>. SUFFICES ASSUME Init PROVE IInv
    OBVIOUS
  <2>1. TypeOK /\ SocketLeft
    <3>1. sent \in 0 .. MaxChunks /\ inbox \in [Conns -> Nat] /\ Window \in Threads
      BY ClientAssumption DEF ClientAssumption, Init, Threads
    <3>2. /\ pc \in [Threads -> {"loop", "none"}] /\ pc[Window] = "loop"
          /\ back \in [Threads -> {"loop", "winsock"}]
      BY <3>1 DEF Init, AfterClean
    <3>3. TypeOK
      BY <3>1, <3>2 DEF Init, TypeOK
    <3>. QED BY <3>2, <3>3 DEF SocketLeft, Asking
  <2>2. Agrees
    BY ClientAssumption DEF Init, Agrees, OneReceiver, WindowAgrees, ReceiversAgree,
                            FlagsAgree, SocketsAgree, WinsockAgrees, DisplayAgrees, Alive,
                            NoReceiver, Connecting, Displaying, Asking, Serving, Linked,
                            Labelled, At, AfterClean, Threads, Open
  <2>. QED BY <2>1, <2>2 DEF IInv
<1>2. IInv /\ [Next]_vars => IInv'
  <2>1. ASSUME IInv, Next, ~overlapped' PROVE Agrees'
    <3>1. CASE ReadySocket \/ User \/ WriteFails \/ WriteEnds \/ ClearCount
      BY <2>1, <3>1, WindowSteps
    <3>2. ASSUME NEW t \in Threads, Clean(t) \/ OnStatChanged(t) \/ Display(t) PROVE Agrees'
      BY <2>1, <3>2, ThreadSteps
    <3>3. ASSUME NEW r \in Receivers, Receives(r) \/ SelectTimesOut(r) PROVE Agrees'
      BY <2>1, <3>3, ReceiverSteps
    <3>4. ASSUME NEW c \in Conns, Peer(c) PROVE Agrees'
      BY <2>1, <3>4, PeerSteps
    <3>. QED BY <2>1, <3>1, <3>2, <3>3, <3>4 DEF Next, WindowRuns, ReceiverRuns, Threads
  <2>2. ASSUME IInv, Next PROVE IInv'
    BY <2>1, <2>2, TypeStep DEF IInv
  <2>3. ASSUME IInv, UNCHANGED vars PROVE IInv'
    BY <2>3 DEF IInv, vars, TypeOK, SocketLeft, Agrees, OneReceiver, WindowAgrees,
           ReceiversAgree, FlagsAgree, SocketsAgree, WinsockAgrees, DisplayAgrees, Alive,
           NoReceiver, Open, At
  <2>. QED BY <2>2, <2>3
<1>. QED BY <1>1, <1>2, PTL DEF Spec

\* A connection that ended leaves neither flag, label, socket nor Winsock as
\* they were while it lived (mysocket_clean, waitReceive, ReadySocket).
THEOREM NothingLeftCorrect == Spec => []NothingLeft
<1>1. IInv => NothingLeft
  <2>. SUFFICES ASSUME IInv, Quiet, ~overlapped
       PROVE  /\ ~connected /\ ~gui_connected /\ label = "connect"
              /\ \A c \in Conns : ~Open(c)
              /\ wsa = IF gwinsock_init THEN 1 ELSE 0
    BY DEF NothingLeft
  <2>1. TypeOK /\ Agrees
    BY DEF IInv
  <2>2. pc[Window] = "loop" /\ \A r \in Receivers : pc[r] = "none"
    BY DEF Quiet, Pumps, Alive
  <2>3. ~connected /\ ~gui_connected /\ label = "connect"
    BY <2>1, <2>2 DEF TypeOK, Agrees, FlagsAgree, Labelled, Linked, Serving, At
  <2>4. \A c \in Conns : ~Open(c)
    BY <2>1, <2>2, <2>3 DEF Agrees, SocketsAgree, Connecting, Displaying
  <2>5. wsa = IF gwinsock_init THEN 1 ELSE 0
    BY <2>1, <2>2 DEF Agrees, WinsockAgrees, At
  <2>. QED BY <2>3, <2>4, <2>5
<1>. QED BY <1>1, Inductive, PTL

\* The counter is the end of the text whenever both threads are at rest, however
\* displaying and clearing overlapped before (DisplayMessage, ClearDisplayArea).
THEOREM CountCorrect == Spec => []CountIsEnd
<1>1. IInv => CountIsEnd
  <2>. SUFFICES ASSUME IInv, Quiet, ~overlapped
       PROVE  g_display_count = shown
    BY DEF CountIsEnd
  <2>1. TypeOK /\ DisplayAgrees
    BY DEF IInv, Agrees
  <2>2. pc[Window] = "loop" /\ \A t \in Threads : pc[t] # "count"
    BY DEF Quiet, Pumps, Alive, Threads
  <2>. QED BY <2>1, <2>2 DEF TypeOK, DisplayAgrees, At
<1>. QED BY <1>1, Inductive, PTL
==============================================================================
