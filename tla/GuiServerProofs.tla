---------------------------- MODULE GuiServerProofs ----------------------------
(***************************************************************************)
(* The button, for any number of runs that may overlap; that the GUI server*)
(* is an IocpServer as long as they do not, whose theorems then hold of it;*)
(* and that what one run displays is in order.                             *)
(***************************************************************************)
EXTENDS GuiServer, IocpServerProofs

\* Of two chunks of one connection the first was received before.
Before(d, e) == d[1] = e[1] => d[2] < e[2]

\* What is in the receive area, in the hands of the handler thread and in the
\* queue was received in this order, and nothing of it was not received.
DataOrdered ==
    /\ ReceivedInOrder
    /\ \A i \in DOMAIN text : text[i][2] <= chunks[text[i][1]]
    /\ \A r \in Runs :
          /\ \A i, j \in DOMAIN queue[r] : i < j => Before(queue[r][i], queue[r][j])
          /\ \A j \in DOMAIN queue[r] :
                /\ queue[r][j][2] <= chunks[queue[r][j][1]]
                /\ \A i \in DOMAIN text : Before(text[i], queue[r][j])
          /\ hnd[r] = "show" =>
                /\ hold[r] \in Chunks /\ hold[r][2] <= chunks[hold[r][1]]
                /\ \A j \in DOMAIN queue[r] : Before(hold[r], queue[r][j])
                /\ msg[r] # "shown" => \A i \in DOMAIN text : Before(text[i], hold[r])

\* The place of insertion is the end of the text.
AtEnd ==
    /\ Len(text) <= g_recv_count
    /\ gui = "clear" => text = << >>
    /\ \A r \in Runs : /\ msg[r] = "replace" => caret = Len(text)
                       /\ msg[r] # "out" => hnd[r] = "show"
                       /\ srv[r] \in Early \cup {"threads"} => hnd[r] = "none"

\* TypeOK but for what IocpServer declares.
WindowTypeOK ==
    /\ state \in {"stopped", "running", "error"} /\ label \in {"start", "stop"}
    /\ gui \in {"loop", "clean", "clear", "write", "send", "gone"}
    /\ sendTo \in Clients \cup {NULL}
    /\ lock \in Runs \cup {Nobody}
    /\ text \in Seq(Chunks)
    /\ g_recv_count \in Nat /\ caret \in 0 .. Len(text)
    /\ msg \in [Runs -> {"out", "select", "replace", "shown"}]

OrderInv == WindowTypeOK /\ DataOrdered /\ AtEnd

\* A click on "Send": what it does to the server is left to Winsock.
Sends == ClickSend \/ SendCalls \/ SendFails \/ SendReturns
-----------------------------------------------------------------------------
(* The button, for any number of runs that may overlap.                    *)

Places == {"accept", "accepting", "post", "unpost", "quit", "close", "closePort",
           "cleanup", "unflag", "stopped"}

\* The thread of r has reported success and not yet the end.
Behind(r) == srv[r] \in Places \/ (At(r, "telling") /\ arg[r] = "stopped")

\* The runs are those of Runs, and one of them is behind the label.
Shape == srv = [r \in Runs |-> srv[r]] /\ arg = [r \in Runs |-> arg[r]]
LabelInv == Shape /\ (label = "stop" => \E r \in Runs : Behind(r))

\* The run behind the label stays behind it until it reports its end, and the
\* button then says "start" (lines 42-56 and 119-139).
LEMMA LabelInductive == Spec => []LabelInv
<1>. USE DEF LabelInv, Shape, Behind
<1>1. Init => LabelInv
  BY DEF Init, IocpInit
<1>2. LabelInv /\ [Next]_vars => LabelInv'
  <2>. USE DEF At, GoTo, Moves, world, outside, winsock, statics, server, listeners, ports,
           completion, handler, clients, guiVars, Places
\* A step of one thread, told by what it does to where the threads of runs are.
  <2>1. ASSUME LabelInv, UNCHANGED <<srv, arg, label>> PROVE LabelInv'
    BY <2>1
  <2>2. ASSUME LabelInv, NEW r \in Runs, NEW place, NEW what,
               srv' = [srv EXCEPT ![r] = place], arg' = [arg EXCEPT ![r] = what],
               Behind(r) => place \in Places \/ (place = "telling" /\ what = "stopped"),
               UNCHANGED label
        PROVE  LabelInv'
    <3>1. /\ Shape' /\ srv'[r] = place /\ arg'[r] = what
          /\ \A s \in Runs : s # r => srv'[s] = srv[s] /\ arg'[s] = arg[s]
      BY <2>2
    <3>. QED BY <2>2, <3>1
  <2>3. ASSUME LabelInv, NEW r \in Runs, NEW p \in TcpPorts, Start(r, p), UNCHANGED label
        PROVE  LabelInv'
    BY <2>3, <2>2 DEF Start
  <2>4. ASSUME LabelInv, NEW r \in Runs, SetUp(r), UNCHANGED label PROVE LabelInv'
    BY <2>4
       DEF SetUp, Startup, Flag, MakeSocket, Bind, Listen, MakePort, StartThreads, MakeQueue
  <2>5. ASSUME LabelInv, NEW r \in Runs, AcceptLoop(r), UNCHANGED label PROVE LabelInv'
    BY <2>5 DEF AcceptLoop, AcceptCall, Accepted, AcceptFails, PostRecv, PostRecvFails,
                ForgetClient
  <2>6. ASSUME LabelInv, NEW r \in Runs, WindDown(r), UNCHANGED label PROVE LabelInv'
    BY <2>6 DEF WindDown, Quit, CloseListener, ClosePort, Cleanup, Unflag
  <2>7. ASSUME LabelInv, NEW r \in Runs, CallBack(r), UNCHANGED label PROVE LabelInv'
    BY <2>7 DEF CallBack, Told
  <2>8. ASSUME LabelInv, NEW r \in Runs, CallBackReturns(r), Relabels(r) PROVE LabelInv'
    BY <2>8 DEF CallBackReturns, Relabels
  <2>9. ASSUME LabelInv, \/ ClickStop \/ StopReturns \/ ClickClear \/ ClearReturns
                         \/ Sends \/ CloseWindow \/ \E r \in Runs : DisplayMessage(r)
        PROVE  LabelInv'
    <3>1. UNCHANGED <<srv, arg, label>>
      BY <2>9 DEF ClickStop, StopReturns, ClickClear, ClearReturns, CloseWindow,
                  Sends, ClickSend, SendCalls, SendFails, SendReturns, SendLeaves, CleanCloses,
                  CleanForgets, DisplayMessage, DisplayEnters, DisplaySelects, DisplayReplaces,
                  DisplayReturns, HandlerFrees, iocpVars
    <3>. QED BY <2>1, <2>9, <3>1
  <2>10. ASSUME LabelInv, UNCHANGED guiVars,
                \/ Network
                \/ \E r \in Runs : CompletionThread(r) \/ HandlerCalls(r) \/ HandlerTakes(r)
         PROVE  LabelInv'
    <3>1. UNCHANGED <<srv, arg, label>>
      BY <2>10 DEF Network, Connect, RecvEnds, CompletionThread, GotData, Rearm, RearmFails,
           GotEnd, GotError, ClearClient, GotQuit, Abandoned, HandlerCalls, HandlerTakes
    <3>. QED BY <2>1, <2>10, <3>1, SMTT(60)
  <2>11. ASSUME LabelInv, Internal, UNCHANGED guiVars PROVE LabelInv'
    BY <2>4, <2>5, <2>6, <2>10, <2>11 DEF Internal
  <2>12. ASSUME LabelInv, ClickStart PROVE LabelInv'
    BY <2>3, <2>12 DEF ClickStart
  <2>13. ASSUME LabelInv, NEW r \in Runs, OnStatChanged(r) \/ StatChangedReturns(r)
         PROVE  LabelInv'
    BY <2>7, <2>8, <2>13 DEF OnStatChanged, StatChangedReturns
  <2>14. ASSUME LabelInv, UNCHANGED vars PROVE LabelInv'
    BY <2>1, <2>14 DEF vars, iocpVars
  <2>. HIDE DEF LabelInv
  <2>. QED BY <2>9, <2>11, <2>12, <2>13, <2>14 DEF Next, Sends
<1>. QED BY <1>1, <1>2, PTL DEF Spec

\* There is a run behind the label "stop", also when runs overlap.
THEOREM LabelCorrect == Spec => []RunBehindLabel
<1>1. LabelInv => RunBehindLabel
  BY DEF LabelInv, Behind, RunBehindLabel, Places
<1>. QED BY <1>1, LabelInductive, PTL
-----------------------------------------------------------------------------
(* Runs one after the other: the GUI server is an IocpServer.              *)

Cleans == cleaning => gui = "clean"

\* mysocket_clean is not left by the window's thread before it has ended.
LEMMA CleansCorrect == Spec => []Cleans
<1>1. Init => Cleans
  BY DEF Init, IocpInit, Cleans
<1>2. Cleans /\ [Next]_vars => Cleans'
  <2>. SUFFICES ASSUME Cleans, [Next]_vars PROVE Cleans'
    OBVIOUS
  <2>1. ASSUME ClickStop \/ StopReturns PROVE Cleans'
    BY <2>1 DEF Cleans, ClickStop, StopReturns, CleanForgets
  <2>2. ASSUME ClickStart \/ ClickClear \/ ClearReturns \/ Sends \/ CloseWindow PROVE Cleans'
    BY <2>2 DEF Cleans, ClickStart, ClickClear, ClearReturns, Sends, ClickSend, SendCalls,
         SendFails, SendReturns, SendLeaves, CloseWindow, Pumps, Start, world, iocpVars,
         guiVars
  <2>3. ASSUME Internal /\ UNCHANGED guiVars PROVE Cleans'
    <3>1. ASSUME NEW r \in Runs, SetUp(r) \/ WindDown(r) PROVE UNCHANGED cleaning
      BY <3>1 DEF SetUp, Startup, Flag, MakeSocket, Bind, Listen, MakePort, StartThreads,
                  MakeQueue, WindDown, Quit, CloseListener, ClosePort, Cleanup, Unflag,
                  world, outside
    <3>2. ASSUME NEW r \in Runs, AcceptLoop(r) PROVE UNCHANGED cleaning
      BY <3>2 DEF AcceptLoop, AcceptCall, Accepted, AcceptFails, PostRecv, PostRecvFails,
                  ForgetClient, world, outside
    <3>3. ASSUME NEW r \in Runs, CompletionThread(r) PROVE UNCHANGED cleaning
      BY <3>3 DEF CompletionThread, GotData, Rearm, RearmFails, GotEnd, GotError,
                  ClearClient, GotQuit, Abandoned, outside
    <3>4. ASSUME NEW r \in Runs, HandlerCalls(r) \/ HandlerTakes(r) PROVE UNCHANGED cleaning
      BY <3>4 DEF HandlerCalls, HandlerTakes
    <3>5. ASSUME Network PROVE UNCHANGED cleaning
      BY <3>5 DEF Network, Connect, RecvEnds, world, outside
    <3>6. UNCHANGED cleaning
      BY <2>3, <3>1, <3>2, <3>3, <3>4, <3>5 DEF Internal
    <3>. QED BY <2>3, <3>6, SMTT(60) DEF Cleans, guiVars
  <2>4. ASSUME NEW r \in Runs, OnStatChanged(r) \/ StatChangedReturns(r) \/ DisplayMessage(r)
        PROVE  Cleans'
    BY <2>4 DEF Cleans, OnStatChanged, StatChangedReturns, CallBack, CallBackReturns,
         DisplayMessage, DisplayEnters, DisplaySelects, DisplayReplaces, DisplayReturns,
         HandlerFrees, world, iocpVars
  <2>5. ASSUME UNCHANGED vars PROVE Cleans'
    BY <2>5 DEF Cleans, vars, iocpVars, guiVars
  <2>. QED BY <2>1, <2>2, <2>3, <2>4, <2>5 DEF Next, Sends
<1>. QED BY <1>1, <1>2, PTL DEF Spec

\* As long as no click on "start" comes while a run still goes on, the window
\* and its callbacks are a caller that IocpServer allows: it starts one run at
\* a time, and does not start one while it is in mysocket_clean.
THEOREM ImplementsIocp == Spec /\ []OneRun => IocpSpec
<1>1. Init => IocpInit
  BY DEF Init
<1>2. LabelInv /\ Cleans /\ OneRun' /\ [Next]_vars => [IocpNext]_iocpVars
  <2>. SUFFICES ASSUME LabelInv, Cleans, OneRun', [Next]_vars PROVE [IocpNext]_iocpVars
    OBVIOUS
  <2>1. ASSUME ClickStart PROVE IocpNext
    <3>1. PICK r \in Runs, p \in TcpPorts : ~cleaning /\ Start(r, p)
      BY <2>1 DEF ClickStart, Cleans, Pumps
    <3>2. /\ srv[r] = "unused" /\ srv'[r] = "ready"
          /\ \A s \in Runs : s # r => srv'[s] = srv[s]
      BY <3>1 DEF Start, Moves, At, GoTo, LabelInv, Shape
    <3>3. \A s \in Runs : srv[s] \in {"unused", "done"}
      BY <3>2 DEF OneRun, Idle
    <3>. QED BY <3>1, <3>3 DEF IocpNext
  <2>2. ASSUME ClickStop \/ StopReturns PROVE IocpNext
    BY <2>2 DEF ClickStop, StopReturns, IocpNext
  <2>3. ASSUME ClickClear \/ ClearReturns \/ Sends \/ CloseWindow PROVE UNCHANGED iocpVars
    BY <2>3 DEF ClickClear, ClearReturns, Sends, ClickSend, SendCalls, SendFails, SendReturns,
                SendLeaves, CloseWindow
  <2>4. ASSUME NEW r \in Runs, OnStatChanged(r) \/ StatChangedReturns(r) PROVE IocpNext
    BY <2>4 DEF OnStatChanged, StatChangedReturns, IocpNext
  <2>5. ASSUME NEW r \in Runs, DisplayMessage(r) PROVE IocpNext \/ UNCHANGED iocpVars
    BY <2>5 DEF DisplayMessage, DisplayEnters, DisplaySelects, DisplayReplaces,
                DisplayReturns, IocpNext
  <2>6. ASSUME Internal PROVE IocpNext
    BY <2>6 DEF IocpNext
  <2>7. ASSUME UNCHANGED vars PROVE UNCHANGED iocpVars
    BY <2>7 DEF vars
  <2>. QED BY <2>1, <2>2, <2>3, <2>4, <2>5, <2>6, <2>7 DEF Next, Sends
<1>. QED BY <1>1, <1>2, LabelInductive, CleansCorrect, PTL DEF Spec, IocpSpec

\* What holds of every caller of the server holds of this one.
THEOREM GuiServerSafe ==
    Spec /\ []OneRun =>
       [](StopLeavesNothing /\ WriteTarget /\ ContextSafe /\ ReceiveBuffer)
BY ImplementsIocp, StopCorrect, WriteCorrect, ContextCorrect, BufferCorrect, PTL
-----------------------------------------------------------------------------
(* One run: what is displayed is in order.                                 *)

\* What the invariant is about, but for srv.
shown == <<text, g_recv_count, caret, msg, gui, queue, chunks, hold, hnd>>

\* A step elsewhere that does not go back to where threads are started.
LEMMA ShownUnchanged ==
    ASSUME NEW one \in Runs, Runs = {one}, DataOrdered, AtEnd, UNCHANGED shown,
           srv'[one] \in Early \cup {"threads"} => srv[one] \in Early \cup {"threads"}
    PROVE  DataOrdered' /\ AtEnd'
<1>1. DataOrdered'
  BY DEF shown, DataOrdered, ReceivedInOrder, Before
<1>2. AtEnd'
  BY DEF shown, AtEnd
<1>. QED BY <1>1, <1>2

\* Where the thread in startIocpServer goes.
LEMMA NotBackToStart ==
    ASSUME IocpTypeOK, NEW r \in Runs,
           \/ SetUp(r) \/ AcceptLoop(r) \/ WindDown(r) \/ CallBack(r) \/ CallBackReturns(r)
           \/ \E p \in TcpPorts : Start(r, p)
    PROVE  srv'[r] \in Early \cup {"threads"} => srv[r] \in Early
<1>. USE DEF IocpTypeOK, Early, Moves, GoTo, At
<1>1. ASSUME NEW p \in TcpPorts, Start(r, p) PROVE srv[r] \in Early
  BY <1>1 DEF Start
<1>2. ASSUME SetUp(r), srv'[r] \in Early \cup {"threads"} PROVE srv[r] \in Early
  BY <1>2
     DEF SetUp, Startup, Flag, MakeSocket, Bind, Listen, MakePort, StartThreads, MakeQueue
<1>3. ASSUME AcceptLoop(r) PROVE srv'[r] \notin Early \cup {"threads"}
  BY <1>3 DEF AcceptLoop, AcceptCall, Accepted, AcceptFails, PostRecv, PostRecvFails,
              ForgetClient
<1>4. ASSUME WindDown(r) PROVE srv'[r] \notin Early \cup {"threads"}
  BY <1>4 DEF WindDown, Quit, CloseListener, ClosePort, Cleanup, Unflag
<1>5. ASSUME CallBack(r) \/ CallBackReturns(r) PROVE srv'[r] \notin Early \cup {"threads"}
  BY <1>5 DEF CallBack, CallBackReturns
<1>. QED BY <1>1, <1>2, <1>3, <1>4, <1>5

\* The window's thread.
LEMMA WindowKeepsOrder ==
    ASSUME NEW one \in Runs, Runs = {one}, IInv, OrderInv,
           \/ ClickStart \/ ClickStop \/ StopReturns \/ ClickClear \/ ClearReturns
           \/ Sends \/ CloseWindow
    PROVE  OrderInv'
<1>. USE DEF area, handler, completion, clients, server, guiVars, OrderInv
<1>0. IocpTypeOK /\ WindowTypeOK /\ DataOrdered /\ AtEnd
  BY DEF IInv
<1>1. CASE ClickStart
  <2>1. /\ UNCHANGED guiVars /\ UNCHANGED shown
        /\ \E p \in TcpPorts : Start(one, p)
    BY <1>1 DEF ClickStart, Start, world, shown
  <2>2. srv'[one] \in Early \cup {"threads"} => srv[one] \in Early
    BY <1>0, <2>1, NotBackToStart
  <2>. QED BY <1>0, <2>1, <2>2, ShownUnchanged DEF WindowTypeOK
<1>2. CASE ClickStop \/ StopReturns \/ Sends \/ CloseWindow
  <2>1. /\ UNCHANGED <<state, label, lock, text, g_recv_count, caret, msg>>
        /\ UNCHANGED <<queue, chunks, hold, hnd, srv>>
        /\ gui' \in {"clean", "loop", "write", "send", "gone"}
        /\ sendTo' \in {sendTo, NULL, g_cSocket}
    BY <1>2 DEF ClickStop, StopReturns, Sends, ClickSend, SendCalls, SendFails, SendReturns,
                SendLeaves, CloseWindow, CleanCloses, CleanForgets, iocpVars
  <2>2. WindowTypeOK' /\ AtEnd'
    BY <1>0, <2>1 DEF WindowTypeOK, AtEnd, IocpTypeOK
  <2>3. DataOrdered'
    BY <1>0, <2>1 DEF DataOrdered, ReceivedInOrder, Before
  <2>. QED BY <2>2, <2>3
<1>3. CASE ClickClear
  <2>1. /\ text' = << >> /\ caret' = 0 /\ gui' = "clear"
        /\ UNCHANGED <<state, label, sendTo, lock, g_recv_count, msg, queue, chunks, hold,
                       hnd, srv>>
    BY <1>3 DEF ClickClear, EmptyArea, iocpVars
  <2>2. WindowTypeOK' /\ AtEnd'
    BY <1>0, <2>1 DEF WindowTypeOK, AtEnd
  <2>3. DataOrdered'
    BY <1>0, <2>1 DEF DataOrdered, ReceivedInOrder, Before
  <2>. QED BY <2>2, <2>3
<1>4. CASE ClearReturns
  <2>1. /\ gui = "clear" /\ gui' = "loop" /\ g_recv_count' = 0
        /\ UNCHANGED <<state, label, sendTo, lock, text, caret, msg, queue, chunks, hold, hnd,
                       srv>>
    BY <1>4 DEF ClearReturns, iocpVars
  <2>2. Len(text) = 0
    BY <1>0, <2>1 DEF AtEnd
  <2>3. WindowTypeOK' /\ AtEnd'
    BY <1>0, <2>1, <2>2 DEF WindowTypeOK, AtEnd
  <2>4. DataOrdered'
    BY <1>0, <2>1 DEF DataOrdered, ReceivedInOrder, Before
  <2>. QED BY <2>3, <2>4
<1>. QED BY <1>1, <1>2, <1>3, <1>4

\* The threads of the server, between the callbacks.
LEMMA ServerKeepsOrder ==
    ASSUME NEW one \in Runs, Runs = {one}, IInv, OrderInv, Internal, UNCHANGED guiVars
    PROVE  OrderInv'
<1>. USE IocpAssumption DEF handler, completion, server, world, outside, clients, ports,
         guiVars, OrderInv
<1>0. IocpTypeOK /\ HandlerAgrees /\ WindowTypeOK /\ DataOrdered /\ AtEnd
  BY DEF IInv
<1>1. WindowTypeOK'
  BY <1>0 DEF WindowTypeOK
<1>2. CASE StartThreads(one)
  <2>1. /\ srv[one] = "threads" /\ srv'[one] = "queue" /\ hnd'[one] = "call"
        /\ UNCHANGED <<queue, chunks, hold>>
    BY <1>0, <1>2 DEF StartThreads, Moves, GoTo, At, IocpTypeOK
  <2>2. AtEnd'
    BY <1>0, <2>1 DEF AtEnd, Early
  <2>3. DataOrdered'
    BY <1>0, <2>1 DEF DataOrdered, ReceivedInOrder, Before
  <2>. QED BY <1>1, <2>2, <2>3
<1>3. CASE HandlerCalls(one)
  <2>1. /\ hnd[one] = "call" /\ hnd'[one] \in {"wait", "done"}
        /\ UNCHANGED <<srv, queue, chunks>>
    BY <1>0, <1>3 DEF HandlerCalls, IocpTypeOK
  <2>2. AtEnd'
    BY <1>0, <2>1 DEF AtEnd
  <2>3. DataOrdered'
    BY <1>0, <2>1 DEF DataOrdered, ReceivedInOrder, Before
  <2>. QED BY <1>1, <2>2, <2>3
<1>4. CASE HandlerTakes(one)
  <2>. DEFINE Q == queue[one]
  <2>1. /\ hnd[one] = "wait" /\ hnd'[one] = "show" /\ Q # << >> /\ Q \in Seq(Chunks)
        /\ hold'[one] = Head(Q) /\ queue'[one] = Tail(Q)
        /\ UNCHANGED <<srv, chunks>>
    <3>1. hnd[one] = "wait" /\ hold[one] = one
      BY <1>0, <1>4 DEF HandlerTakes, HandlerAgrees
    <3>. QED BY <1>0, <1>4, <3>1 DEF HandlerTakes, IocpTypeOK
  <2>2. /\ hold'[one] = Q[1] /\ 1 \in DOMAIN Q /\ Q[1] \in Chunks
        /\ \A j \in DOMAIN queue'[one] :
              j \in Nat \ {0} /\ j + 1 \in DOMAIN Q /\ queue'[one][j] = Q[j + 1]
    BY <2>1
  <2>3. AtEnd'
    BY <1>0, <2>1 DEF AtEnd
  <2>. HIDE DEF Q
  <2>4. /\ \A i, j \in DOMAIN Q : i < j => Before(Q[i], Q[j])
        /\ \A j \in DOMAIN Q : /\ Q[j][2] <= chunks[Q[j][1]]
                               /\ \A i \in DOMAIN text : Before(text[i], Q[j])
    BY <1>0 DEF DataOrdered, Q
  <2>5. \A i, j \in DOMAIN queue'[one] : i < j => Before(queue'[one][i], queue'[one][j])
    <3>1. \A i, j \in DOMAIN queue'[one] : i < j => i + 1 < j + 1
      BY <2>2
    <3>. QED BY <2>2, <2>4, <3>1
  <2>6. \A j \in DOMAIN queue'[one] :
           /\ queue'[one][j][2] <= chunks[queue'[one][j][1]]
           /\ \A i \in DOMAIN text : Before(text[i], queue'[one][j])
           /\ Before(Q[1], queue'[one][j])
    <3>1. \A j \in DOMAIN queue'[one] : 1 < j + 1
      BY <2>2
    <3>. QED BY <2>2, <2>4, <3>1
  <2>7. DataOrdered'
    <3>1. /\ hold'[one] \in Chunks /\ hold'[one][2] <= chunks'[hold'[one][1]]
          /\ \A j \in DOMAIN queue'[one] : Before(hold'[one], queue'[one][j])
          /\ \A i \in DOMAIN text : Before(text[i], hold'[one])
      BY <2>1, <2>2, <2>4, <2>6
    <3>2. ReceivedInOrder' /\ \A i \in DOMAIN text : text[i][2] <= chunks'[text[i][1]]
      BY <1>0, <2>1 DEF DataOrdered, ReceivedInOrder
    <3>. QED BY <2>1, <2>5, <2>6, <3>1, <3>2 DEF DataOrdered
  <2>. QED BY <1>1, <2>3, <2>7
<1>5. CASE GotData(one)
  <2>. DEFINE c == packets[one][1][1]
              d == <<c, chunks[c] + 1>>
              Q == queue[one]
  <2>1. Packet(one, "data")
    BY <1>5 DEF GotData
  <2>2. cctx' = [cctx EXCEPT ![one] = c] /\ c \in Clients
    BY <2>1, PacketTaken
  <2>3. cctx'[one] = c
    BY <1>0, <2>2 DEF IocpTypeOK
  <2>4. /\ chunks' = [chunks EXCEPT ![c] = chunks[c] + 1]
        /\ queue'[one] = Append(Q, d) \/ queue'[one] = Q
        /\ UNCHANGED <<srv, hnd, hold>>
    BY <1>0, <1>5, <2>3 DEF GotData, IocpTypeOK
  <2>5. AtEnd'
    BY <1>0, <2>4 DEF AtEnd
  <2>6. /\ \A e \in Chunks : e[1] \in Clients /\ e[2] \in Nat
        /\ \A i \in DOMAIN text : text[i] \in Chunks
        /\ Q \in Seq(Chunks) /\ \A i \in DOMAIN Q : Q[i] \in Chunks
        /\ chunks \in [Clients -> Nat]
    <3>1. text \in Seq(Chunks) /\ Q \in Seq(Chunks)
      BY <1>0 DEF WindowTypeOK, IocpTypeOK
    <3>2. /\ \A i \in DOMAIN text : text[i] \in Chunks
          /\ \A i \in DOMAIN Q : Q[i] \in Chunks
      BY <3>1
    <3>3. chunks \in [Clients -> Nat]
      BY <1>0 DEF IocpTypeOK
    <3>4. \A e \in Chunks : e[1] \in Clients /\ e[2] \in Nat
      BY DEF Chunks
    <3>. QED BY <3>1, <3>2, <3>3, <3>4
\* What was received so far was received before d.
  <2>7. ASSUME NEW e \in Chunks, e[2] <= chunks[e[1]]
        PROVE  Before(e, d) /\ e[2] <= chunks'[e[1]]
    <3>1. e[1] \in Clients /\ e[2] \in Nat /\ chunks[c] \in Nat
      BY <2>2, <2>6
    <3>2. CASE e[1] = c
      BY <2>2, <2>4, <2>6, <2>7, <3>1, <3>2 DEF Before
    <3>3. CASE e[1] # c
      BY <2>2, <2>4, <2>6, <2>7, <3>1, <3>3 DEF Before
    <3>. QED BY <3>2, <3>3
  <2>8. d[2] <= chunks'[d[1]]
    BY <2>2, <2>4, <2>6
  <2>. HIDE DEF c, d, Q
  <2>9. \A i \in DOMAIN queue'[one] :
           \/ i \in DOMAIN Q /\ queue'[one][i] = Q[i]
           \/ i = Len(Q) + 1 /\ queue'[one][i] = d
    <3>1. CASE queue'[one] = Append(Q, d)
      <4>1. Len(Q) \in Nat /\ DOMAIN Q = 1 .. Len(Q) /\ DOMAIN queue'[one] = 1 .. Len(Q) + 1
        BY <2>6, <3>1
      <4>2. \A i \in 1 .. Len(Q) + 1 : queue'[one][i] = IF i <= Len(Q) THEN Q[i] ELSE d
        BY <2>6, <3>1
      <4>. QED BY <4>1, <4>2
    <3>. QED BY <2>4, <3>1
  <2>10. \A i \in DOMAIN queue'[one] : i \in Nat /\ (i \in DOMAIN Q => i < Len(Q) + 1)
    BY <2>4, <2>6
  <2>11. /\ \A i, j \in DOMAIN Q : i < j => Before(Q[i], Q[j])
         /\ \A j \in DOMAIN Q : /\ Q[j][2] <= chunks[Q[j][1]]
                                /\ \A i \in DOMAIN text : Before(text[i], Q[j])
                                /\ hnd[one] = "show" => Before(hold[one], Q[j])
         /\ \A i \in DOMAIN text : text[i][2] <= chunks[text[i][1]]
         /\ hnd[one] = "show" => hold[one] \in Chunks /\ hold[one][2] <= chunks[hold[one][1]]
    BY <1>0 DEF DataOrdered, Q
  <2>12. \A i, j \in DOMAIN queue'[one] : i < j => Before(queue'[one][i], queue'[one][j])
    <3>. SUFFICES ASSUME NEW i \in DOMAIN queue'[one], NEW j \in DOMAIN queue'[one], i < j
         PROVE  Before(queue'[one][i], queue'[one][j])
      OBVIOUS
    <3>1. i \in DOMAIN Q /\ queue'[one][i] = Q[i]
      <4>1. CASE i = Len(Q) + 1
        BY <2>9, <2>10, <4>1
      <4>. QED BY <2>9, <4>1
    <3>2. CASE j \in DOMAIN Q /\ queue'[one][j] = Q[j]
      BY <2>11, <3>1, <3>2
    <3>3. CASE queue'[one][j] = d
      BY <2>6, <2>7, <2>11, <3>1, <3>3
    <3>. QED BY <2>9, <3>2, <3>3
  <2>13. \A j \in DOMAIN queue'[one] :
           /\ queue'[one][j][2] <= chunks'[queue'[one][j][1]]
           /\ \A i \in DOMAIN text : Before(text[i], queue'[one][j])
           /\ hnd[one] = "show" => Before(hold[one], queue'[one][j])
    BY <2>6, <2>7, <2>8, <2>9, <2>11
  <2>14. /\ \A i \in DOMAIN text : text[i][2] <= chunks'[text[i][1]]
         /\ hnd[one] = "show" => hold[one] \in Chunks /\ hold[one][2] <= chunks'[hold[one][1]]
    BY <2>6, <2>7, <2>11
  <2>15. DataOrdered'
    BY <1>0, <2>4, <2>12, <2>13, <2>14 DEF DataOrdered, ReceivedInOrder, Before
  <2>. QED BY <1>1, <2>5, <2>15
<1>6. CASE (SetUp(one) /\ ~StartThreads(one)) \/ AcceptLoop(one) \/ WindDown(one)
  <2>1. UNCHANGED shown
    BY <1>6 DEF SetUp, AcceptLoop, WindDown, Startup, Flag, MakeSocket, Bind, Listen,
                MakePort, MakeQueue, AcceptCall, Accepted, AcceptFails, PostRecv,
                PostRecvFails, ForgetClient, Quit, CloseListener, ClosePort, Cleanup,
                Unflag, shown
  <2>2. srv'[one] \in Early \cup {"threads"} => srv[one] \in Early
    BY <1>0, <1>6, NotBackToStart
  <2>. QED BY <1>0, <1>1, <2>1, <2>2, ShownUnchanged
<1>7. CASE Network \/ (CompletionThread(one) /\ ~GotData(one))
  <2>1. UNCHANGED shown /\ UNCHANGED srv
    BY <1>7 DEF Network, Connect, RecvEnds, CompletionThread, Rearm, RearmFails, GotEnd,
         GotError, ClearClient, GotQuit, Abandoned, shown
  <2>. QED BY <1>0, <1>1, <2>1, ShownUnchanged
<1>. QED BY <1>2, <1>3, <1>4, <1>5, <1>6, <1>7 DEF Internal, SetUp

\* The callbacks, in the thread of the run and in the handler thread.
LEMMA CallBacksKeepOrder ==
    ASSUME NEW one \in Runs, Runs = {one}, IInv, OrderInv,
           OnStatChanged(one) \/ StatChangedReturns(one) \/ DisplayMessage(one)
    PROVE  OrderInv'
<1>. USE DEF area, handler, world, clients, guiVars, OrderInv
<1>0. IocpTypeOK /\ WindowTypeOK /\ DataOrdered /\ AtEnd
  BY DEF IInv
<1>1. CASE OnStatChanged(one) \/ StatChangedReturns(one)
  <2>1. UNCHANGED shown /\ (CallBack(one) \/ CallBackReturns(one))
    BY <1>1 DEF OnStatChanged, StatChangedReturns, CallBack, CallBackReturns, shown
  <2>2. srv'[one] \in Early \cup {"threads"} => srv[one] \in Early
    BY <1>0, <2>1, NotBackToStart
  <2>3. DataOrdered' /\ AtEnd'
    BY <1>0, <2>1, <2>2, ShownUnchanged
  <2>4. WindowTypeOK'
    <3>1. state' \in {"stopped", "running", "error"} /\ label' \in {"start", "stop"}
      BY <1>0, <1>1 DEF OnStatChanged, StatChangedReturns, CallBack, Told, At, Relabels,
                        WindowTypeOK
    <3>. QED BY <1>0, <1>1, <3>1 DEF OnStatChanged, StatChangedReturns, WindowTypeOK
  <2>. QED BY <2>3, <2>4
<1>2. CASE DisplayEnters(one)
  <2>1. /\ hnd[one] = "show" /\ msg[one] = "out" /\ lock' = one
        /\ msg' = [msg EXCEPT ![one] = "select"]
        /\ UNCHANGED <<state, label, gui, sendTo, text, g_recv_count, caret, queue, chunks,
                       hold, hnd, srv>>
    BY <1>2 DEF DisplayEnters, iocpVars
  <2>2. WindowTypeOK' /\ AtEnd'
    BY <1>0, <2>1 DEF WindowTypeOK, AtEnd
  <2>3. DataOrdered'
    BY <1>0, <2>1 DEF DataOrdered, ReceivedInOrder, Before
  <2>. QED BY <2>2, <2>3
<1>3. CASE DisplaySelects(one)
  <2>1. /\ msg[one] = "select" /\ msg' = [msg EXCEPT ![one] = "replace"]
        /\ caret' = IF g_recv_count < Len(text) THEN g_recv_count ELSE Len(text)
        /\ UNCHANGED <<state, label, gui, sendTo, lock, text, g_recv_count, queue, chunks,
                       hold, hnd, srv>>
    BY <1>3 DEF DisplaySelects, iocpVars
  <2>2. Len(text) \in Nat /\ caret' = Len(text)
    BY <1>0, <2>1 DEF WindowTypeOK, AtEnd
  <2>3. WindowTypeOK' /\ AtEnd'
    BY <1>0, <2>1, <2>2 DEF WindowTypeOK, AtEnd
  <2>4. DataOrdered'
    BY <1>0, <2>1 DEF DataOrdered, ReceivedInOrder, Before, WindowTypeOK
  <2>. QED BY <2>3, <2>4
<1>4. CASE DisplayReplaces(one)
  <2>. DEFINE d == hold[one]
              n == Len(text)
  <2>1. /\ msg[one] = "replace" /\ msg' = [msg EXCEPT ![one] = "shown"] /\ gui = "loop"
        /\ text' = SubSeq(text, 1, caret) \o <<d>> \o SubSeq(text, caret + 1, Len(text))
        /\ caret' = caret + 1 /\ g_recv_count' = g_recv_count + 1 /\ lock' = Nobody
        /\ UNCHANGED <<state, label, gui, sendTo, queue, chunks, hold, hnd, srv>>
    BY <1>4 DEF DisplayReplaces, CountAndLeave, Pumps, iocpVars
  <2>2. /\ caret = n /\ n \in Nat /\ n <= g_recv_count /\ g_recv_count \in Nat
        /\ hnd[one] = "show" /\ d \in Chunks
    BY <1>0, <2>1 DEF AtEnd, DataOrdered, WindowTypeOK
\* The insertion is at the end.
  <2>3. /\ text' \in Seq(Chunks) /\ Len(text') = n + 1
        /\ \A i \in 1 .. n : text'[i] = text[i]
        /\ text'[n + 1] = d
    <3>1. SubSeq(text, 1, n) = text /\ SubSeq(text, n + 1, n) = << >>
      BY <1>0, <2>2, SubSeqFull, SubSeqEmpty DEF WindowTypeOK
    <3>2. text' = Append(text, d)
      <4>1. text' = (text \o <<d>>) \o << >>
        BY <2>1, <2>2, <3>1
      <4>2. text \o <<d>> = Append(text, d) /\ Append(text, d) \in Seq(Chunks)
        BY <1>0, <2>2, AppendIsConcat, AppendProperties DEF WindowTypeOK
      <4>. QED BY <4>1, <4>2, ConcatEmptySeq
    <3>. QED BY <1>0, <2>2, <3>2, AppendProperties DEF WindowTypeOK
  <2>4. WindowTypeOK' /\ AtEnd'
    BY <1>0, <2>1, <2>2, <2>3 DEF WindowTypeOK, AtEnd
  <2>5. /\ DOMAIN text = 1 .. n /\ DOMAIN text' = 1 .. n + 1
        /\ \A i \in DOMAIN text' : i \in DOMAIN text \/ i = n + 1
    BY <1>0, <2>2, <2>3 DEF WindowTypeOK
  <2>6. /\ \A i \in DOMAIN text : Before(text[i], d) /\ text[i][2] <= chunks[text[i][1]]
        /\ d[2] <= chunks[d[1]]
        /\ \A j \in DOMAIN queue[one] :
              Before(d, queue[one][j]) /\ \A i \in DOMAIN text : Before(text[i], queue[one][j])
    BY <1>0, <2>1, <2>2 DEF DataOrdered
  <2>. HIDE DEF d, n
  <2>7. ReceivedInOrder'
    <3>. SUFFICES ASSUME NEW i \in DOMAIN text', NEW j \in DOMAIN text', i < j
         PROVE  Before(text'[i], text'[j])
      BY DEF ReceivedInOrder, Before
    <3>1. i \in 1 .. n /\ text'[i] = text[i]
      BY <2>2, <2>3, <2>5
    <3>2. CASE j = n + 1
      BY <2>3, <2>5, <2>6, <3>1, <3>2
    <3>3. CASE j \in DOMAIN text
      <4>1. text'[j] = text[j] /\ Before(text[i], text[j])
        BY <1>0, <2>3, <2>5, <3>1, <3>3 DEF DataOrdered, ReceivedInOrder, Before
      <4>. QED BY <3>1, <4>1
    <3>. QED BY <2>5, <3>2, <3>3
  <2>8. \A i \in DOMAIN text' :
           /\ text'[i][2] <= chunks[text'[i][1]]
           /\ \A j \in DOMAIN queue[one] : Before(text'[i], queue[one][j])
    BY <2>3, <2>5, <2>6
  <2>9. DataOrdered'
    <3>1. msg'[one] = "shown"
      BY <1>0, <2>1 DEF WindowTypeOK
    <3>. QED BY <1>0, <2>1, <2>7, <2>8, <3>1 DEF DataOrdered
  <2>. QED BY <2>4, <2>9
<1>5. CASE DisplayReturns(one)
  <2>1. /\ msg[one] = "shown" /\ hnd'[one] = "call" /\ msg' = [msg EXCEPT ![one] = "out"]
        /\ hnd[one] = "show"
        /\ UNCHANGED <<state, label, gui, sendTo, lock, text, g_recv_count, caret, queue,
                       chunks, srv>>
    BY <1>0, <1>5 DEF DisplayReturns, HandlerFrees, IocpTypeOK, server
  <2>2. WindowTypeOK' /\ AtEnd'
    BY <1>0, <2>1 DEF WindowTypeOK, AtEnd
  <2>3. DataOrdered'
    BY <1>0, <2>1 DEF DataOrdered, ReceivedInOrder, Before
  <2>. QED BY <2>2, <2>3
<1>. QED BY <1>1, <1>2, <1>3, <1>4, <1>5 DEF DisplayMessage

\* Behind the counter and the caret: the text, the chunk in the handler
\* thread's hands and the queue are one sequence in the order of receipt, and
\* the counter never falls behind the text (lines 247-269).
THEOREM OrderCorrect ==
    ASSUME NEW one \in Runs, Runs = {one}
    PROVE  Spec => []ReceivedInOrder
<1>1. Init => OrderInv
  BY DEF Init, IocpInit, OrderInv, WindowTypeOK, DataOrdered, ReceivedInOrder, AtEnd
<1>2. IInv /\ OrderInv /\ [Next]_vars => OrderInv'
  <2>1. ASSUME IInv, OrderInv, UNCHANGED vars PROVE OrderInv'
    BY <2>1 DEF vars, iocpVars, guiVars, OrderInv, WindowTypeOK, DataOrdered,
                ReceivedInOrder, Before, AtEnd
  <2>. QED BY <2>1, WindowKeepsOrder, ServerKeepsOrder, CallBacksKeepOrder DEF Next, Sends
<1>3. OrderInv => ReceivedInOrder
  BY DEF OrderInv, DataOrdered
<1>4. OneRun
  BY DEF OneRun
<1>5. Spec => []IInv
  BY <1>4, ImplementsIocp, Inductive, PTL
<1>. QED BY <1>1, <1>2, <1>3, <1>5, PTL DEF Spec
==============================================================================
