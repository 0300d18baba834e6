------------------------------- MODULE GuiServer -------------------------------
(***************************************************************************)
(* src/utils/socket/gui_server.c on top of IocpServer: the window's thread,*)
(* the two callbacks it gives the server, and what the user can do.        *)
(*                                                                         *)
(* Calls between the modules.  The window's thread calls startIocpServer   *)
(* (in a new thread) and mysocket_clean; the thread of a run calls         *)
(* OnStatChanged and its handler thread OnReceived.  A call that changes a *)
(* control from another thread (SetWindowText, SendMessage) waits until    *)
(* the window's thread is back in its message loop (Pumps); in send it is  *)
(* not, and how long that lasts is up to the peer.                         *)
(***************************************************************************)
EXTENDS IocpServer

CONSTANT Nobody     \* holder of a free critical section

ASSUME GuiAssumption == Nobody \notin Runs

VARIABLES
    state,          \* "0: stopped 1: running", or wsacode + 1
    label,          \* what the button says
    gui,            \* what the window's thread does
    sendTo,         \* the socket its send was given
    lock,           \* the critical section of the receive area: a handler thread
    text,           \* the chunks in the receive area
    g_recv_count,   \* where the next one goes, counted in chunks
    caret,          \* where EM_SETSEL has put the selection
    msg             \* where each handler thread is in DisplayMessage

area == <<text, g_recv_count, caret>>
guiVars == <<state, label, gui, sendTo, lock, text, g_recv_count, caret, msg>>
vars == <<iocpVars, guiVars>>

Init ==
    /\ IocpInit
    /\ state = "stopped" /\ label = "start" /\ gui = "loop" /\ sendTo = NULL
    /\ lock = Nobody /\ text = << >> /\ g_recv_count = 0 /\ caret = 0
    /\ msg = [r \in Runs |-> "out"]

Pumps == gui = "loop"
Lives == gui # "gone"
-----------------------------------------------------------------------------
(* The window's thread: ToggleServer, ClearRecvArea, SendMessageToClient,  *)
(* WM_DESTROY.                                                             *)

ClickStart ==
    /\ Pumps /\ state = "stopped"
    /\ \E r \in Runs, p \in TcpPorts : Start(r, p)
    /\ UNCHANGED guiVars

ClickStop ==
    /\ Pumps /\ state # "stopped"
    /\ CleanCloses
    /\ gui' = "clean"
    /\ UNCHANGED <<state, label, lock, area, msg, sendTo>>

StopReturns ==
    /\ gui = "clean"
    /\ CleanForgets
    /\ gui' = "loop"
    /\ UNCHANGED <<state, label, lock, area, msg, sendTo>>

\* Lines 248-249, before the lock is taken.
EmptyArea == text' = << >> /\ caret' = 0

ClickClear ==
    /\ Pumps
    /\ EmptyArea
    /\ gui' = "clear"
    /\ UNCHANGED <<iocpVars, state, label, lock, g_recv_count, msg, sendTo>>

ClearReturns ==
    /\ gui = "clear" /\ lock = Nobody
    /\ g_recv_count' = 0
    /\ gui' = "loop"
    /\ UNCHANGED <<iocpVars, state, label, lock, text, caret, msg, sendTo>>

\* The test in socketWrite; without a client it does nothing.
ClickSend ==
    /\ Pumps /\ g_cSocket # NULL
    /\ gui' = "write"
    /\ UNCHANGED <<iocpVars, state, label, lock, area, msg, sendTo>>

\* Its second access to g_cSocket, which may be NULL or another client by now.
SendCalls ==
    /\ gui = "write"
    /\ sendTo' = g_cSocket
    /\ gui' = "send"
    /\ UNCHANGED <<iocpVars, state, label, lock, area, msg>>

SendLeaves ==
    /\ gui = "send"
    /\ sendTo' = NULL
    /\ gui' = "loop"
    /\ UNCHANGED <<iocpVars, state, label, lock, area, msg>>

SendMayWait == sendTo \in Clients /\ sock[sendTo] = "open"

\* On no socket, or on one that is closed, also while send waits on it.
SendFails == SendLeaves /\ ~SendMayWait

\* The peer has made room for the data, or the connection is broken.
SendReturns == SendLeaves /\ SendMayWait

\* WinMain returns, and the process ends with all its threads.
CloseWindow ==
    /\ Pumps
    /\ gui' = "gone"
    /\ UNCHANGED <<iocpVars, state, label, lock, area, msg, sendTo>>
-----------------------------------------------------------------------------
(* OnStatChanged, in the thread of a run.                                  *)

OnStatChanged(r) ==
    /\ CallBack(r)
    /\ state' = Told(r)
    /\ UNCHANGED <<label, gui, lock, area, msg, sendTo>>

\* Bug: no return after the message box of line 47.
Relabels_NoReturn(r) ==
    \/ arg[r] = "error" /\ Pumps /\ label' = "stop"
    \/ arg[r] = "running" /\ Pumps /\ label' = "stop"
    \/ arg[r] = "stopped" /\ Pumps /\ label' = "start"

\* Lines 44-55: a message box in the run's own thread, or a new label.
Relabels(r) ==
    \/ arg[r] = "error" /\ UNCHANGED label
    \/ arg[r] = "running" /\ Pumps /\ label' = "stop"
    \/ arg[r] = "stopped" /\ Pumps /\ label' = "start"

StatChangedReturns(r) ==
    /\ CallBackReturns(r)
    /\ Relabels(r)
    /\ UNCHANGED <<state, gui, lock, area, msg, sendTo>>
-----------------------------------------------------------------------------
(* OnReceived, that is DisplayMessage, in a handler thread.                *)

DisplayEnters(r) ==
    /\ hnd[r] = "show" /\ msg[r] = "out"
    /\ lock = Nobody
    /\ lock' = r
    /\ msg' = [msg EXCEPT ![r] = "select"]
    /\ UNCHANGED <<iocpVars, state, label, gui, area, sendTo>>

\* EM_SETSEL clips the position to the text.
DisplaySelects(r) ==
    /\ msg[r] = "select" /\ Pumps
    /\ caret' = IF g_recv_count < Len(text) THEN g_recv_count ELSE Len(text)
    /\ msg' = [msg EXCEPT ![r] = "replace"]
    /\ UNCHANGED <<iocpVars, state, label, gui, lock, text, g_recv_count, sendTo>>

\* Lines 267-268: each without the other, and both.
CountAndLeave_NoCount == lock' = Nobody /\ UNCHANGED g_recv_count
CountAndLeave_NoLeave == g_recv_count' = g_recv_count + 1 /\ UNCHANGED lock
CountAndLeave == g_recv_count' = g_recv_count + 1 /\ lock' = Nobody

DisplayReplaces(r) ==
    /\ msg[r] = "replace" /\ Pumps
    /\ text' = SubSeq(text, 1, caret) \o <<hold[r]>> \o SubSeq(text, caret + 1, Len(text))
    /\ caret' = caret + 1
    /\ CountAndLeave
    /\ msg' = [msg EXCEPT ![r] = "shown"]
    /\ UNCHANGED <<iocpVars, state, label, gui, sendTo>>

DisplayReturns(r) ==
    /\ msg[r] = "shown"
    /\ HandlerFrees(r)
    /\ msg' = [msg EXCEPT ![r] = "out"]
    /\ UNCHANGED <<state, label, gui, lock, area, sendTo>>

DisplayMessage(r) ==
    DisplayEnters(r) \/ DisplaySelects(r) \/ DisplayReplaces(r) \/ DisplayReturns(r)
-----------------------------------------------------------------------------
Next ==
    /\ Lives
    /\ \/ ClickStart \/ ClickStop \/ StopReturns \/ ClickClear \/ ClearReturns
       \/ ClickSend \/ SendCalls \/ SendFails \/ SendReturns
       \/ CloseWindow
       \/ Internal /\ UNCHANGED guiVars
       \/ \E r \in Runs : \/ OnStatChanged(r) \/ StatChangedReturns(r)
                          \/ DisplayMessage(r)

Spec == Init /\ [][Next]_vars

\* Fairness.  Every thread of the server keeps running, and the window's
\* thread finishes what it does for a click, but for a send that waits for the
\* peer; the user, the peers and the network need not do anything.  A message
\* sent to a control is handled if the window's thread is back in its loop again
\* and again (sent messages come before clicks), and a thread that waits for the
\* critical section gets it if it is free again and again.
ServerThread(r) ==
    \/ UNCHANGED guiVars /\ (SetUp(r) \/ AcceptGoesOn(r) \/ WindDown(r))
    \/ OnStatChanged(r)

HandlerThread(r) ==
    \/ UNCHANGED guiVars /\ (HandlerCalls(r) \/ HandlerTakes(r))
    \/ DisplayReturns(r)

Fairness ==
    /\ \A r \in Runs :
          /\ WF_vars(Lives /\ ServerThread(r))
          /\ SF_vars(Lives /\ StatChangedReturns(r))
          /\ WF_vars(Lives /\ UNCHANGED guiVars /\ CompletionThread(r))
          /\ WF_vars(Lives /\ HandlerThread(r))
          /\ SF_vars(Lives /\ DisplayEnters(r))
          /\ SF_vars(DisplaySelects(r) \/ DisplayReplaces(r))
    /\ WF_vars(StopReturns \/ SendCalls \/ SendFails)
    /\ SF_vars(ClearReturns)

FairSpec == Spec /\ Fairness
-----------------------------------------------------------------------------
TypeOK ==
    /\ IocpTypeOK
    /\ state \in {"stopped", "running", "error"} /\ label \in {"start", "stop"}
    /\ gui \in {"loop", "clean", "clear", "write", "send", "gone"}
    /\ sendTo \in Clients \cup {NULL}
    /\ lock \in Runs \cup {Nobody}
    /\ text \in Seq(Chunks)
    /\ g_recv_count \in Nat /\ caret \in 0 .. Len(text)
    /\ msg \in [Runs -> {"out", "select", "replace", "shown"}]

\* What gui_server.c:27 says of `state`: "0: stopped 1: running".
StateIsStoppedOrRunning == state \in {"stopped", "running"}

\* Whenever the button says "stop" there is a run behind it that has reported
\* success and not yet the end, also when two clicks on "start" made two runs
\* overlap and one of them failed (lines 42-56 and 119-139).
RunBehindLabel ==
    label = "stop" =>
       \E r \in Runs : \/ srv[r] \in {"accept", "accepting", "post", "unpost", "quit",
                                       "close", "closePort", "cleanup", "unflag",
                                       "stopped"}
                       \/ At(r, "telling") /\ arg[r] = "stopped"

\* In the receive area the data of one connection stand in the order they were
\* received and once each, although completion thread, handler thread and the
\* "clear" button work at the same time and the place of insertion is kept in
\* a counter of its own (lines 247-269), as long as there is one run.
ReceivedInOrder ==
    \A i, j \in DOMAIN text :
       i < j /\ text[i][1] = text[j][1] => text[i][2] < text[j][2]

\* The window's thread waits for the lock in ClearRecvArea while its holder
\* waits for the window's thread in SendMessage: neither ever goes on.
Stuck == gui = "clear" /\ lock # Nobody /\ msg[lock] \in {"select", "replace"}

\* The handler thread of a run called dequeue before line 60 of myIocpServer.c
\* had stored the queue, and ended.
NoHandler == \E r \in Runs : hnd[r] = "done"

\* The "clear" button lets the window go on, but for the deadlock named Stuck.
ClearEnds == gui = "clear" ~> gui # "clear" \/ Stuck

\* No peer leaves the window's thread in send for ever (line 154: the socket
\* blocks, so a peer that sends but never reads could).
PeersRead == []<>(gui # "send")

\* If PeersRead, all data received is displayed, but for three things that
\* prevent it: the handler thread missed the queue, the window is Stuck, or it
\* was closed.
DataShown ==
    PeersRead =>
       \A d \in Chunks :
          (\E r \in Runs : d \in Range(queue[r]))
             ~> d \in Range(text) \/ NoHandler \/ Stuck \/ gui = "gone"

\* A send that waits in the window's thread (line 154) for a peer that does not
\* read ends once the peer has closed or reset the connection and Winsock has
\* told the server so: the completion thread, which does not need the window,
\* closes the socket under the send (lines 159-167 and 191-192 of
\* myIocpServer.c).  So it is with one connection; of several, the error of
\* another one may have ended the completion thread before.
EndTold(c) == \E r \in Runs, kind \in {"end", "error"} : <<c, kind>> \in Range(packets[r])

SendEnds ==
    \A c \in Clients : gui = "send" /\ sendTo = c /\ EndTold(c) ~> gui # "send"

\* The "stop" button stops a running server: accept fails on the socket that
\* was closed under it, and whatever the threads of the run and its clients
\* do, the run reports its end (lines 71-73 and 91-110 of myIocpServer.c).
StopEnds ==
    gui = "clean" /\ state = "running" ~> state = "stopped" \/ gui = "gone"
==============================================================================
