-------------------------------- MODULE Client --------------------------------
(***************************************************************************)
(* src/utils/socket/myclient.c with gui_client.c: the window's thread,     *)
(* which connects and disconnects, and one receive thread for each         *)
(* connection made, over one global socket client_fd.                      *)
(*                                                                         *)
(* mysocket_clean and DisplayMessage are called from both kinds of thread: *)
(* pc[t] says where thread t is, and back[t] where it goes on after them.  *)
(* One access to a shared variable is one action, but for client_fd in the *)
(* window's thread, which alone writes it.  The text in the window is      *)
(* counted in messages: that the characters DisplayMessage counts are      *)
(* those the window keeps, without a NUL among them, is assumed, and so is *)
(* that CreateThread and ioctlsocket(FIONREAD) succeed.                    *)
(***************************************************************************)
EXTENDS Integers, FiniteSets

CONSTANTS
    Conns,       \* sockets; one that was closed is not made again
    Receivers,   \* bound: receive threads alive at a time
    Window,      \* the window's thread
    Nobody,      \* holder of a free mutex
    NULL,        \* client_fd before the first connection, and INVALID_SOCKET
    MaxChunks    \* bound: messages all peers together send

Threads == Receivers \cup {Window}

ASSUME ClientAssumption ==
    /\ Window \notin Receivers /\ Nobody \notin Threads /\ NULL \notin Conns
    /\ IsFiniteSet(Conns) /\ IsFiniteSet(Receivers) /\ MaxChunks \in Nat

VARIABLES
    client_fd, connected, gwinsock_init,   \* statics of myclient.c
    gui_connected, label,                  \* gui_client.c: its flag, its button
    g_mutex, g_display_count, shown,       \* and its display
    wsa,                                   \* Winsock's own count
    pc, back,
    sock,        \* what Winsock and the peer know of each socket
    inbox, sent, eof,   \* data and end of stream arrived, data sent
    watched,     \* the socket in a receive thread's select
    reading,     \* the socket in its recv
    overlapped   \* history: a socket was made while a receive thread lived

statics == <<client_fd, connected, gwinsock_init, wsa>>
button  == <<gui_connected, label>>
display == <<g_mutex, g_display_count, shown>>
net     == <<sock, inbox, sent, eof>>
fds     == <<watched, reading>>
vars == <<client_fd, connected, gwinsock_init, gui_connected, label, g_mutex,
          g_display_count, shown, wsa, pc, back, sock, inbox, sent, eof, watched,
          reading, overlapped>>

\* Where a thread goes after mysocket_clean if it is not told otherwise.
AfterClean(t) == IF t = Window THEN "loop" ELSE "winsock"

Init ==
    /\ client_fd = NULL /\ connected = FALSE /\ gwinsock_init = FALSE /\ wsa = 0
    /\ gui_connected = FALSE /\ label = "connect"
    /\ g_mutex = Nobody /\ g_display_count = 0 /\ shown = 0
    /\ pc = [t \in Threads |-> IF t = Window THEN "loop" ELSE "none"]
    /\ back = [t \in Threads |-> AfterClean(t)]
    /\ sock = [c \in Conns |-> "none"]
    /\ inbox = [c \in Conns |-> 0] /\ sent = 0
    /\ eof = [c \in Conns |-> FALSE]
    /\ watched = [r \in Receivers |-> NULL] /\ reading = [r \in Receivers |-> NULL]
    /\ overlapped = FALSE

Pumps == pc[Window] = "loop"
Lives == pc[Window] # "gone"
Alive(r) == pc[r] # "none"
\* A message to a control is handled by its window's thread, in its loop.
Handled(t) == t = Window \/ Pumps

At(t, place) == pc[t] = place
GoTo(t, place) == pc' = [pc EXCEPT ![t] = place] /\ UNCHANGED back
CallThen(t, place, then) ==
    pc' = [pc EXCEPT ![t] = place] /\ back' = [back EXCEPT ![t] = then]
\* The end of mysocket_clean or DisplayMessage.
Return(t) ==
    pc' = [pc EXCEPT ![t] = back[t]] /\ back' = [back EXCEPT ![t] = AfterClean(t)]

Open(fd) == fd \in Conns /\ sock[fd] \in {"made", "pending", "up"}
\* What has arrived on a socket goes with it.
Close(which) ==
    LET closed == {c \in which : Open(c)}
    IN  /\ sock' = [c \in Conns |-> IF c \in closed THEN "closed" ELSE sock[c]]
        /\ inbox' = [c \in Conns |-> IF c \in closed THEN 0 ELSE inbox[c]]
        /\ eof' = [c \in Conns |-> eof[c] /\ c \notin closed]
        /\ UNCHANGED sent
-----------------------------------------------------------------------------
(* mysocket_clean.                                                         *)

CleanFlag(t) ==
    /\ At(t, "clean")
    /\ connected' = FALSE
    /\ GoTo(t, "close")
    /\ UNCHANGED <<client_fd, gwinsock_init, wsa, button, display, net, fds, overlapped>>

\* Bug: the socket is left open.
CleanClose_Keeps(t) ==
    /\ At(t, "close")
    /\ GoTo(t, "tellDown")
    /\ UNCHANGED <<statics, button, display, net, fds, overlapped>>

CleanClose(t) ==
    /\ At(t, "close")
    /\ Close({client_fd})
    /\ GoTo(t, "tellDown")
    /\ UNCHANGED <<statics, button, display, fds, overlapped>>

\* OnStatChanged: lines 54 and 56, which read the flag just written again.
Tell(t) ==
    /\ pc[t] \in {"tellUp", "tellDown"}
    /\ gui_connected' = (pc[t] = "tellUp")
    /\ GoTo(t, "told")
    /\ UNCHANGED <<statics, label, display, net, fds, overlapped>>

TellDown(t) ==
    /\ At(t, "told") /\ ~gui_connected
    /\ GoTo(t, "labelDown")
    /\ UNCHANGED <<statics, button, display, net, fds, overlapped>>

\* runReceive.
StartReceive(t) ==
    /\ At(t, "told") /\ gui_connected
    /\ \E r \in Receivers : ~Alive(r)
    /\ LET new == CHOOSE r \in Receivers : ~Alive(r)
       IN  pc' = [pc EXCEPT ![t] = "labelUp", ![new] = "watch"]
    /\ UNCHANGED <<statics, back, button, display, net, fds, overlapped>>

Relabel(t) ==
    /\ pc[t] \in {"labelUp", "labelDown"} /\ Handled(t)
    /\ label' = IF At(t, "labelUp") THEN "disconnect" ELSE "connect"
    /\ Return(t)
    /\ UNCHANGED <<statics, gui_connected, display, net, fds, overlapped>>
-----------------------------------------------------------------------------
(* DisplayMessage, and ClearDisplayArea.                                   *)

\* The wait for the mutex can only last 20 seconds if its holder waits for the
\* window's thread, and that thread waits for the mutex.
HeldUp ==
    /\ g_mutex \in Receivers /\ At(g_mutex, "send")
    /\ pc[Window] \in {"clear", "display"}

\* Bug: WaitForSingleObject(g_mutex, INFINITE).
GetsMutex_Infinite == g_mutex = Nobody
GetsMutex == g_mutex = Nobody \/ HeldUp

\* WaitForSingleObject's result is ignored.
DisplayWait(t) ==
    /\ At(t, "display")
    /\ GetsMutex
    /\ g_mutex' = IF g_mutex = Nobody THEN t ELSE g_mutex
    /\ GoTo(t, "send")
    /\ UNCHANGED <<statics, button, g_display_count, shown, net, fds, overlapped>>

DisplaySend(t) ==
    /\ At(t, "send") /\ Handled(t)
    /\ shown' = shown + 1
    /\ GoTo(t, "count")
    /\ UNCHANGED <<statics, button, g_mutex, g_display_count, net, fds, overlapped>>

\* ReleaseMutex does nothing for a thread that does not own the mutex.  Without
\* the mutex, another thread that adds at the same time may overwrite
\* what this one writes.
Overwritten(t) == \E u \in Threads \ {t} : At(u, "count")

DisplayCount(t) ==
    /\ At(t, "count")
    /\ \/ g_display_count' = g_display_count + 1
       \/ Overwritten(t) /\ UNCHANGED g_display_count
    /\ g_mutex' = IF g_mutex = t THEN Nobody ELSE g_mutex
    /\ Return(t)
    /\ UNCHANGED <<statics, button, shown, net, fds, overlapped>>

ClickClear ==
    /\ Pumps
    /\ shown' = 0
    /\ GoTo(Window, "clear")
    /\ UNCHANGED <<statics, button, g_mutex, g_display_count, net, fds, overlapped>>

\* Bug: ClearDisplayArea forgets the counter.
ResetCount_Forgotten == UNCHANGED g_display_count
ResetCount == g_display_count' = 0

ClearCount ==
    /\ At(Window, "clear")
    /\ GetsMutex
    /\ ResetCount \/ (Overwritten(Window) /\ UNCHANGED g_display_count)
    /\ GoTo(Window, "loop")
    /\ UNCHANGED <<statics, button, g_mutex, shown, net, fds, overlapped>>
-----------------------------------------------------------------------------
(* SendMessageToServer, in the window's thread, which handles nothing else *)
(* while it is in send.                                                    *)

CanWrite == client_fd \in Conns /\ sock[client_fd] = "up"

\* Without a connection send fails at once, which changes nothing.
ClickSend ==
    /\ Pumps /\ CanWrite
    /\ GoTo(Window, "write")
    /\ UNCHANGED <<statics, button, display, net, fds, overlapped>>

WriteFails ==
    /\ At(Window, "write") /\ ~CanWrite
    /\ GoTo(Window, "loop")
    /\ UNCHANGED <<statics, button, display, net, fds, overlapped>>

\* There is room for the message, or the peer reads what was sent before it; or
\* the connection is reset.
WriteEnds ==
    /\ At(Window, "write") /\ CanWrite
    /\ GoTo(Window, "loop")
    /\ UNCHANGED <<statics, button, display, net, fds, overlapped>>
-----------------------------------------------------------------------------
(* ToggleConnection and ReadySocket, in the window's thread.               *)

ClickDisconnect ==
    /\ Pumps /\ gui_connected
    /\ GoTo(Window, "clean")
    /\ UNCHANGED <<statics, button, display, net, fds, overlapped>>

ClickConnect ==
    /\ Pumps /\ ~gui_connected
    /\ \E c \in Conns : sock[c] = "none"     \* bound: connections not yet made
    /\ GoTo(Window, IF connected THEN "loop"
                    ELSE IF gwinsock_init THEN "socket" ELSE "startup")
    /\ UNCHANGED <<statics, button, display, net, fds, overlapped>>

Startup ==
    /\ At(Window, "startup")
    /\ \/ wsa' = wsa + 1 /\ GoTo(Window, "flag")
       \/ UNCHANGED wsa /\ GoTo(Window, "loop")
    /\ UNCHANGED <<client_fd, connected, gwinsock_init, button, display, net, fds,
                   overlapped>>

Flag ==
    /\ At(Window, "flag")
    /\ gwinsock_init' = TRUE
    /\ GoTo(Window, "socket")
    /\ UNCHANGED <<client_fd, connected, wsa, button, display, net, fds, overlapped>>

MakeSocket ==
    /\ At(Window, "socket") /\ wsa > 0
    /\ client_fd' = CHOOSE c \in Conns : sock[c] = "none"
    /\ sock' = [sock EXCEPT ![client_fd'] = "made"]
    /\ overlapped' = (overlapped \/ \E r \in Receivers : Alive(r))
    /\ GoTo(Window, "block")
    /\ UNCHANGED <<connected, gwinsock_init, wsa, button, display, inbox, sent, eof, fds>>

MakeSocketFails ==
    /\ At(Window, "socket")
    /\ client_fd' = NULL
    /\ GoTo(Window, "loop")
    /\ UNCHANGED <<connected, gwinsock_init, wsa, button, display, net, fds, overlapped>>

\* setBlock cleans up when it fails; ReadySocket goes on all the same.
SetNonBlocking ==
    /\ At(Window, "block")
    /\ IF Open(client_fd) THEN GoTo(Window, "connect")
                          ELSE CallThen(Window, "clean", "connect")
    /\ UNCHANGED <<statics, button, display, net, fds, overlapped>>

Connect ==
    /\ At(Window, "connect")
    /\ \/ /\ Open(client_fd)
          /\ sock' = [sock EXCEPT ![client_fd] = "pending"]
          /\ GoTo(Window, "await")
       \/ GoTo(Window, "clean") /\ UNCHANGED sock
    /\ UNCHANGED <<statics, button, display, inbox, sent, eof, fds, overlapped>>

\* select reports a connection, or for five seconds nothing, or an error.
Await ==
    /\ At(Window, "await")
    /\ \/ sock[client_fd] = "up" /\ GoTo(Window, "unblock")
       \/ sock[client_fd] # "up" /\ CallThen(Window, "display", "clean")
    /\ UNCHANGED <<statics, button, display, net, fds, overlapped>>

SetBlocking ==
    /\ At(Window, "unblock")
    /\ IF Open(client_fd) THEN GoTo(Window, "flagUp")
                          ELSE CallThen(Window, "clean", "flagUp")
    /\ UNCHANGED <<statics, button, display, net, fds, overlapped>>

FlagUp ==
    /\ At(Window, "flagUp")
    /\ connected' = TRUE
    /\ GoTo(Window, "tellUp")
    /\ UNCHANGED <<client_fd, gwinsock_init, wsa, button, display, net, fds, overlapped>>

\* WinMain: mysocket_clean, and the process ends with its threads, so that only
\* the end of that call can be seen.
CloseWindow ==
    /\ Pumps
    /\ connected' = FALSE /\ gui_connected' = FALSE
    /\ Close(Conns)
    /\ GoTo(Window, "gone")
    /\ UNCHANGED <<client_fd, gwinsock_init, wsa, label, display, fds, overlapped>>
-----------------------------------------------------------------------------
(* waitReceive.                                                            *)

\* The end of a turn of the loop, or of the loop.
Forget(r) ==
    /\ watched' = [watched EXCEPT ![r] = NULL]
    /\ reading' = [reading EXCEPT ![r] = NULL]

Readable(fd) == sock[fd] = "up" /\ (inbox[fd] > 0 \/ eof[fd])

Watch(r) ==
    /\ At(r, "watch")
    /\ watched' = [watched EXCEPT ![r] = client_fd]
    /\ GoTo(r, "select")
    /\ UNCHANGED <<statics, button, display, net, reading, overlapped>>

SelectReady(r) ==
    /\ At(r, "select") /\ watched[r] \in Conns /\ Readable(watched[r])
    /\ GoTo(r, "recv")
    /\ UNCHANGED <<statics, button, display, net, fds, overlapped>>

\* An error, lines 128-132: the socket is closed, or never was one.
SelectFails(r) ==
    /\ At(r, "select") /\ ~Open(watched[r])
    /\ CallThen(r, "display", "clean")
    /\ Forget(r)
    /\ UNCHANGED <<statics, button, display, net, overlapped>>

\* 300 seconds without data, lines 123-127.
SelectTimesOut(r) ==
    /\ At(r, "select") /\ Open(watched[r]) /\ ~Readable(watched[r])
    /\ CallThen(r, "display", "clean")
    /\ Forget(r)
    /\ UNCHANGED <<statics, button, display, net, overlapped>>

\* Line 134 reads client_fd once more.
RecvCall(r) ==
    /\ At(r, "recv")
    /\ reading' = [reading EXCEPT ![r] = client_fd]
    /\ GoTo(r, "receiving")
    /\ UNCHANGED <<statics, button, display, net, watched, overlapped>>

RecvData(r) ==
    /\ At(r, "receiving") /\ Open(reading[r]) /\ inbox[reading[r]] > 0
    /\ inbox' = [inbox EXCEPT ![reading[r]] = @ - 1]
    /\ GoTo(r, "check")
    /\ UNCHANGED <<statics, button, display, sock, sent, eof, fds, overlapped>>

\* A socket that ReadySocket is still at work on does not make recv wait.
NonBlocking(fd) == fd = client_fd /\ pc[Window] \in {"await", "unblock"}

\* Lines 152-163: the end of the stream, or an error.
RecvEnds(r) ==
    /\ At(r, "receiving")
    /\ Open(reading[r]) =>
          /\ inbox[reading[r]] = 0
          /\ eof[reading[r]] \/ sock[reading[r]] # "up" \/ NonBlocking(reading[r])
    /\ CallThen(r, "display", "clean")
    /\ Forget(r)
    /\ UNCHANGED <<statics, button, display, net, overlapped>>

\* Line 136 reads client_fd a third time, and compares it with the socket
\* select has reported.
Check(r) ==
    /\ At(r, "check")
    /\ CallThen(r, "display", IF client_fd = watched[r] THEN "watch" ELSE "clean")
    /\ Forget(r)
    /\ UNCHANGED <<statics, button, display, net, overlapped>>

\* Lines 167-170.
TestFlag(r) ==
    /\ At(r, "winsock")
    /\ GoTo(r, IF gwinsock_init THEN "cleanup" ELSE "none")
    /\ UNCHANGED <<statics, button, display, net, fds, overlapped>>

\* Bug: WSACleanup is left out.
Cleanup_Missing(r) ==
    /\ At(r, "cleanup")
    /\ GoTo(r, "unflag")
    /\ UNCHANGED <<statics, button, display, net, fds, overlapped>>

\* The last WSACleanup takes every socket of the process away.
Cleanup(r) ==
    /\ At(r, "cleanup")
    /\ wsa' = IF wsa = 0 THEN 0 ELSE wsa - 1
    /\ Close(IF wsa = 1 THEN Conns ELSE {})
    /\ GoTo(r, "unflag")
    /\ UNCHANGED <<client_fd, connected, gwinsock_init, button, display, fds, overlapped>>

Unflag(r) ==
    /\ At(r, "unflag")
    /\ gwinsock_init' = FALSE
    /\ GoTo(r, "none")
    /\ UNCHANGED <<client_fd, connected, wsa, button, display, net, fds, overlapped>>
-----------------------------------------------------------------------------
(* The peer.                                                               *)

PeerAccepts(c) ==
    /\ sock[c] = "pending"
    /\ sock' = [sock EXCEPT ![c] = "up"]
    /\ UNCHANGED <<statics, button, display, pc, back, inbox, sent, eof, fds, overlapped>>

PeerSends(c) ==
    /\ sock[c] = "up" /\ ~eof[c] /\ sent < MaxChunks
    /\ sent' = sent + 1
    /\ inbox' = [inbox EXCEPT ![c] = @ + 1]
    /\ UNCHANGED <<statics, button, display, pc, back, sock, eof, fds, overlapped>>

PeerCloses(c) ==
    /\ sock[c] = "up" /\ ~eof[c]
    /\ eof' = [eof EXCEPT ![c] = TRUE]
    /\ UNCHANGED <<statics, button, display, pc, back, sock, inbox, sent, fds, overlapped>>
-----------------------------------------------------------------------------
Clean(t) == CleanFlag(t) \/ CleanClose(t)
OnStatChanged(t) == Tell(t) \/ TellDown(t) \/ StartReceive(t) \/ Relabel(t)
Display(t) == DisplayWait(t) \/ DisplaySend(t) \/ DisplayCount(t)

ReadySocket ==
    \/ Startup \/ Flag \/ MakeSocketFails \/ MakeSocket
    \/ SetNonBlocking \/ Connect \/ Await \/ SetBlocking \/ FlagUp

User == ClickDisconnect \/ ClickConnect \/ ClickClear \/ ClickSend \/ CloseWindow

WindowRuns ==
    \/ ReadySocket \/ WriteFails \/ ClearCount
    \/ Clean(Window) \/ OnStatChanged(Window) \/ Display(Window)

Receives(r) ==
    \/ Watch(r) \/ SelectReady(r) \/ SelectFails(r) \/ RecvCall(r) \/ RecvData(r)
    \/ RecvEnds(r) \/ Check(r) \/ TestFlag(r) \/ Cleanup(r) \/ Unflag(r)

ReceiverRuns(r) == Receives(r) \/ Clean(r) \/ OnStatChanged(r) \/ Display(r)

Peer(c) == PeerAccepts(c) \/ PeerSends(c) \/ PeerCloses(c)

Next ==
    \/ User \/ WindowRuns \/ WriteEnds
    \/ \E r \in Receivers :
          Lives /\ (ReceiverRuns(r) \/ SelectTimesOut(r))
    \/ \E c \in Conns : Lives /\ Peer(c)

Spec == Init /\ [][Next]_vars

\* Fairness.  Every thread keeps running, its timeouts of 5 and 20 seconds
\* included, but for the user, the peers, the send that waits for one of them, and
\* the 300 seconds of line 114.  The fairness of a receive thread is strong: a
\* message it sends to the window is handled if the window's thread is back in its
\* loop again and again, and a thread that waits for the mutex gets it in the end.
Fairness ==
    /\ WF_vars(WindowRuns)
    /\ \A r \in Receivers : SF_vars(Lives /\ ReceiverRuns(r))

FairSpec == Spec /\ Fairness
-----------------------------------------------------------------------------
\* Every variable of the client keeps its type, and Winsock is not started again
\* for every connection.
TypeOK ==
    /\ client_fd \in Conns \cup {NULL}
    /\ connected \in BOOLEAN /\ gwinsock_init \in BOOLEAN
    /\ wsa \in Nat
    /\ gui_connected \in BOOLEAN /\ label \in {"connect", "disconnect"}
    /\ g_mutex \in Threads \cup {Nobody}
    /\ g_display_count \in Nat /\ shown \in Nat
    /\ pc \in [Threads -> {"none", "loop", "startup", "flag", "socket", "block",
                           "connect", "await", "unblock", "flagUp", "clear", "write", "gone",
                           "clean", "close", "tellUp", "tellDown", "told",
                           "labelUp", "labelDown", "display", "send", "count",
                           "watch", "select", "recv", "receiving", "check",
                           "winsock", "cleanup", "unflag"}]
    /\ back \in [Threads -> {"loop", "connect", "flagUp", "clean", "watch",
                             "winsock"}]
    /\ sock \in [Conns -> {"none", "made", "pending", "up", "closed"}]
    /\ inbox \in [Conns -> Nat] /\ sent \in 0 .. MaxChunks
    /\ eof \in [Conns -> BOOLEAN]
    /\ watched \in [Receivers -> Conns \cup {NULL}]
    /\ reading \in [Receivers -> Conns \cup {NULL}]
    /\ overlapped \in BOOLEAN

Quiet == Pumps /\ \A r \in Receivers : ~Alive(r)

\* Once the user has let a receive thread end before connecting again, nothing is
\* left of a connection that ended: the two flags and the button say so, no socket
\* is open, and Winsock is up exactly if gwinsock_init says so.  (mysocket_clean,
\* waitReceive, ReadySocket.)
NothingLeft ==
    Quiet /\ ~overlapped =>
        /\ ~connected /\ ~gui_connected /\ label = "connect"
        /\ \A c \in Conns : ~Open(c)
        /\ wsa = IF gwinsock_init THEN 1 ELSE 0

\* g_display_count, where the next message goes, is the end of the text, though
\* two threads display and a third step clears.  (DisplayMessage, ClearDisplayArea.)
CountIsEnd == Quiet /\ ~overlapped => g_display_count = shown

\* The window's thread is not held up for good by a peer in whose connection there
\* is no room for what it sends.
SendsEnd == []<>~At(Window, "write")

\* The window answers again, as long as no send waits for ever: connecting is given
\* up after five seconds, and a display that waits for the window is not waited
\* for.  A peer that stays but does not read what it is sent keeps the window from
\* answering (gui_client.c 165, myclient.c 104), and with it the receive thread,
\* which waits in SendMessage for the window (296).
WindowReturns == SendsEnd => (~Pumps ~> Pumps \/ ~Lives)

\* A receive thread ends once the window is disconnected.
DisconnectEnds ==
    \A r \in Receivers :
        Pumps /\ ~gui_connected /\ Alive(r) ~> ~Alive(r) \/ overlapped \/ ~Lives
==============================================================================
