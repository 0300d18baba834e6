# cexp: a verification project

cexp is a collection of small Windows programs in C and C++: a blocking queue,
socket servers and clients with and without a window, an SSL server on
`select`, packet capture, and loaders for a JVM. The programs share files and
static variables rather than interfaces, and most of what can go wrong in them
goes wrong between threads; what is left goes wrong in arithmetic on bytes and in
early returns. This directory holds TLA+ models of both, the TLC runs that check
them on small instances, and TLAPS proofs that hold for every instance: nearly every
safety property that a run checks is a theorem. Paths below are relative to `src/src/utils/`; line
numbers are those of the files there.

## 1. The system

| part | files | state | operations | whom it works with |
|---|---|---|---|---|
| blocking queue | `queue/blocking_queue.c`, `include/xqueue.h` | list of nodes, size, lock, two condition variables; static `stop`, `glimitSize` | createQueue, enqueue, dequeue, destroyQueue | called by the IOCP server's completion and handler threads, and by its test |
| queue test | `queue/queue_test.c` | counters | one producer and two consumers for ever | the queue |
| IOCP server | `socket/myIocpServer.c` | static `winsock_init`, `g_hcp`, `gQueue`, `g_sSocket`, `g_cSocket`; a context per client | startIocpServer, CompletionThread, HandleReceivedThread, mysocket_clean, socketWrite | queue, Winsock, two callbacks into the window |
| GUI server | `socket/gui_server.c` | `state`, the button's label, the receive area, `g_recv_count`, a lock | start, stop, clear, send; OnStatChanged, OnReceived | IOCP server; every change of a control is a message to the window's thread |
| select SSL server | `socket/myserver.c` | `count` and three tables of two slots | SSLServerThread | OpenSSL and non-blocking sockets |
| client | `socket/myclient.c`, `socket/gui_client.c` | global `client_fd`, two flags called `connected`, `gwinsock_init`, a mutex | connect, disconnect, waitReceive, send, clear | Winsock; callbacks into the window from two threads |
| IOCP SSL server | `socket/myIocpSSLServer.cpp` | the statics of the IOCP server, and one global `ssl` for all sessions; a memory BIO per packet | startIocpServer with the handshake, CompletionThread | OpenSSL, completion port |
| socket examples | `socket/{sslserver.cpp,sslclient.c,udp_test.c,example.c}` | none shared | straight-line, or an accept loop | OpenSSL, Winsock |
| packet formats | `net/pro_frame.c`, `../includes/pro_format.h` | a frame | tcp_rep_frame, cal_checksum | capture |
| adapters | `net/nets.c` | one buffer with the list of devices | list_devs, my_copy, get_adapter_mac, get_interface_status | IP helper API |
| capture, ARP | `net/npcap_utils.c`, `net/Main_net.c` | `pHandle`, the adapter's name | pick_dev, dev_listen, send_arp, the receiving thread and its callback | Npcap |
| JVM loaders, agent, JNI | `others/local_utils.c`, `others/Main.c`, `jni/myjni.c`, `javaagent/myagent.c`, `../cplus/startjvm.cpp` | handles | load jvm.dll, create a VM, load the agent, native methods | the JVM |
| helpers | `others/file_util.c`, `others/mykeyboard_hook.c` | a file, a hook | append_write, read_all, hook | C library, Windows |
| hook demonstrations, build | `others/*`, `myhook/*`, makefiles | none | one-shot | Windows |

What is hard in each, and the properties that make it correct:

* **Queue.** Wake-ups are sent after the lock is released; a woken thread may
  find the slot or the item taken (line 32 calls it a stolen wake-up); `stop` is
  written without the lock; the drain loop frees the wrong node of each pair and
  then reads it; the queue is freed before its lock is left; `notFull` is never
  initialised. It should be a bounded first-in first-out buffer, lose no
  wake-up, own each node once, and let everybody go when it is destroyed.
* **IOCP server.** Static variables shared by a thread that accepts, a thread
  that completes, a thread that handles, and the caller; early returns that
  leave things half done; a port closed under a thread that waits on it. It
  should not use what it has freed or closed, and leave nothing behind.
* **GUI server.** A lock held while waiting for a thread that may wait for that
  lock; a label and a state written in different steps by different threads; a
  blocking send in the window's thread, for which every other thread then waits. The
  display should show what was received, in order, and the buttons should tell
  the truth.
* **SSL server.** A counter and three tables that must agree; a peer that
  withdraws between `select` and `accept`.
* **Client.** One global socket for the window's thread and for receive threads
  of two generations, which all may close it; a mutex that is given up after 20
  seconds because its holder may wait for the window; a blocking send in the window's
  thread. A connection that ended should leave nothing behind, and the window should
  come back, whatever else the threads do, unless its peer never reads.
* **IOCP SSL server.** The accept thread makes a session and runs its handshake
  while the completion thread decrypts, and both find the session in one global;
  the handshake blocks the accept thread. What is received should be decrypted by
  its own session, the completion thread should come back to its port, and peers
  in the backlog should be served.
* **Packets and adapters.** Fields that are loaded in the machine's byte order and
  stored in the wire's; odd payloads; the carry of a carry; a buffer measured in
  one pass and filled in another, in bytes here and in wide characters there. The
  checksums should verify at the receiver, and the two passes should agree.
* **Capture.** A device number that is a byte, printed in one numbering and used
  in another; a thread that never ends and works on a handle main closes. The
  device opened should be the one printed beside the number typed, and main should
  end although the thread does not.
* **Programs without threads.** Early returns that give back a prefix of what was
  taken, in some order, failures nobody tests for, and calls that are wrong whatever
  came before. Those that clean up should do so on every way out, and nothing should
  outlive what it needs.

`PROJECT.json` lists the most telling of these hazards with the line where each
bites; findings of less weight are in section 3.

## 2. The modules

| module | models | extends |
|---|---|---|
| `BoundedFifo` | what the queue promises: a bounded buffer that can be closed | |
| `BlockingQueue` | `blocking_queue.c`, in detail; `Fifo` is its refinement mapping to `BoundedFifo` | |
| `BlockingQueueProofs` | theorems: types, list, limit, ownership, shutdown, no lost wake-up | `BlockingQueue` |
| `BlockingQueueFifoProofs` | theorem: the refinement | `BlockingQueueProofs` |
| `IocpServer` | `myIocpServer.c` | |
| `IocpServerProofs` | theorems: its four invariants | `IocpServer` |
| `GuiServer` | `gui_server.c` on top of it: it restricts who starts and cleans, and refines the callbacks | `IocpServer` |
| `GuiServerProofs` | theorems: the button, the refinement of `IocpServer`, the order of what is shown | `GuiServer`, `IocpServerProofs` |
| `IocpSslServer` | `myIocpSSLServer.cpp` on top of it: the session, the handshake and the decryption | `IocpServer` |
| `IocpSslServerProofs` | theorems: decryption by the right session, contexts, buffers, the end of a run | `IocpSslServer` |
| `SslServer` | `SSLServerThread` of `myserver.c` | |
| `SslServerProofs` | theorems: the counter, the tables, a slot for every accept | `SslServer` |
| `Client` | `myclient.c` with `gui_client.c` | |
| `ClientProofs` | theorems: what a connection leaves behind | `Client` |
| `Frames` | `tcp_rep_frame`, its checksums, and the header of `example.c`, as functions on 16-bit words | |
| `Adapters` | `list_devs`, `my_copy` and `pick_dev` as functions on lengths and numbers | |
| `ArpSponsor` | main of `Main_net.c` and its receiving thread | `Adapters` |
| `NetProofs` | theorems: every checksum, the list of adapters, the device picked | `MCNet` |
| `Programs` | sixteen programs and functions without threads, by what they take and give back | |
| `MCBlockingQueue`, `MCGuiServer` | symmetry sets, and a negative size, for TLC | |
| `MCIocpServer` | two small shapes of program: several runs, or several connections | `IocpServer` |
| `MCNet` | `ArpSponsor` beside the bounded inputs of `Frames` and `Adapters` | `ArpSponsor`, `Frames` |

Every module with variables of its own states their types in a `TypeOK` (or
`IocpTypeOK`) except `ArpSponsor`, `IocpSslServer` and `Programs`; that of the
queue is checked by a run, and those of the queue, `IocpServer`, `SslServer` and
`Client` are proved as parts of the inductive invariants of section 4.

### BlockingQueue

One queue, from `createQueue` to the end of `destroyQueue`. A critical section
is one action, since only its holder touches what it touches; `malloc` before
it and the wake-up and `free` after it are actions of their own. `pc[t]` says
where a thread is: `idle`, `enter` (waiting for the lock), `locked`, `asleep`,
`woken` (waiting for the lock again), `wake` (lock released, wake-up still to
be sent). `phase` walks through `destroyQueue` line by line. `chain` is a
history variable: the nodes linked and not yet unlinked. `alloc` is the set of
nodes that malloc has handed out, so that a node can be freed and handed out
again while someone still points to it.

`EnqCall`, `EnqWait`, `EnqAbort`, `EnqLink`, `EnqWake` are the paths of
`enqueue`; `DeqNull`, `DeqCall`, `DeqWait`, `DeqStop`, `DeqUnlink`, `DeqWake`
those of `dequeue`. A sleeper may wake on its own (`SpuriousWake`), as Windows
documents. Where the C standard defines no outcome (the freed lock, the junk
`notFull`, the freed node read by the drain loop) a step either does what it
does on sound memory, or its thread is gone (`Fault`, `FaultOwner`).

### IocpServer

A *run* is one call of `startIocpServer`; its socket, port and queue are named
after it, and the statics say which run's are current. The pc of the starting
thread is `srv`, of the completion thread `comp`, of the handler thread `hnd`.
One access to a shared variable is one action. socket() may fail, accept may fail on
a socket that listens, and both are as unchecked as in the code. The network ends an outstanding
receive with data, with an end, or with an error (`RecvEnds`); packets wait in
the port in order. The module's own next-state relation `IocpNext` lets any
program call it that starts servers one after the other. The queue is used
through what `BlockingQueue` implements: an unlimited buffer that is never
closed, as nothing in this file calls `destroyQueue`.

### GuiServer

The window's thread is `gui`: in its message loop, inside `mysocket_clean`,
inside `ClearRecvArea`, inside `SendMessageToClient`, or gone. A message from another
thread to a control (`Relabels`, `DisplaySelects`, `DisplayReplaces`) is an action
that is enabled only in the loop (`Pumps`). The send of `socketWrite` blocks
(`myIocpServer.c` 218): after `ClickSend` and `SendCalls`, which reads `g_cSocket`, the
window's thread is in send until the peer makes room (`SendReturns`), or the socket is
closed, which fails it (`SendFails`). The receive area is a sequence of chunks; the
counter and the caret count chunks. Two clicks on "start" before `state` has
changed start two runs that overlap: `MakeSocket`, `Bind` and the rest act on
whatever the statics hold by then.

### SslServer

One pass of the loop is a step for `select`, one for `accept`, one for each
slot's handshake and one for each slot's read; peers connect, withdraw from the
backlog, end their handshake, send and leave between any two of them.

### Client

The window's thread connects, disconnects, sends and clears; each connection starts a
receive thread. `mysocket_clean`, `OnStatChanged` and `DisplayMessage` run in
both kinds of thread, so `pc[t]` says where a thread is in them and `back[t]`
where it goes on. `OnStatChanged` writes the window's `connected` and reads it
again (`Tell`, then `TellDown` or `StartReceive`); a receive thread reads
`client_fd` three times a turn (`Watch`, `RecvCall`, `Check`). When the user
reconnects while an old receive thread is still on its way out, that thread may
close the new connection, start a second receive thread for it, take Winsock
down under it or let two messages share one place in the display. All of this is
in the model. The history variable `overlapped` records that it may have
happened, and the properties say what holds of a user who is not that quick. The send of the window's thread
(`ClickSend`) ends when the peer makes room (`WriteEnds`) or the connection is gone
(`WriteFails`); until then the window handles nothing.
Winsock's count of `WSAStartup` calls is `wsa`; the wait for the mutex times out
only when its holder waits for the window's thread and the window's thread waits
for the mutex (`HeldUp`), since every other wait for that thread is shorter than
20 seconds.

### IocpSslServer

The set-up, the port, the loop and the wind-down are the actions of `IocpServer`,
since the two files share that code line by line; the callbacks are never set and
the queue is never given anything. Between `accept` and the first `WSARecv` come
`SslNew`, `SetFd` and `SslAccept` (`stage`), and between a packet and the next
`WSARecv` come `SetBio` and `SslRead` (`comp` is `bio`, `read`). Both threads go
through the global `ssl`, so that `SetBio` may change, and `SslRead` may read, the
session of a connection that arrived in the meantime; `SslReadWaits` is the case in
which that session reads its socket and waits for another peer. Two threads in one
session, and a result of `SSL_read` that is not an index of the buffer, may end the
process (`Fault`). `overlapped` and `neat` are history variables: a connection was
accepted while another was open; each packet held exactly one short record.

### Frames and Adapters

A header is a sequence of the words on the wire. A field loaded by the program is
such a word with its bytes swapped, so `NextId` and `AddLong` add in the wrong byte
order, as the code does. A checksum buffer is a sequence of words of this machine
equal to those on the wire, since the program swaps each back; `example.c` does
not, and `ExampleHeader` sums the words as they are loaded. `Verifies` is what a
receiver does (RFC 1071), over the bytes that are sent. In `Adapters` a string is
its length: `Room` is the first pass of `list_devs`, `Append1` a turn of the
second, `my_copy` reports what it counts and whether it wrote a terminator.

### ArpSponsor

`main` is where main is, `rcv` where `recevie_thread` is, `handle` is `pHandle`.
Main picks, for which it waits for the user (`Pick`), opens, frees the name, starts the
thread, sends twice and closes. A list with a usable device at place 32 or later makes
`pick_dev` write beside its array (`PickOverruns`): anything may be picked, or the
process ends. The thread captures and forwards without end, and what it sends it may
capture again. Using a name or a handle that was never set, or a handle that is closed (`UsesUnset`,
`CloseNull`, `UsesNoHandle`), ends the process.

### Programs

Each program is the sequence of the calls that matter for what it holds; each call
says what the program does when it fails: goes on, gives some things back and
returns, calls exit, or jumps. `Misuses` is a call that is undefined although nothing
failed. One set of actions runs them all: `Taken`,
`Used`, `Given`, `Jumps`, `Fails`, `GivesBack`, `Strays` when something is misused, or
used that is not held, and `Crashes` for what may come of that. `CleansUp` names the
programs that have a clean-up on every way out, `Misusers` those that meet undefined
behaviour without a failure that escaped them.

## 3. The runs

| run | instance | what it shows |
|---|---|---|
| `QueueSafety` | 2 producers, 2 consumers, limit 1, destroyed at any moment, `notFull` sound or junk | `Bounded`, `NoLostWakeup`, `NoSleeperLeftBehind` |
| `QueueList` | no limit (size -1), 5 nodes, 2 producers, 1 consumer, 2 different items, destroyed | `TypeOK`, `ListInv`, `OneOwner` while the drain loop frees memory that producers get again; `ImplementsFifo` |
| `QueueLive` | the threads of `queue_test.c`, limit 1, destroyed at any moment or never | `EveryItemLeaves`, `ProducerGetsThrough`, `SleepersReturnOnceStopped` |
| `Iocp` | 2 runs in sequence with 1 client and 1 receive, or 1 run with 2 clients and 2 receives each | `StopLeavesNothing` after failed starts and early cleans; `ContextSafe`, `ReceiveBuffer`, `WriteTarget` |
| `IocpSsl` | the server main starts, 2 connections, 1 receive each | `Decrypted`, `ContextSafe`; `CompletionReturns`, `BacklogServed` |
| `GuiRuns` | 2 runs that may overlap, no client | `RunBehindLabel` |
| `GuiShow` | 1 run, 1 client, 2 receives; start, stop, clear, send and close at any moment | `ReceivedInOrder`; `ClearEnds`, `DataShown`, `SendEnds`, `StopEnds` |
| `GuiState` | 1 run that may fail | violated: see Findings |
| `SslServer` | 3 peers for 2 slots, 1 request each | `CountMatches`, `SlotsAgree`; `Answered`, `SlotFreed`, `BacklogServed` |
| `Client` | 2 connections, 3 receive threads, 1 message; connect, disconnect, send, clear and close at any moment | `NothingLeft`, `CountIsEnd`; `WindowReturns`, `DisconnectEnds` |
| `Net` | main of `Main_net.c` with every list of up to 6 devices, and two of 33; bounded frames and adapter lists | `AnswersVerify`, `ListsFit`, `PickedIsPrinted`; `MainEnds` |
| `Programs` | every program, every call failing or not | `WaysOut`, `NothingOutlives` |

**Bounds.** The queue's races need two threads of a kind (one takes what the
other was woken for) and a limit of one or two; the drain loop differs between
its first turn, its second and its last, so five nodes make it turn often
enough with one left to malloc. Two runs are enough for one to inherit what the
other left, since a run reads only the statics; two clients for one to disturb
the other, and two receives for the buffer to be used again, and for one chunk to be
displayed while the next is on its way (`OrderCorrect` is about any number). Three peers on two
slots make the server full and reject. Two connections let an old receive thread
meet a new one, and then at most three are alive at a time. Unbounded in the code and bounded here:
the number of runs, connections, receives (`MaxChunks`), requests (`MaxData`)
and nodes. In `Iocp` the two shapes are separate because what one run leaves to the
next and what one connection does to another do not meet: a second run has a queue
and a port of its own. `IocpSsl` needs a second connection, to take `ssl` over, and
no third. Symmetry is used in safety runs and with `ImplementsFifo`, which is an
invariant of steps and states nothing about fairness.

In `Net`, words are 0, 255 and 65535, where bytes carry and swapping matters, in
every field that enters arithmetic, and a second set of packets (`CarryPackets`)
lets one word take all 65536 values with the others at their largest, so that the
folding meets each of its carries; payloads have zero to three bytes, odd and even;
up to three adapters of up to two characters per name make a first, a middle and a
last one, and `my_copy` compares lengths only with what the same lengths added up
to. Numbers typed include 256 and 257, which a byte cannot hold, and of the two lists
of 33 devices one fills the array of `pick_dev` and one goes beyond it. `Sends` is 2 for
50: a turn depends on no other. `Programs` has no bound.

**Deadlock.** Every system here may stop: the queue is destroyed, the process is
ended by undefined behaviour, the window is closed, the server or the program ends.
That nobody waits for ever is said by the liveness properties instead.

**Fairness.** Weak fairness for what a running thread does next; that Windows
schedules every runnable thread is all it says. Strong fairness for taking a
critical section and for a message to the window's thread: both are free again
and again rather than always, and Windows hands neither out unfairly for ever
(sent messages are handled before clicks). Producers, peers, users and the
network need never act: not the user for whom `scanf` waits (`Pick`), not the peer for
whose reading a blocking send waits (`SendReturns`, `WriteEnds`), and accept need not
fail on a socket that listens (`AcceptGoesOn`). Where a property needs a peer to read,
it says so as a hypothesis (`PeersRead`, `SendsEnd`). Fairness of `Dequeue` includes calling `dequeue` again,
because both callers are endless loops (`queue_test.c` 30-36, `myIocpServer.c`
204-209). Nothing is assumed of which sleeper a wake-up picks. In `IocpSsl` both threads of
the server are fair, peers and network are not; in `Net` only main is, since its
end must not depend on the thread it started.

Each property of a passing run has a mutant, a plausible bug in one definition,
under which TLC finds it violated in the same run.

### Findings

`GuiState`, which TLC violates: `gui_server.c:27` documents `state` as "0: stopped 1: running".
When the start fails, `myIocpServer.c:45` reports `wsacode + 1` and
`gui_server.c:43` stores it; `ToggleServer` then treats every click on "start"
as a click on "stop", and the server cannot be started until the program is.

Two more places where the text says one thing and the code does another. The models
have what the code does, and no run states the text:

* The prompt of `pick_dev` asks for "1-%d" and calls any other number an "incorrect
  interface number" (`net/npcap_utils.c` 100-107), but the number is kept in a byte:
  257 opens the device printed beside 1. `PickedIsPrinted` is about numbers below 256.
* The comment at `javaagent/myagent.c` 146-151 asks that what the agent allocates is
  freed in `Agent_OnUnload`; lines 235-238 free nothing, and environment and
  monitor stay (`AgentOnLoad` in `Programs`).

True of the code and found while modelling, where no document says otherwise:

* The send button of either window blocks the window's thread until the peer reads
  (`socket/gui_server.c` 154 with `myIocpServer.c` 218, `gui_client.c` 165 with
  `myclient.c` 95 and 104). A peer that stays and does not read hangs the window, and
  with it every thread that sends it a message. `DataShown` and `WindowReturns` assume
  that no peer does so for ever; `SendEnds` says when the server's send ends all the
  same: the connection is closed under it.
* `Stuck` in `GuiServer`: "clear" while data are being displayed can block the
  window for ever (`gui_server.c` 250 and 265). `ClearEnds` and `DataShown`
  name it as the exception they need.
* A quick reconnect in the client (`overlapped`): the old receive thread closes
  the new connection on its way out, itself or through `WSACleanup` (`myclient.c`
  166 and 168), and before that may start another receive thread for it or keep
  the window from starting one (`gui_client.c` 54 and 56).
* `ReceivedInOrder` needs its one run (`OrderCorrect` assumes it): TLC finds it
  violated by two runs one after the other. `gQueue` is still the queue of the run
  before when the handler thread starts ahead of line 60 of `myIocpServer.c`; the new
  thread and the old one, which nothing ends, then serve the same queue and hand what
  they took to the window in either order.
* The handler thread may miss the queue (`NoHandler`; `myIocpServer.c` 58-60),
  after which nothing received is shown.
* `destroyQueue` never frees the first node, frees the others one turn early,
  and frees the queue before leaving its lock. `OneOwner` shows that the nodes it
  frees are nobody else's all the same, and `SleepersReturnOnceStopped` needs
  `Faulted` as an exception for the lock.
* One withdrawn connection ends the SSL server (`myserver.c` 165-168).
* In the IOCP SSL server, once connections overlap data are put under the session
  made last, and the completion thread may wait for another connection's peer
  (`myIocpSSLServer.cpp` 103, 205, 208): `Decrypted` and `CompletionReturns` name
  `overlapped`. A peer that stays silent in its handshake holds up all others
  (line 105): `BacklogServed` assumes that none does so for ever. The result of
  `SSL_read` is used as an index untested (line 209).
* The acknowledgement of an answer is the sequence number plus the frame's length
  less 44, added in the wrong byte order; 44 is right for a loopback frame only
  (`net/pro_frame.c` 39). The identification is incremented alike. The checksums
  verify all the same.
* The TCP checksum of `example.c` is computed over a buffer filled through pointer
  arithmetic on `unsigned short`, and so over the wrong bytes; its IP checksum is
  right although it is never swapped.
* A forwarded frame is captured again by the handle it was sent on, and each copy
  is leaked (`net/Main_net.c` 32-37). main notices neither that no device was
  picked nor that it could not be opened (113), and uses what was never set; and it closes the handle while the thread still
  uses it (128).
* `choose_dev` ignores the number it is given (`net/nets.c` 25); nothing calls it.
  Without a listed device `list_devs` writes behind an empty buffer (121), and
  `pick_dev` writes beside `ri` when there are 32 devices (`net/npcap_utils.c` 80).
* The programs outside `CleansUp` keep something on some way out: `example.c` the
  socket and Winsock after an early return; `sslserver.cpp` the context, and a BIO or
  the acceptor; main of `myserver.c` its context, the clients connected and their
  sessions when the loop ends (167, 259-261), every session whose read failed
  (238-244), and the socket it could not bind (316); the loaders the VM, whose library
  they release, and `local_utils.c` the class path it passed; the agent its
  environment and monitor; `getString` the characters; `get_interface_status` its
  table.
* `Misusers` meet undefined behaviour although nothing has failed: `startjvm.cpp` 18
  appends to a string literal; the loaders call a void main without its argument as a
  method that returns an int (`others/local_utils.c` 97, `others/Main.c` 81), `sayHello`
  a void method as one that returns an object; `append_write` closes a file again after
  `fclose` failed (`others/file_util.c` 23).

## 4. The proofs

Each theorem holds for every value of the constants its module's named assumptions
admit (any finite sets of threads, connections, runs and memory, any number of
items, slots, receives, sends), and TLC evaluates the assumptions on every run. None
of them states more than that the names of different things differ, that sets whose
sizes are counted are finite, and that bounds are numbers. Every inductive invariant was checked by
TLC on the run's instance, or on a smaller one, before it was proved.

Each proof has one lemma per action or group of actions, with one step per part of
the invariant that the action can disturb, and a lemma for the actions that leave
what the invariant speaks about alone.

### The queue (`BlockingQueueProofs`, `BlockingQueueFifoProofs`)

| theorem | says |
|---|---|
| `Inductive` | `Spec => []IInv` |
| `TypeCorrect`, `ListCorrect`, `BoundedCorrect`, `OneOwnerCorrect`, `NoSleeperCorrect` | the invariants `TypeOK`, `ListInv`, `Bounded`, `OneOwner`, `NoSleeperLeftBehind` |
| `NoLostWakeupCorrect` | `Spec => []NoLostWakeup` |
| `FifoCorrect` | `Spec => ImplementsFifo` |

`ListInv` is not inductive: a producer could link a node that is already in the
list, or a consumer hold it still. `IInv` adds where each thread stands with
the node it holds (`CallInv`: allocated, its `next` null until it is linked),
that no node is held twice or both held and linked (`HeapInv`), what holds
before and after `stop` is set (`PhaseInv`), and what the drain loop still has
to visit (`DrainInv`: a path of distinct nodes from `front`, all but the first
allocated and in nobody's hands).

`NoSleeperLeftBehind` rests on the fact that once `stop` is set nobody can go
to sleep, and that the two broadcasts of `destroyQueue` happen after it, under
the lock. `NoLostWakeup` is a balance that is inductive relative to `IInv`: a
link adds an item and a pending wake-up, a wake-up turns into a thread that will
look, and a thread that stops looking takes an item with it or saw none. For
`FifoCorrect` each action is mapped to one abstract step or to none.

### The IOCP server (`IocpServerProofs`)

| theorem | says |
|---|---|
| `Inductive` | `IocpSpec => []IInv` |
| `StopCorrect`, `WriteCorrect`, `ContextCorrect`, `BufferCorrect` | the invariants `StopLeavesNothing`, `WriteTarget`, `ContextSafe`, `ReceiveBuffer` |

Any number of runs, one after the other, each with any number of clients. That runs
do not overlap (`OneRun`) is part of the invariant, since `Start` waits for it in
this module. From it follows what the statics say (`WinsockAgrees`, `PortsAgree`):
the flag and Winsock's count agree but between two neighbouring lines of one thread,
and `g_hcp` is the port of the run that has one. The rest says who holds a client.
It is one of: the accept loop that sets it up (`SetUpAgrees`), the network
(`pending`), a packet in the port (`PacketsAgree`), the completion thread
(`CompletionAgrees`); each excludes the others, and each but the first has its
context alive while the port is open. `ContextSafe` alone is not inductive: it does
not say that no packet is left of a client whose context is being freed.
`BufferCorrect` turns "each excludes the others" into the sum over cardinalities
that the run checks.

### The GUI server (`GuiServerProofs`)

| theorem | says |
|---|---|
| `LabelCorrect` | `Spec => []RunBehindLabel`, for any runs, overlapping as they may |
| `ImplementsIocp` | `Spec /\ []OneRun => IocpSpec` |
| `GuiServerSafe` | `Spec /\ []OneRun => [](StopLeavesNothing /\ WriteTarget /\ ContextSafe /\ ReceiveBuffer)` |
| `OrderCorrect` | if there is one run, `Spec => []ReceivedInOrder` |

The label needs only where the threads of runs are, since a run that has reported success
can only go on to report its end, and the report turns the label back. The window's
program is an `IocpServer` as long as two quick clicks on "start" do not make two
runs; `[]OneRun` says that of the behaviour, and every behaviour in which the user
waits for a run to start or to end satisfies it. Without it the four invariants are
not claimed: the statics are then those of the run that wrote them last.
`ReceivedInOrder` is stated of one run, as in its comment and in the run `GuiShow`.
Its invariant orders all that is on its way: the text before what the handler thread
holds, that before the queue, each by the number of its receive (`DataOrdered`); and
while a message is between selecting and replacing, the caret is at the end of the
text (`AtEnd`), which may only lag behind the counter.

### The IOCP SSL server (`IocpSslServerProofs`)

| theorem | says |
|---|---|
| `Inductive` | `Spec => []SslInv` |
| `DecryptedCorrect` | `Spec => []Decrypted` |
| `ContextCorrect` | `Spec => []ContextSafe` |
| `BufferCorrect` | `Spec => []BufferHeldOnce`: `ReceiveBuffer` with the steps of the decryption among those that hold the buffer |
| `StopCorrect` | `Spec => []StopLeavesNothing` |

They are about one run, because main starts one; clients and receives are any number.
`SslInv` has the same account of who holds a client, with the steps of the
handshake and of the decryption among its holders, and `OneSession`: without overlap only the client
accepted last can be received from, its session is the one in `ssl` from the end of
its handshake on, and the packet that is being decrypted is the only one not counted
yet. `StopCorrect` needs a second invariant, of Winsock and of the sockets the last
`WSACleanup` takes away (`WinsockAgrees`), which holds with and without overlap, as do
`ContextCorrect` and `BufferCorrect`.

### The SSL server (`SslServerProofs`)

| theorem | says |
|---|---|
| `Inductive`, `CountCorrect`, `SlotsCorrect` | `CountMatches` and `SlotsAgree` |
| `AcceptFindsSlot` | `[][\A c \in Conns : Accept(c) => LowestFree # {}]_vars` |

The two need each other. The counter has to be right for `Accept` to find a free
slot; the slots have to agree for `Release` to give back one that is occupied and
no other. That a set of free slots has a lowest one, and one only, comes from the
order of the numbers being well-founded.

### The client (`ClientProofs`)

| theorem | says |
|---|---|
| `Inductive` | `Spec => []IInv` |
| `NothingLeftCorrect`, `CountCorrect` | the invariants `NothingLeft` and `CountIsEnd` |

For any number of connections and receive threads. Before the user is so quick that
`overlapped` becomes true, there is at most one receive thread (`OneReceiver`), and
none while the window's thread connects (`WindowAgrees`). Each of the two flags, the
button, an open socket, Winsock's count and the mutex then has a thread that will
take it back, named by the set of places that thread can be in (`Serving`, `Linked`,
`Labelled`), so that at rest, where no such thread is, none of them is set. Types
are proved with and without overlap.

### The network tools (`NetProofs`)

| theorem | says |
|---|---|
| `ChecksumVerifies` | for every sum below 65536 * 65535, the sum with its checksum is 65535 at the receiver |
| `AnswerHeaderVerifies`, `AnswerSegmentVerifies`, `ExampleHeaderVerifies` | the IP header and the TCP segment `tcp_rep_frame` makes, and the header of `example.c`, verify |
| `EveryAnswerVerifies`, `AnswersCorrect` | all three, for every packet and every payload of up to 32767 bytes; `MCSpec => []AnswersVerify` |
| `ListFits`, `ListsCorrect` | the two passes of `list_devs` agree, for every list of adapters; `MCSpec => []ListsFit` |
| `PickCorrect` | `pick_dev` gives the one device beside which `typed % 256` was printed, or none if it was not printed |
| `OpensPrinted`, `PickedCorrect` | for a number below 256 and a list that `ri` holds, the device opened is the one printed beside the number typed, or none if it was not printed; `Spec => []PickedIsPrinted` |

Two hypotheses come from the widths in the code. A length is a `short`, so a payload
has at most 32767 bytes; the sum of its words then stays below the 65536 * 65535 that
two folds can take. And the array `ri` of `pick_dev` has 32 elements: a list with a
usable device at a later place than 31 (`RiHolds`) overruns it, and of what follows
nothing is claimed. The number typed is kept in a byte, so that `OpensPrinted` is about
numbers below 256; `PickCorrect` says what becomes of all others.

*Folds.* The words of a buffer, the sizes of the strings of a list and the devices
printed are added up by loops, which the model writes as folds. The provers do not
unfold a fold, and the library's induction takes an operator they cannot be given. So
a fold is first shown to be a sequence of steps: there is a function on `0 .. n` that
starts with the base, makes one turn of the loop from each index to the next and ends
with the fold (`FoldExists`, `FoldSteps`; `TotalIs`, `PlacesIs` and `DevsIs` for the
three loops). The induction over those steps is `Climb`: among the indices at which
something fails there would be a least one, and the one before it contradicts it.

*Checksums.* A sum is `65536 h + l`; the first fold is `h + l = 65536 a + b` with `a`
its carry, and `a + b` fits in 16 bits because `h` is less than 65535, so that the
second fold has no carry left (`FoldedHalf`). Sum and complement add up to
`65535 (h + a + 1)`, and that is no zero. The sum of a buffer is that of its parts
(`TotalConcat`), and the sum of the bytes that are sent is that of the words that were
added up, the padding of an odd payload included (`WordsOfBytes`). `example.c` adds up
words in the other byte order: swapping a word multiplies it by 256 up to a multiple of
65535 (`SwapTimes`), so that the sum of the swapped words and the swapped checksum is a
multiple of 65535 as well (`TimesVerifies`).

*The list of adapters.* While the second loop has devices to come, the rest of the
buffer is what the first loop added up for them: each turn takes the room of its device
and no more, its three strings are whole (`TurnFits`), and as no device takes no room
the rest is zero at the last one and not before.

*The device.* The number printed beside a device is the count of usable devices up to
it. It never falls from one device to the next and rises at each usable one
(`NumbersRise`), so that no two usable devices have the same number, and it is the
device's place in the list that is printed (`PlacesNumbered`).

### Model-checked only

* Every liveness property. The prover has no rules for fairness and `ENABLED`.
* `WaysOut` and `NothingOutlives` of `Programs`. The sixteen programs have no
  constants: the run is exhaustive as it is, and a proof would repeat it.
* `StopLeavesNothing` and the others for the GUI server when runs overlap, which no
  run claims either. `ReceivedInOrder` is stated, checked and proved for one run; for
  two it is false, see Findings.

## 5. What is left out

* Two queues at a time, which share `stop` and `glimitSize`.
* Handle reuse: a closed socket or port number is not handed out again. Failures
  of `CreateThread`, `calloc` and `CreateIoCompletionPort`, none of which the
  code tests.
* The user moving the caret in the receive area between the two messages of
  `DisplayMessage`, the size limit of an edit control, and the short-lived
  `WSAStartup`/`WSACleanup` of `getLocalIp` in the window's thread.
* The timeouts of `myIocpServer.c` 95-96 order nothing (the second always
  expires) and are not modelled as time.
* In the client, the steps of `mysocket_clean` at the end of `WinMain`, which nothing
  can see any more (`CloseWindow` is one action), the byte `myclient.c` 148 may write
  behind its buffer, and data with a zero byte in it, after which the display counts
  more than it shows (`gui_client.c` 297). The message box about a text that is too long
  is left out: it has a message loop of its own.
* In `myserver.c`, `ServerThread`, which nothing calls; handshakes that fail
  while the peer stays connected are the peer leaving; the backlog of one
  connection the code asks for is not enforced. The result of `SSL_write` is not looked
  at (249): "answered" means handed to it. `SSL_new` does not fail for want of memory
  (177).
* In `myIocpSSLServer.cpp`, `SetCallBacks`, `socketWrite`, `mysocket_clean` and
  `createSocket`, which nothing calls, the contents of what is decrypted, and an accept
  that fails for want of memory or handles, which the run of `IocpServer` includes.
* In `net/`, Ethernet addresses and the contents of ARP frames, `choose_dev`, the
  bytes that `scanf` writes beside a one-byte variable, the branch of the callback
  behind its return, and a list without any listed device.
* In the programs, what they send, receive and print, the key log of
  `sslclient.c`, `JNI_OnLoad` and the native methods that keep nothing, and the
  agent's callbacks, which print.
* Drawing, fonts and controls; the last character of a text that is sent, for which
  the buffer is one short (`gui_server.c` 149).
* The hook and injection demonstrations: one-shot calls on another process with
  placeholders for their arguments, which leave nothing to state.

## 6. What could come next

1. The steps behind the liveness properties that are safety: that an outstanding
   receive of an open client always has a thread on its port, that a full SSL server
   has a slot to give back.
2. `SharedStatics`: two queues over one `stop` and one `glimitSize`.
