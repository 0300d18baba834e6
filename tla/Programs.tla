------------------------------- MODULE Programs -------------------------------
(***************************************************************************)
(* The programs without threads of their own: what each takes from the     *)
(* system, what it gives back on every way out, and which failures it does *)
(* not test for, and the calls that are wrong whatever came before. A      *)
(* program is a sequence of the calls that matter for that.                *)
(***************************************************************************)
EXTENDS Naturals, Sequences

\* What a program does when a call fails: it goes on as if nothing had happened,
\* gives undo back and returns, calls exit, or gives undo back and goes to call n.
Never == [can |-> FALSE]
Ways(ignored, exits, undo, to) ==
    [can |-> TRUE, ignored |-> ignored, exits |-> exits, undo |-> undo, to |-> to]
Ignored == Ways(TRUE, FALSE, << >>, 0)
Leaves(undo) == Ways(FALSE, FALSE, undo, 0)
Exits == Ways(FALSE, TRUE, << >>, 0)
GoesTo(undo, n) == Ways(FALSE, FALSE, undo, n)

Takes(r, fails) == [op |-> "take", of |-> r, fails |-> fails]
Uses(r, fails) == [op |-> "use", of |-> r, fails |-> fails]
Gives(r) == [op |-> "give", of |-> r, fails |-> Never]
Repeats(n) == [op |-> "jump", of |-> "", fails |-> GoesTo(<< >>, n)]
\* A call that is undefined although nothing has failed.
Misuses == [op |-> "misuse", of |-> "", fails |-> Never]

\* What is of no use once something else has been given back. "room" stands for
\* a buffer that may be written to and is large enough for what comes.
Within ==
    [socket |-> "winsock", client |-> "winsock", vm |-> "library", monitor |-> "env",
     entries |-> "table"]
\* The calls that give these back do nothing when there is nothing to give.
NullSafe == {"hook", "table", "winsock"}
-----------------------------------------------------------------------------
(* Sockets and TLS.                                                        *)

UdpTest_CleansFirst ==
    << Takes("winsock", Leaves(<< >>)), Takes("socket", Leaves(<<"winsock">>)),
       Uses("socket", Ignored), Gives("winsock"), Gives("socket") >>
UdpTest ==
    << Takes("winsock", Leaves(<< >>)),
       Takes("socket", Leaves(<<"winsock">>)),
       Uses("socket", Ignored),
       Gives("socket"), Gives("winsock") >>

SslClient ==
    << Takes("winsock", Leaves(<< >>)),
       Takes("socket", Leaves(<<"winsock">>)),
       Takes("ctx", Leaves(<<"socket", "winsock">>)),
       Takes("ssl", Ignored), Uses("ssl", Never),
       Uses("socket", Ignored),                      \* connect
       Uses("ssl", Leaves(<<"ssl", "ctx", "socket", "winsock">>)),
       Uses("ssl", Ignored),                         \* SSL_write
       Takes("room", Ignored), Gives("room"),        \* SSL_read, buffer[bytes]
       Gives("ssl"), Gives("ctx"), Gives("socket"), Gives("winsock") >>

SynSender ==    \* main of example.c
    << Takes("winsock", Leaves(<< >>)), Takes("socket", Leaves(<< >>)),
       Uses("socket", Leaves(<< >>)), Uses("socket", Leaves(<< >>)),
       Uses("socket", Leaves(<< >>)),
       Gives("socket"), Gives("winsock") >>

\* create_context and configure_context exit; a call of the loop that fails
\* goes back to the accept, call 7. SSL_set_bio hands the BIO to the session. A
\* message of 256 bytes is printed without a terminator.
SslServer ==
    << Takes("ctx", Exits), Uses("ctx", Exits), Uses("ctx", Exits),
       Takes("acceptor", Leaves(<< >>)), Uses("acceptor", Leaves(<< >>)),
       Takes("thread", Leaves(<< >>)),
       Uses("acceptor", GoesTo(<< >>, 7)), Takes("bio", GoesTo(<< >>, 7)),
       Takes("ssl", GoesTo(<< >>, 7)), Gives("bio"),
       Uses("ssl", GoesTo(<<"ssl">>, 7)),
       Uses("ssl", Ignored),                         \* SSL_read
       Takes("room", Ignored), Gives("room"),        \* printf
       Uses("ssl", Ignored),                         \* SSL_write
       Gives("ssl"), Repeats(7) >>

\* main of myserver.c. createSocket returns 0 or 1 for a socket when it fails;
\* accept then fails. SslServer.tla models the loop: here one connection stands
\* for those that are open when an accept that fails ends it (call 16). A
\* handshake that fails frees the session, a read that fails does not.
SelectServer ==
    << Takes("ctx", Exits), Uses("ctx", Exits), Uses("ctx", Exits), Uses("ctx", Ignored),
       Takes("winsock", Ignored), Takes("socket", Leaves(<<"winsock">>)),
       Uses("socket", Leaves(<<"winsock">>)),
       Uses("socket", Leaves(<<"socket", "winsock">>)),
       Uses("socket", Ignored),                      \* ioctlsocket
       Takes("client", GoesTo(<< >>, 16)),           \* accept
       Takes("session", Ignored),
       Uses("session", GoesTo(<<"session", "client">>, 10)),
       Uses("session", GoesTo(<<"client">>, 10)),    \* SSL_read
       Uses("socket", GoesTo(<< >>, 16)),            \* accept once more
       Repeats(13),
       Gives("socket"), Gives("winsock") >>
-----------------------------------------------------------------------------
(* The JVM: loaders, agent, native methods.                                *)

\* of local_utils.c; "arg" is cpArg. main, a void method with an argument, is
\* called as one without that returns an int, and its id is not tested.
LoadVMDLL ==
    << Takes("path", Ignored), Uses("path", Never),
       Takes("library", Leaves(<<"path">>)), Gives("path"),
       Uses("library", Leaves(<<"library">>)),
       Takes("arg", Ignored), Uses("arg", Never),
       Takes("vm", Leaves(<<"library">>)),
       Uses("vm", GoesTo(<< >>, 12)),                \* FindClass
       Uses("vm", Ignored), Misuses,                 \* CallStaticIntMethod
       Gives("library") >>

MainLoadVMDLL ==    \* of Main.c, which does the same
    << Takes("path", Ignored), Uses("path", Never),
       Takes("library", Leaves(<<"path">>)), Gives("path"),
       Uses("library", Leaves(<<"library">>)),
       Takes("vm", Leaves(<<"library">>)),
       Uses("vm", GoesTo(<< >>, 10)),
       Uses("vm", Ignored), Misuses,
       Gives("library") >>

\* strcat writes to a string literal; the address of JNI_CreateJavaVM is not
\* tested, since line 42 tests jvmDLL once more.
LaunchJavaVM ==
    << Misuses,
       Takes("library", Leaves(<< >>)),
       Takes("address", Ignored), Gives("address"),
       Takes("vm", Leaves(<<"library">>)),
       Uses("vm", Leaves(<<"library">>)),            \* FindClass
       Uses("vm", Leaves(<<"library">>)),            \* GetStaticMethodID
       Gives("vm") >>

\* The capabilities, the callbacks and three of four events are tested.
AgentOnLoad ==
    << Takes("env", Exits), Uses("env", Exits), Uses("env", Exits),
       Uses("env", Exits), Uses("env", Exits), Uses("env", Ignored),
       Uses("env", Exits), Takes("monitor", Exits) >>

\* javaSayHello, a void method, is called as one that returns an object.
SayHello ==
    << Takes("getName", Ignored), Gives("getName"),
       Takes("chars", Ignored), Uses("chars", Never), Gives("chars"),
       Misuses >>

GetString == << Takes("chars", Ignored), Uses("chars", Never) >>
-----------------------------------------------------------------------------
(* Tables of the network, files and the keyboard.                          *)

\* findAllAdapters fails with no table, or with one nobody has filled.
GetAdapterMac ==
    << Takes("table", GoesTo(<< >>, 4)), Takes("entries", Ignored), Gives("entries"),
       Gives("table") >>

GetInterfaceStatus ==
    << Takes("table", Leaves(<< >>)), Uses("table", Leaves(<< >>)), Gives("table") >>

\* A file that cannot be closed is closed again.
AppendWrite_Returns ==
    << Takes("file", Exits), Uses("file", Leaves(<< >>)),
       [Gives("file") EXCEPT !.fails = Leaves(<<"file">>)] >>
AppendWrite ==
    << Takes("file", Exits), Uses("file", Leaves(<<"file">>)),
       [Gives("file") EXCEPT !.fails = Leaves(<<"file">>)] >>

\* The reads go into six bytes without a width; the contents that are printed
\* have no terminator.
FileMain ==
    << Takes("file", Ignored), Uses("file", Never),
       Takes("room", Ignored), Gives("room"),
       Takes("contents", Ignored), Uses("contents", Never),
       Takes("room", Ignored), Gives("room"),
       Gives("contents"), Gives("file") >>

KeyboardHook == << Takes("hook", Ignored), Gives("hook") >>

Code ==
    [UdpTest |-> UdpTest, SslClient |-> SslClient, SynSender |-> SynSender,
     SslServer |-> SslServer, SelectServer |-> SelectServer, LoadVMDLL |-> LoadVMDLL,
     MainLoadVMDLL |-> MainLoadVMDLL, LaunchJavaVM |-> LaunchJavaVM,
     AgentOnLoad |-> AgentOnLoad, SayHello |-> SayHello, GetString |-> GetString,
     GetAdapterMac |-> GetAdapterMac, GetInterfaceStatus |-> GetInterfaceStatus,
     AppendWrite |-> AppendWrite, FileMain |-> FileMain, KeyboardHook |-> KeyboardHook]
-----------------------------------------------------------------------------
VARIABLES prog,       \* which program
          at,         \* its next call, or 0 after the last
          undo,       \* what it is giving back after a failure
          held,       \* what it has taken and not given back
          lost,       \* what it has taken twice without giving it back
          ignored,    \* a call has failed and the program has not noticed
          undefined   \* it has used or given back what it does not hold
vars == <<prog, at, undo, held, lost, ignored, undefined>>

Init ==
    /\ prog \in DOMAIN Code /\ at = 1 /\ undo = << >> /\ held = {} /\ lost = {}
    /\ ignored = FALSE /\ undefined = FALSE

Call == Code[prog][at]
Runs == at > 0 /\ undo = << >>
After(n) == IF n < Len(Code[prog]) THEN n + 1 ELSE 0

\* Nothing is taken from what is not there.
Taken ==
    /\ Runs /\ Call.op = "take"
    /\ Call.of \in DOMAIN Within => Within[Call.of] \in held
    /\ held' = held \union {Call.of}
    /\ lost' = lost \union (held \intersect {Call.of})
    /\ at' = After(at)
    /\ UNCHANGED <<prog, undo, ignored, undefined>>

Used ==
    /\ Runs /\ Call.op = "use" /\ Call.of \in held
    /\ at' = After(at)
    /\ UNCHANGED <<prog, undo, held, lost, ignored, undefined>>

Given ==
    /\ Runs /\ Call.op = "give" /\ Call.of \in held \union NullSafe
    /\ held' = held \ {Call.of} /\ at' = After(at)
    /\ UNCHANGED <<prog, undo, lost, ignored, undefined>>

Jumps ==
    /\ Runs /\ Call.op = "jump"
    /\ at' = Call.fails.to
    /\ UNCHANGED <<prog, undo, held, lost, ignored, undefined>>

\* What a call was to give back is gone although it fails.
Fails ==
    /\ Runs /\ Call.op # "jump" /\ Call.fails.can
    /\ Call.op # "take" => Call.of \in held
    /\ at' = IF Call.fails.ignored THEN After(at) ELSE Call.fails.to
    /\ undo' = Call.fails.undo
    /\ held' = IF Call.fails.exits THEN {}
               ELSE IF Call.op = "give" THEN held \ {Call.of} ELSE held
    /\ ignored' = (ignored \/ Call.fails.ignored)
    /\ UNCHANGED <<prog, lost, undefined>>

GivesBack ==
    /\ undo # << >> /\ Head(undo) \in held \union NullSafe
    /\ held' = held \ {Head(undo)} /\ undo' = Tail(undo)
    /\ UNCHANGED <<prog, at, lost, ignored, undefined>>

\* The program uses or gives back what it does not hold, or misuses something: it
\* goes on without effect, or it ends here or later.
Strays ==
    /\ \/ /\ Runs
          /\ \/ Call.op = "misuse"
             \/ Call.op = "use" /\ Call.of \notin held
             \/ Call.op = "give" /\ Call.of \notin held \union NullSafe
          /\ at' = After(at) /\ UNCHANGED undo
       \/ /\ undo # << >> /\ Head(undo) \notin held \union NullSafe
          /\ undo' = Tail(undo) /\ UNCHANGED at
    /\ undefined' = TRUE
    /\ UNCHANGED <<prog, held, lost, ignored>>

Crashes ==
    /\ undefined /\ at # 0
    /\ at' = 0 /\ undo' = << >> /\ held' = {}
    /\ UNCHANGED <<prog, lost, ignored, undefined>>

Next == Taken \/ Used \/ Given \/ Jumps \/ Fails \/ GivesBack \/ Strays \/ Crashes

Spec == Init /\ [][Next]_vars
-----------------------------------------------------------------------------
\* The programs that have a clean-up on every way out, and those that meet
\* undefined behaviour although no failure has escaped them.
CleansUp ==
    {"UdpTest", "SslClient", "SayHello", "GetAdapterMac", "AppendWrite", "FileMain",
     "KeyboardHook"}
Misusers == {"LoadVMDLL", "MainLoadVMDLL", "LaunchJavaVM", "SayHello", "AppendWrite"}

\* The ways out. The programs that clean up have given everything back on every
\* one of their returns, after every failure, noticed or not. The others do not,
\* and nothing is claimed of them (README, Findings): they leave something after
\* an early return or always, as the agent does, whose comment asks for the
\* contrary (myagent.c 146-151). All but Misusers meet undefined behaviour only
\* after a failure they do not test for; append_write closes twice a file that
\* it could not close (file_util.c 18-23).
WaysOut ==
    /\ prog \in CleansUp =>
           lost = {} /\ (at = 0 /\ undo = << >> => held = {})
    /\ undefined => ignored \/ prog \in Misusers

\* Things are given back in the right order: no socket is kept beyond WSACleanup,
\* and no entries beyond their table. Not so in four programs: the loaders give up
\* the library of a VM that lives, and main of myserver.c calls WSACleanup with
\* clients connected (167, 260), or having forgotten the socket it could not bind.
NothingOutlives ==
    prog \notin {"LoadVMDLL", "MainLoadVMDLL", "LaunchJavaVM", "SelectServer"} =>
        \A r \in held \intersect DOMAIN Within : Within[r] \in held
==============================================================================
