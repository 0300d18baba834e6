------------------------------ MODULE ArpSponsor ------------------------------
(***************************************************************************)
(* src/utils/net/Main_net.c with dev_listen, handle_recv and send_data of  *)
(* npcap_utils.c: main opens the picked device and sends ARP answers, and  *)
(* recevie_thread captures and forwards frames on the same handle.         *)
(*                                                                         *)
(* The callback returns after forwarding: its answer branch is not reached *)
(* (lines 29-38). Npcap shows a handle what is sent on it, so that a frame *)
(* that was forwarded is captured again.  Sleeps and timeouts order        *)
(* nothing and are not modelled as time.                                   *)
(***************************************************************************)
EXTENDS Adapters

CONSTANTS
    Sends,        \* sendTimes, 50 in the code
    MaxFrames,    \* bound on the frames that wait to be captured
    Lists,        \* what pcap_findalldevs may return: which devices are usable
    Numbers       \* what may be typed

ASSUME ArpAssumption == Lists \subseteq Seq(BOOLEAN) /\ Numbers \subseteq Nat

VARIABLES
    main,      \* where main is
    choice,    \* what pick_dev saw, or << >>
    name,      \* adapterName: not set, or a device
    handle,    \* pHandle
    sent,      \* turns of the loop in send_arp
    rcv,       \* where recevie_thread is
    frames     \* frames for the duped address that wait to be captured

vars == <<main, choice, name, handle, sent, rcv, frames>>

Init ==
    /\ main = "pick" /\ choice = << >> /\ name = "unset" /\ handle = "null"
    /\ sent = 0 /\ rcv = "none" /\ frames = 0

Runs == main \notin {"ended", "crashed"}
Crash == main' = "crashed" /\ UNCHANGED <<choice, name, handle, sent, rcv, frames>>
At(here, there) == main = here /\ main' = there
-----------------------------------------------------------------------------
(* main.                                                                   *)

Pick ==
    /\ At("pick", "listen")
    /\ \E l \in Lists, n \in Numbers :
          /\ RiHolds(l)
          /\ choice' = <<l, n>>
          /\ name' = IF pick_dev(l, n) = None THEN "unset" ELSE "device"
    /\ UNCHANGED <<handle, sent, rcv, frames>>

\* pcap_findalldevs fails, and exit is called.
PickFails == At("pick", "ended") /\ UNCHANGED <<choice, name, handle, sent, rcv, frames>>

\* pick_dev writes beside ri: it may go on, with any device or none.
PickOverruns ==
    /\ main = "pick" /\ \E l \in Lists : ~RiHolds(l)
    /\ \/ Crash
       \/ /\ At("pick", "listen") /\ name' \in {"unset", "device"}
          /\ UNCHANGED <<choice, handle, sent, rcv, frames>>

\* dev_listen; what it returns is not looked at.
Listen ==
    /\ At("listen", "free")
    /\ \/ name = "device" /\ handle' = "open"
       \/ UNCHANGED handle
    /\ choice' = << >>
    /\ UNCHANGED <<name, sent, rcv, frames>>

\* free(adapterName), and a pointer that was never set.
FreeName ==
    /\ At("free", "start")
    /\ UNCHANGED <<choice, name, handle, sent, rcv, frames>>

UsesUnset == main \in {"listen", "free"} /\ name = "unset" /\ Crash

StartThread ==
    /\ At("start", "send")
    /\ rcv' = "compile"
    /\ UNCHANGED <<choice, name, handle, sent, frames>>

\* One turn of send_arp; send_data refuses a null handle. Twice fifty turns.
SendArp ==
    /\ main \in {"send", "send again"} /\ sent < Sends
    /\ sent' = sent + 1
    /\ UNCHANGED <<main, choice, name, handle, rcv, frames>>

Sent ==
    /\ sent = Sends /\ (At("send", "wait") \/ At("send again", "close"))
    /\ sent' = 0
    /\ UNCHANGED <<choice, name, handle, rcv, frames>>

\* Bug: the wait for the thread has no time limit.
Wait_Infinite ==
    /\ At("wait", "send again") /\ rcv = "done"
    /\ UNCHANGED <<choice, name, handle, sent, rcv, frames>>

Wait ==
    /\ At("wait", "send again")
    /\ UNCHANGED <<choice, name, handle, sent, rcv, frames>>

\* pcap_close takes no null handle.
Close ==
    /\ At("close", "return") /\ handle # "null"
    /\ handle' = "closed"
    /\ UNCHANGED <<choice, name, sent, rcv, frames>>

CloseNull == main = "close" /\ handle = "null" /\ Crash

Return == At("return", "ended") /\ UNCHANGED <<choice, name, handle, sent, rcv, frames>>
-----------------------------------------------------------------------------
(* recevie_thread.                                                         *)

Goes(here, there) == rcv = here /\ rcv' = there

\* pcap_compile and pcap_setfilter; the thread ends when one of them fails.
Prepare ==
    /\ handle = "open"
    /\ \/ Goes("compile", "setfilter") \/ Goes("setfilter", "loop")
       \/ Goes("compile", "done") \/ Goes("setfilter", "done")
    /\ UNCHANGED <<main, choice, name, handle, sent, frames>>

\* pcap_loop calls back with a frame.
Capture ==
    /\ handle = "open" /\ frames > 0 /\ Goes("loop", "forward")
    /\ frames' = frames - 1
    /\ UNCHANGED <<main, choice, name, handle, sent>>

\* Lines 32-37: a copy, never freed, is sent; or pcap_sendpacket fails.
Forward ==
    /\ handle = "open" /\ Goes("forward", "loop")
    /\ frames' = frames + 1 \/ UNCHANGED frames
    /\ UNCHANGED <<main, choice, name, handle, sent>>

\* A handle that is null or closed is used all the same.
UsesNoHandle ==
    /\ rcv \in {"compile", "setfilter", "loop", "forward"} /\ handle # "open"
    /\ Crash

\* The network.
Arrives ==
    /\ frames < MaxFrames
    /\ frames' = frames + 1
    /\ UNCHANGED <<main, choice, name, handle, sent, rcv>>
-----------------------------------------------------------------------------
PickDev == Pick \/ PickFails \/ PickOverruns

Main ==
    \/ Listen \/ FreeName \/ UsesUnset \/ StartThread
    \/ SendArp \/ Sent \/ Wait \/ Close \/ CloseNull \/ Return

Next ==
    /\ Runs
    /\ PickDev \/ Main \/ Prepare \/ Capture \/ Forward \/ UsesNoHandle \/ Arrives

\* Windows lets main run on. Nothing is assumed of the user, for whom scanf waits
\* in pick_dev, of the thread or of the network.
Fairness == WF_vars(Runs /\ Main)

Spec == Init /\ [][Next]_vars /\ Fairness

\* The device that is opened is the one printed beside the number typed, up to
\* 255, and with a number that was not printed none (lines 110-113).
PickedIsPrinted == choice # << >> => PicksPrinted(choice[1], choice[2])

\* Once the user has chosen, main ends, whatever the thread does: pcap_loop has no
\* end, and nothing tells it to stop. A crash is an end as well: a name or a
\* handle that pick_dev or dev_listen has not set, or one that was closed under
\* the thread (lines 110-131).
MainEnds == main # "pick" ~> ~Runs
==============================================================================
