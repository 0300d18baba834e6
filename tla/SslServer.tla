------------------------------- MODULE SslServer -------------------------------
(***************************************************************************)
(* src/utils/socket/myserver.c: SSLServerThread, one thread that accepts,  *)
(* handshakes, reads and answers with select and non-blocking sockets, and *)
(* keeps at most MAX_CONNS connections in three parallel arrays.           *)
(*                                                                         *)
(* One pass of the loop is a step for select, one for accept when select   *)
(* reports the listening socket, one for each slot's handshake and one for *)
(* each slot's read; the peers act between any two of them.  An SSL object *)
(* is named after its connection.  select's three seconds of patience and  *)
(* the bytes on the wire are left out.                                     *)
(***************************************************************************)
EXTENDS Integers, FiniteSets

CONSTANTS
    Conns,       \* connections peers make
    MAX_CONNS,
    NULL,        \* an empty slot
    MaxData      \* how many requests a peer sends

Slots == 1 .. MAX_CONNS

ASSUME SslAssumption ==
    /\ NULL \notin Conns /\ IsFiniteSet(Conns)
    /\ MAX_CONNS \in Nat \ {0} /\ MaxData \in Nat

VARIABLES
    pc, slot,                       \* where the loop is
    listening,                      \* whether createSocket got its socket
    count, clients, hConns, rwConns,
    net,         \* each connection's socket, seen from the server
    ssl,         \* its SSL object
    peer,        \* how far the peer is: in its handshake, talking, or gone
    unread, replies, sent   \* requests arrived, answers written, requests made

loop  == <<pc, slot>>
table == <<count, clients, hConns, rwConns>>
wire  == <<peer, unread, replies, sent>>
vars  == <<pc, slot, listening, count, clients, hConns, rwConns, net, ssl,
           peer, unread, replies, sent>>

Init ==
    /\ pc = "select" /\ slot = 1 /\ listening \in BOOLEAN
    /\ count = 0
    /\ clients = [i \in Slots |-> NULL]
    /\ hConns = [i \in Slots |-> NULL] /\ rwConns = [i \in Slots |-> NULL]
    /\ net = [c \in Conns |-> "off"] /\ ssl = [c \in Conns |-> "none"]
    /\ peer = [c \in Conns |-> "hello"]
    /\ unread = [c \in Conns |-> 0] /\ replies = [c \in Conns |-> 0]
    /\ sent = [c \in Conns |-> 0]

Backlog == {c \in Conns : net[c] = "backlog"}

GoTo(place) == pc' = place /\ slot' = 1
\* The next turn of a `for` over the slots, and `place` after the last.
NextSlot(place) ==
    \/ slot < MAX_CONNS /\ slot' = slot + 1 /\ UNCHANGED pc
    \/ slot = MAX_CONNS /\ GoTo(place)
-----------------------------------------------------------------------------
\* Lines 150-163.  createSocket's failure values 0 and 1 are used as a socket:
\* select fails, leaves the set as it was, and accept is tried.  Incoming is
\* line 163; its other form leaves a full server's backlog alone.
Incoming_IfRoom == (Backlog # {} /\ count # MAX_CONNS) \/ ~listening
Incoming == Backlog # {} \/ ~listening

Select ==
    /\ pc = "select"
    /\ GoTo(IF Incoming THEN "accept" ELSE "handshake")
    /\ UNCHANGED <<listening, table, net, ssl, wire>>

AcceptFails ==
    /\ pc = "accept"
    /\ Backlog = {} \/ ~listening
    /\ GoTo("end")
    /\ UNCHANGED <<listening, table, net, ssl, wire>>

\* Line 169.
Full == count = MAX_CONNS

Reject(c) ==
    /\ pc = "accept" /\ listening /\ c \in Backlog
    /\ Full
    /\ net' = [net EXCEPT ![c] = "closed"]
    /\ GoTo("handshake")
    /\ UNCHANGED <<listening, table, ssl, wire>>

FreeSlots  == {i \in Slots : clients[i] = NULL}
LowestFree == {i \in FreeSlots : \A j \in FreeSlots : i <= j}

\* Lines 172-183: the lowest free slot, if there is one.  The result of the
\* first SSL_accept is ignored; line 192 asks again.
Accept(c) ==
    /\ pc = "accept" /\ listening /\ c \in Backlog
    /\ ~Full
    /\ count' = count + 1
    /\ net' = [net EXCEPT ![c] = "open"]
    /\ clients' = [i \in Slots |-> IF i \in LowestFree THEN c ELSE clients[i]]
    /\ hConns' = [i \in Slots |-> IF i \in LowestFree THEN c ELSE hConns[i]]
    /\ ssl' = [ssl EXCEPT ![c] = IF LowestFree = {} THEN @ ELSE "live"]
    /\ GoTo("handshake")
    /\ UNCHANGED <<listening, rwConns, wire>>
-----------------------------------------------------------------------------
\* What closing the connection of a slot does, and without one of its lines.
Release_KeepsSocket(i) ==
    /\ clients' = [clients EXCEPT ![i] = NULL]
    /\ count' = count - 1
    /\ UNCHANGED net
Release_NoCount(i) ==
    /\ net' = [net EXCEPT ![clients[i]] = "closed"]
    /\ clients' = [clients EXCEPT ![i] = NULL]
    /\ UNCHANGED count
Release(i) ==
    /\ net' = [net EXCEPT ![clients[i]] = "closed"]
    /\ clients' = [clients EXCEPT ![i] = NULL]
    /\ count' = count - 1

\* Lines 189-220, SSL_accept returning "not yet", failure and success.
HandshakeWaits ==
    /\ pc = "handshake"
    /\ hConns[slot] # NULL => peer[hConns[slot]] = "hello"
    /\ NextSlot("io")
    /\ UNCHANGED <<listening, table, net, ssl, wire>>

HandshakeFails ==
    /\ pc = "handshake" /\ hConns[slot] # NULL
    /\ peer[hConns[slot]] = "gone"
    /\ ssl' = [ssl EXCEPT ![hConns[slot]] = "freed"]
    /\ hConns' = [hConns EXCEPT ![slot] = NULL]
    /\ Release(slot)
    /\ NextSlot("io")
    /\ UNCHANGED <<listening, rwConns, wire>>

\* Line 216 missing, and there.
LeaveHandshake_Stays == UNCHANGED hConns
LeaveHandshake == hConns' = [hConns EXCEPT ![slot] = NULL]

HandshakeDone ==
    /\ pc = "handshake" /\ hConns[slot] # NULL
    /\ peer[hConns[slot]] = "talks"
    /\ rwConns' = [rwConns EXCEPT ![slot] = hConns[slot]]
    /\ LeaveHandshake
    /\ NextSlot("io")
    /\ UNCHANGED <<listening, count, clients, net, ssl, wire>>
-----------------------------------------------------------------------------
\* Lines 223-257: every connection is read in every pass, whatever select said.
ReadWaits ==
    /\ pc = "io"
    /\ rwConns[slot] # NULL => /\ peer[rwConns[slot]] # "gone"
                              /\ unread[rwConns[slot]] = 0
    /\ NextSlot("select")
    /\ UNCHANGED <<listening, table, net, ssl, wire>>

\* The SSL object is not freed here.
ReadFails ==
    /\ pc = "io" /\ rwConns[slot] # NULL
    /\ peer[rwConns[slot]] = "gone" /\ unread[rwConns[slot]] = 0
    /\ rwConns' = [rwConns EXCEPT ![slot] = NULL]
    /\ Release(slot)
    /\ NextSlot("select")
    /\ UNCHANGED <<listening, hConns, ssl, wire>>

\* Line 249 missing, and there.  What SSL_write returns is not looked at: an
\* answer is written once, and lost if the socket has no room for it.
Answer_Silent(c) == UNCHANGED replies
Answer(c) == replies' = [replies EXCEPT ![c] = @ + 1]

ReadAndAnswer ==
    /\ pc = "io" /\ rwConns[slot] # NULL
    /\ LET c == rwConns[slot] IN
       /\ unread[c] > 0
       /\ unread' = [unread EXCEPT ![c] = @ - 1]
       /\ Answer(c)
    /\ NextSlot("select")
    /\ UNCHANGED <<listening, table, net, ssl, peer, sent>>

\* Lines 259-261: the connections and their SSL objects go with the process.
End ==
    /\ pc = "end"
    /\ GoTo("done")
    /\ UNCHANGED <<listening, table, net, ssl, wire>>
-----------------------------------------------------------------------------
(* The peers.  One may give up at any time, also while it is in the        *)
(* backlog, between select's answer and accept.                            *)

Connect(c) ==
    /\ net[c] = "off" /\ listening /\ pc # "done"
    /\ net' = [net EXCEPT ![c] = "backlog"]
    /\ UNCHANGED <<listening, loop, table, ssl, wire>>

Withdraw(c) ==
    /\ net[c] = "backlog"
    /\ net' = [net EXCEPT ![c] = "closed"]
    /\ UNCHANGED <<listening, loop, table, ssl, wire>>

PeerHandshakes(c) ==
    /\ net[c] = "open" /\ peer[c] = "hello"
    /\ peer' = [peer EXCEPT ![c] = "talks"]
    /\ UNCHANGED <<listening, loop, table, net, ssl, unread, replies, sent>>

PeerSends(c) ==
    /\ peer[c] = "talks" /\ sent[c] < MaxData
    /\ sent' = [sent EXCEPT ![c] = @ + 1]
    /\ unread' = [unread EXCEPT ![c] = @ + 1]
    /\ UNCHANGED <<listening, loop, table, net, ssl, peer, replies>>

PeerLeaves(c) ==
    /\ net[c] = "open" /\ peer[c] # "gone"
    /\ peer' = [peer EXCEPT ![c] = "gone"]
    /\ UNCHANGED <<listening, loop, table, net, ssl, unread, replies, sent>>
-----------------------------------------------------------------------------
Serve ==
    \/ Select \/ AcceptFails \/ (\E c \in Conns : Reject(c) \/ Accept(c))
    \/ HandshakeWaits \/ HandshakeFails \/ HandshakeDone
    \/ ReadWaits \/ ReadFails \/ ReadAndAnswer \/ End

Peers ==
    \E c \in Conns :
       \/ Connect(c) \/ Withdraw(c)
       \/ PeerHandshakes(c) \/ PeerSends(c) \/ PeerLeaves(c)

Next == Serve \/ Peers

Spec == Init /\ [][Next]_vars

\* The one thread of the server keeps running; peers need not do anything.
FairSpec == Spec /\ WF_vars(Serve)
-----------------------------------------------------------------------------
TypeOK ==
    /\ pc \in {"select", "accept", "handshake", "io", "end", "done"}
    /\ slot \in Slots /\ listening \in BOOLEAN /\ count \in 0 .. MAX_CONNS
    /\ clients \in [Slots -> Conns \cup {NULL}]
    /\ hConns \in [Slots -> Conns \cup {NULL}]
    /\ rwConns \in [Slots -> Conns \cup {NULL}]
    /\ net \in [Conns -> {"off", "backlog", "open", "closed"}]
    /\ ssl \in [Conns -> {"none", "live", "freed"}]
    /\ peer \in [Conns -> {"hello", "talks", "gone"}]
    /\ unread \in [Conns -> Nat] /\ replies \in [Conns -> Nat]
    /\ sent \in [Conns -> 0 .. MaxData]

Used == {i \in Slots : clients[i] # NULL}

\* The counter that decides whether a connection is rejected (line 169) counts
\* the occupied slots, so that there is a free slot whenever one is looked for
\* (lines 174-183), over any order of accepts, failed handshakes and failed
\* reads, several of which can happen in one pass.
CountMatches == count = Cardinality(Used)

\* The three arrays agree: the connection of a slot is in exactly one of
\* hConns and rwConns, its SSL object is alive, an open connection has exactly
\* one slot, and a slot never names a socket that was closed.
SlotsAgree ==
    /\ \A i \in Slots :
          IF clients[i] = NULL
          THEN hConns[i] = NULL /\ rwConns[i] = NULL
          ELSE /\ {hConns[i], rwConns[i]} = {clients[i], NULL}
               /\ ssl[clients[i]] = "live" /\ net[clients[i]] = "open"
    /\ \A c \in Conns : net[c] = "open" => \E i \in Slots : clients[i] = c
    /\ \A i, j \in Used : clients[i] = clients[j] => i = j

\* For every request that arrived an answer is given to SSL_write, once (lines
\* 231-254), unless the server ended, whatever the other connection does meanwhile.
Answered ==
    \A c \in Conns : \A n \in 1 .. MaxData :
       sent[c] = n /\ net[c] = "open" ~> replies[c] = n \/ pc = "done"
                                         \/ peer[c] = "gone"

\* A peer that leaves gets its slot back for others.
SlotFreed ==
    \A c \in Conns : net[c] = "open" /\ peer[c] = "gone"
                        ~> net[c] = "closed" \/ pc = "done"

\* A connection in the backlog is accepted, or rejected because the slots are
\* full, or gives up; what else keeps it waiting is only that the server has
\* ended, which one failed accept is enough for (lines 165-168).
BacklogServed ==
    \A c \in Conns : net[c] = "backlog" ~> net[c] # "backlog" \/ pc = "done"
==============================================================================
