---------------------------- MODULE SslServerProofs ----------------------------
(***************************************************************************)
(* The tables of SSLServerThread agree, for any number of slots, of        *)
(* connections and of requests.                                            *)
(*                                                                         *)
(* CountMatches and SlotsAgree need each other: the counter has to be      *)
(* right for Accept to find a free slot, and the slots have to agree for   *)
(* Release to give back one that is occupied, and no other.                *)
(***************************************************************************)
EXTENDS SslServer, FiniteSetTheorems, WellFoundedInduction, TLAPS

IInv == TypeOK /\ CountMatches /\ SlotsAgree

\* The steps that change neither the counter, the tables nor the connections.
Elsewhere == UNCHANGED <<count, clients, hConns, rwConns, net, ssl>>

LEMMA SlotsType == MAX_CONNS \in Nat /\ MAX_CONNS > 0 /\ Slots \subseteq Nat /\ 1 \in Slots
  BY SslAssumption DEF Slots

\* A set of numbers that is not empty has a lowest one.
LEMMA Lowest ==
    ASSUME NEW S \in SUBSET Nat, S # {}
    PROVE  \E i \in S : \A j \in S : i <= j
<1>1. IsWellFoundedOn(OpToRel(<, Nat), Nat)
  BY NatLessThanWellFounded
<1>2. PICK i \in S : \A j \in S : ~(<<j, i>> \in OpToRel(<, Nat))
  BY <1>1, WFMin
<1>3. ASSUME NEW j \in S PROVE i <= j
  <2>1. ~(j < i)
    BY <1>2 DEF OpToRel
  <2>. QED BY <2>1
<1>. QED BY <1>3

\* The occupied slots are some of MAX_CONNS, and all of them only if the counter
\* has reached the limit.
LEMMA UsedSlots ==
    ASSUME TypeOK
    PROVE  /\ Used \in SUBSET Slots /\ IsFiniteSet(Slots) /\ IsFiniteSet(Used)
           /\ Cardinality(Used) \in 0 .. MAX_CONNS
           /\ Cardinality(Used) = MAX_CONNS => Used = Slots
           /\ Used = Slots => Cardinality(Used) = MAX_CONNS
<1>1. IsFiniteSet(Slots) /\ Cardinality(Slots) = MAX_CONNS
  BY SlotsType, FS_Interval DEF Slots
<1>2. Used \in SUBSET Slots
  BY DEF Used
<1>3. /\ IsFiniteSet(Used) /\ Cardinality(Used) <= MAX_CONNS
      /\ Cardinality(Used) = MAX_CONNS => Used = Slots
  BY <1>1, <1>2, FS_Subset
<1>4. Cardinality(Used) \in Nat
  BY <1>3, FS_CardinalityType
<1>. QED BY <1>1, <1>2, <1>3, <1>4, SlotsType

\* A server that is not full finds exactly one lowest free slot (lines 174-183).
LEMMA FreeSlotFound ==
    ASSUME TypeOK, CountMatches, ~Full
    PROVE  \E i \in Slots : clients[i] = NULL /\ LowestFree = {i}
<1>1. Used # Slots
  BY UsedSlots DEF CountMatches, Full
<1>2. FreeSlots \in SUBSET Nat /\ FreeSlots # {}
  BY <1>1, SlotsType DEF FreeSlots, Used
<1>3. PICK i \in FreeSlots : \A j \in FreeSlots : i <= j
  BY <1>2, Lowest
<1>4. ASSUME NEW k \in LowestFree PROVE k = i
  <2>1. k \in FreeSlots /\ k <= i /\ i <= k
    BY <1>3, <1>4 DEF LowestFree
  <2>. QED BY <1>2, <2>1
<1>5. LowestFree = {i}
  BY <1>3, <1>4 DEF LowestFree
<1>. QED BY <1>3, <1>5 DEF FreeSlots

\* The connection of an occupied slot is in one of the two other tables.
LEMMA OneTable ==
    ASSUME SlotsAgree, NEW i \in Slots, clients[i] # NULL
    PROVE  \/ hConns[i] = clients[i] /\ rwConns[i] = NULL
           \/ hConns[i] = NULL /\ rwConns[i] = clients[i]
<1>1. ASSUME NEW a, NEW b, NEW x, NEW y, x # y, {a, b} = {x, y}
      PROVE  (a = x /\ b = y) \/ (a = y /\ b = x)
  BY <1>1
<1>2. {hConns[i], rwConns[i]} = {clients[i], NULL}
  BY DEF SlotsAgree
<1>. QED BY <1>1, <1>2
-----------------------------------------------------------------------------
(* What the two kinds of step that change the tables do to IInv.           *)

\* Taking slot i for a new connection c.
LEMMA Occupies ==
    ASSUME IInv, NEW i \in Slots, clients[i] = NULL, ~Full,
           NEW c \in Conns, net[c] = "backlog",
           count' = count + 1,
           clients' = [clients EXCEPT ![i] = c], hConns' = [hConns EXCEPT ![i] = c],
           net' = [net EXCEPT ![c] = "open"], ssl' = [ssl EXCEPT ![c] = "live"],
           UNCHANGED rwConns
    PROVE  CountMatches' /\ SlotsAgree' /\ count' \in 0 .. MAX_CONNS
<1>. USE SslAssumption
<1>0. TypeOK /\ CountMatches /\ SlotsAgree
  BY DEF IInv
<1>1. Used' = Used \cup {i} /\ i \notin Used
  BY <1>0 DEF Used, TypeOK
<1>2. Cardinality(Used') = Cardinality(Used) + 1
  BY <1>0, <1>1, UsedSlots, FS_AddElement
<1>3. count \in 0 .. MAX_CONNS /\ count # MAX_CONNS
  BY <1>0 DEF TypeOK, Full
<1>4. \A j \in Slots : clients[j] # c
  BY <1>0 DEF SlotsAgree
<1>5. hConns[i] = NULL /\ rwConns[i] = NULL
  BY <1>0 DEF SlotsAgree
<1>6. ASSUME NEW j \in Slots
      PROVE  IF clients'[j] = NULL
             THEN hConns'[j] = NULL /\ rwConns'[j] = NULL
             ELSE /\ {hConns'[j], rwConns'[j]} = {clients'[j], NULL}
                  /\ ssl'[clients'[j]] = "live" /\ net'[clients'[j]] = "open"
  <2>1. CASE j = i
    <3>1. clients'[j] = c /\ hConns'[j] = c /\ rwConns'[j] = NULL
      BY <1>0, <1>5, <2>1 DEF TypeOK
    <3>2. ssl'[c] = "live" /\ net'[c] = "open"
      BY <1>0 DEF TypeOK
    <3>. QED BY <3>1, <3>2
  <2>2. CASE j # i
    <3>1. clients'[j] = clients[j] /\ hConns'[j] = hConns[j] /\ rwConns'[j] = rwConns[j]
      BY <1>0, <2>2 DEF TypeOK
    <3>2. clients[j] # NULL => ssl'[clients[j]] = ssl[clients[j]]
                                 /\ net'[clients[j]] = net[clients[j]]
      BY <1>0, <1>4 DEF TypeOK
    <3>. QED BY <1>0, <3>1, <3>2 DEF SlotsAgree
  <2>. QED BY <2>1, <2>2
<1>7. \A d \in Conns : net'[d] = "open" => \E j \in Slots : clients'[j] = d
  BY <1>0 DEF TypeOK, SlotsAgree
<1>8. \A j, k \in Used' : clients'[j] = clients'[k] => j = k
  BY <1>0, <1>1, <1>4 DEF TypeOK, SlotsAgree, Used
<1>. QED BY <1>0, <1>2, <1>3, <1>6, <1>7, <1>8 DEF CountMatches, SlotsAgree

\* Giving back slot i, whose SSL object may be freed (line 211) or not.
LEMMA GivesBack ==
    ASSUME IInv, NEW i \in Slots, clients[i] # NULL, Release(i),
           hConns' = [hConns EXCEPT ![i] = NULL] \/ (hConns[i] = NULL /\ UNCHANGED hConns),
           rwConns' = [rwConns EXCEPT ![i] = NULL] \/ (rwConns[i] = NULL /\ UNCHANGED rwConns),
           ssl' = [ssl EXCEPT ![clients[i]] = "freed"] \/ UNCHANGED ssl
    PROVE  CountMatches' /\ SlotsAgree' /\ count' \in 0 .. MAX_CONNS
<1>. USE SslAssumption
<1>0. TypeOK /\ CountMatches /\ SlotsAgree
  BY DEF IInv
<1>1. clients' = [clients EXCEPT ![i] = NULL] /\ net' = [net EXCEPT ![clients[i]] = "closed"]
      /\ count' = count - 1 /\ clients[i] \in Conns
  BY <1>0 DEF Release, TypeOK
<1>2. Used' = Used \ {i} /\ i \in Used
  BY <1>0, <1>1 DEF Used, TypeOK
<1>3. /\ Cardinality(Used') = Cardinality(Used) - 1
      /\ Cardinality(Used) \in 0 .. MAX_CONNS /\ Cardinality(Used') \in Nat
  BY <1>0, <1>2, UsedSlots, FS_RemoveElement, FS_CardinalityType
<1>4. \A j \in Slots : j # i /\ clients[j] # NULL => clients[j] # clients[i]
  BY <1>0, <1>2 DEF SlotsAgree, Used
<1>5. /\ hConns'[i] = NULL /\ rwConns'[i] = NULL /\ clients'[i] = NULL
      /\ \A j \in Slots : j # i => /\ hConns'[j] = hConns[j] /\ rwConns'[j] = rwConns[j]
                                   /\ clients'[j] = clients[j]
  BY <1>0, <1>1 DEF TypeOK
<1>6. \A d \in Conns : d # clients[i] => ssl'[d] = ssl[d] /\ net'[d] = net[d]
  BY <1>0, <1>1 DEF TypeOK
<1>7. ASSUME NEW j \in Slots
      PROVE  IF clients'[j] = NULL
             THEN hConns'[j] = NULL /\ rwConns'[j] = NULL
             ELSE /\ {hConns'[j], rwConns'[j]} = {clients'[j], NULL}
                  /\ ssl'[clients'[j]] = "live" /\ net'[clients'[j]] = "open"
  <2>1. CASE j = i
    BY <1>5, <2>1
  <2>2. CASE j # i
    <3>1. clients[j] # NULL => clients[j] \in Conns /\ clients[j] # clients[i]
      BY <1>0, <1>4, <2>2 DEF TypeOK
    <3>. QED BY <1>0, <1>5, <1>6, <2>2, <3>1 DEF SlotsAgree
  <2>. QED BY <2>1, <2>2
<1>8. ASSUME NEW d \in Conns, net'[d] = "open"
      PROVE  \E j \in Slots : clients'[j] = d
  <2>1. d # clients[i]
    BY <1>0, <1>1, <1>8 DEF TypeOK
  <2>. QED BY <1>0, <1>5, <1>6, <1>8, <2>1 DEF SlotsAgree
<1>9. \A j, k \in Used' : clients'[j] = clients'[k] => j = k
  BY <1>0, <1>2, <1>5 DEF SlotsAgree, Used
<1>10. CountMatches' /\ count' \in 0 .. MAX_CONNS
  <2>1. count' = Cardinality(Used')
    BY <1>0, <1>1, <1>3 DEF CountMatches
  <2>. QED BY <1>3, <2>1, SlotsType DEF CountMatches
<1>. QED BY <1>7, <1>8, <1>9, <1>10 DEF SlotsAgree

LEMMA ElsewhereKeeps == IInv /\ Elsewhere => CountMatches' /\ SlotsAgree'
  BY DEF IInv, Elsewhere, CountMatches, SlotsAgree, Used
-----------------------------------------------------------------------------
\* The place in the loop stays one of its places, whatever slot comes next.
LEMMA LoopType ==
    ASSUME TypeOK, NEW place \in {"select", "accept", "handshake", "io", "end", "done"},
           GoTo(place) \/ NextSlot(place)
    PROVE  /\ pc' \in {"select", "accept", "handshake", "io", "end", "done"}
           /\ slot' \in Slots
<1>1. CASE GoTo(place)
  BY <1>1, SlotsType DEF GoTo
<1>2. CASE NextSlot(place)
  BY <1>2, SlotsType DEF NextSlot, GoTo, TypeOK, Slots
<1>. QED BY <1>1, <1>2

LEMMA ServeStep == IInv /\ Serve => IInv'
<1>. SUFFICES ASSUME IInv, Serve PROVE IInv'
  OBVIOUS
<1>. USE SslAssumption DEF table, wire, loop
<1>0. TypeOK /\ CountMatches /\ SlotsAgree
  BY DEF IInv
<1>1. CASE Select \/ AcceptFails \/ HandshakeWaits \/ ReadWaits \/ End
  <2>1. \E place \in {"select", "accept", "handshake", "io", "end", "done"} :
           GoTo(place) \/ NextSlot(place)
    BY <1>1 DEF Select, AcceptFails, HandshakeWaits, ReadWaits, End
  <2>2. Elsewhere /\ UNCHANGED <<listening, wire>>
    BY <1>1 DEF Select, AcceptFails, HandshakeWaits, ReadWaits, End, Elsewhere
  <2>3. TypeOK'
    BY <1>0, <2>1, <2>2, LoopType DEF TypeOK, Elsewhere
  <2>. QED BY <2>2, <2>3, ElsewhereKeeps DEF IInv
<1>2. ASSUME NEW c \in Conns, Reject(c) PROVE IInv'
  <2>1. TypeOK'
    BY <1>0, <1>2, LoopType DEF Reject, TypeOK
  <2>2. net[c] = "backlog" /\ net' = [net EXCEPT ![c] = "closed"]
        /\ UNCHANGED <<count, clients, hConns, rwConns, ssl>>
    BY <1>2 DEF Reject, Backlog
  <2>3. \A d \in Conns : net[d] = "open" <=> net'[d] = "open"
    BY <1>0, <2>2 DEF TypeOK
  <2>4. \A i \in Slots : clients[i] # NULL => clients[i] \in Conns
    BY <1>0 DEF TypeOK
  <2>5. SlotsAgree' /\ CountMatches'
    BY <1>0, <2>2, <2>3, <2>4 DEF SlotsAgree, CountMatches, Used
  <2>. QED BY <2>1, <2>5 DEF IInv
<1>3. ASSUME NEW c \in Conns, Accept(c) PROVE IInv'
  <2>1. PICK i \in Slots : clients[i] = NULL /\ LowestFree = {i}
    BY <1>0, <1>3, FreeSlotFound DEF Accept
  <2>2. /\ net[c] = "backlog" /\ ~Full /\ count' = count + 1
        /\ net' = [net EXCEPT ![c] = "open"]
        /\ ssl' = [ssl EXCEPT ![c] = "live"]
        /\ UNCHANGED rwConns
    BY <1>3, <2>1 DEF Accept, Backlog
  <2>3. clients' = [clients EXCEPT ![i] = c] /\ hConns' = [hConns EXCEPT ![i] = c]
    BY <1>0, <1>3, <2>1 DEF Accept, TypeOK
  <2>4. CountMatches' /\ SlotsAgree' /\ count' \in 0 .. MAX_CONNS
    BY <2>1, <2>2, <2>3, Occupies
  <2>5. TypeOK'
    BY <1>0, <1>3, <2>2, <2>3, <2>4, LoopType DEF Accept, TypeOK
  <2>. QED BY <2>4, <2>5 DEF IInv
<1>4. CASE HandshakeFails
  <2>1. /\ slot \in Slots /\ hConns[slot] # NULL
        /\ clients[slot] = hConns[slot] /\ clients[slot] # NULL /\ rwConns[slot] = NULL
    BY <1>0, <1>4, OneTable DEF HandshakeFails, TypeOK, SlotsAgree
  <2>2. CountMatches' /\ SlotsAgree' /\ count' \in 0 .. MAX_CONNS
    BY <1>4, <2>1, GivesBack DEF HandshakeFails
  <2>3. TypeOK'
    BY <1>0, <1>4, <2>1, <2>2, LoopType DEF HandshakeFails, Release, TypeOK
  <2>. QED BY <2>2, <2>3 DEF IInv
<1>5. CASE HandshakeDone
  <2>1. /\ slot \in Slots /\ hConns[slot] # NULL
        /\ clients[slot] = hConns[slot] /\ rwConns[slot] = NULL
    BY <1>0, <1>5, OneTable DEF HandshakeDone, TypeOK, SlotsAgree
  <2>2. /\ rwConns' = [rwConns EXCEPT ![slot] = hConns[slot]]
        /\ hConns' = [hConns EXCEPT ![slot] = NULL]
        /\ UNCHANGED <<count, clients, net, ssl>>
    BY <1>5 DEF HandshakeDone, LeaveHandshake
  <2>3. CountMatches' /\ SlotsAgree'
    <3>1. /\ rwConns \in [Slots -> Conns \cup {NULL}] /\ hConns \in [Slots -> Conns \cup {NULL}]
      BY <1>0 DEF TypeOK
    <3>2. CountMatches'
      BY <1>0, <2>2 DEF CountMatches, Used
    <3>3. SlotsAgree'
      BY <1>0, <2>1, <2>2, <3>1 DEF SlotsAgree, Used
    <3>. QED BY <3>2, <3>3
  <2>4. TypeOK'
    BY <1>0, <1>5, <2>1, <2>2, LoopType DEF HandshakeDone, TypeOK
  <2>. QED BY <2>3, <2>4 DEF IInv
<1>6. CASE ReadFails
  <2>1. /\ slot \in Slots /\ rwConns[slot] # NULL
        /\ clients[slot] = rwConns[slot] /\ clients[slot] # NULL /\ hConns[slot] = NULL
    BY <1>0, <1>6, OneTable DEF ReadFails, TypeOK, SlotsAgree
  <2>2. CountMatches' /\ SlotsAgree' /\ count' \in 0 .. MAX_CONNS
    BY <1>6, <2>1, GivesBack DEF ReadFails
  <2>3. TypeOK'
    BY <1>0, <1>6, <2>1, <2>2, LoopType DEF ReadFails, Release, TypeOK
  <2>. QED BY <2>2, <2>3 DEF IInv
<1>7. CASE ReadAndAnswer
  <2>1. rwConns[slot] \in Conns /\ unread[rwConns[slot]] > 0
    BY <1>0, <1>7 DEF ReadAndAnswer, TypeOK
  <2>2. Elsewhere
    BY <1>7 DEF ReadAndAnswer, Elsewhere
  <2>3. unread' \in [Conns -> Nat] /\ replies' \in [Conns -> Nat]
    BY <1>0, <1>7, <2>1 DEF ReadAndAnswer, Answer, TypeOK
  <2>4. TypeOK'
    BY <1>0, <1>7, <2>3, LoopType DEF ReadAndAnswer, TypeOK
  <2>. QED BY <2>2, <2>4, ElsewhereKeeps DEF IInv
<1>. QED BY <1>1, <1>2, <1>3, <1>4, <1>5, <1>6, <1>7 DEF Serve

LEMMA PeersStep == IInv /\ Peers => IInv'
<1>. SUFFICES ASSUME IInv, NEW c \in Conns,
                     \/ Connect(c) \/ Withdraw(c)
                     \/ PeerHandshakes(c) \/ PeerSends(c) \/ PeerLeaves(c)
              PROVE  IInv'
  BY DEF Peers
<1>. USE SslAssumption DEF table, wire, loop
<1>0. TypeOK /\ CountMatches /\ SlotsAgree
  BY DEF IInv
<1>1. CASE Connect(c) \/ Withdraw(c)
  <2>1. TypeOK'
    BY <1>0, <1>1 DEF Connect, Withdraw, TypeOK
  <2>2. \A d \in Conns : net[d] = "open" <=> net'[d] = "open"
    BY <1>0, <1>1 DEF Connect, Withdraw, TypeOK
  <2>3. UNCHANGED <<count, clients, hConns, rwConns, ssl>>
    BY <1>1 DEF Connect, Withdraw
  <2>4. \A i \in Slots : clients[i] # NULL => clients[i] \in Conns
    BY <1>0 DEF TypeOK
  <2>5. SlotsAgree' /\ CountMatches'
    BY <1>0, <2>2, <2>3, <2>4 DEF SlotsAgree, CountMatches, Used
  <2>. QED BY <2>1, <2>5 DEF IInv
<1>2. CASE PeerHandshakes(c) \/ PeerSends(c) \/ PeerLeaves(c)
  <2>1. Elsewhere
    BY <1>2 DEF PeerHandshakes, PeerSends, PeerLeaves, Elsewhere
  <2>2. TypeOK'
    BY <1>0, <1>2 DEF PeerHandshakes, PeerSends, PeerLeaves, TypeOK
  <2>. QED BY <2>1, <2>2, ElsewhereKeeps DEF IInv
<1>. QED BY <1>1, <1>2
-----------------------------------------------------------------------------
\* The counter and the three tables are right in every state the server can
\* reach, for any MAX_CONNS (lines 165-257).
THEOREM Inductive == Spec => []IInv
<1>1. Init => IInv
  <2>. SUFFICES ASSUME Init PROVE IInv
    OBVIOUS
  <2>1. TypeOK
    BY SslAssumption, SlotsType DEF Init, TypeOK
  <2>2. Used = {}
    BY DEF Init, Used
  <2>3. CountMatches
    BY <2>2, FS_EmptySet DEF Init, CountMatches
  <2>4. SlotsAgree
    BY <2>2 DEF Init, SlotsAgree
  <2>. QED BY <2>1, <2>3, <2>4 DEF IInv
<1>2. IInv /\ UNCHANGED vars => IInv'
  BY DEF IInv, vars, TypeOK, CountMatches, SlotsAgree, Used
<1>3. IInv /\ [Next]_vars => IInv'
  BY <1>2, ServeStep, PeersStep DEF Next
<1>. QED BY <1>1, <1>3, PTL DEF Spec

\* The counter that decides on rejection is the number of occupied slots.
THEOREM CountCorrect == Spec => []CountMatches
<1>1. IInv => CountMatches
  BY DEF IInv
<1>. QED BY <1>1, Inductive, PTL

\* clients, hConns and rwConns agree with each other, with the sockets and with
\* the SSL objects.
THEOREM SlotsCorrect == Spec => []SlotsAgree
<1>1. IInv => SlotsAgree
  BY DEF IInv
<1>. QED BY <1>1, Inductive, PTL

\* There is a slot for every connection the server accepts (lines 172-183): the
\* loop over the slots never ends without having found one.
THEOREM AcceptFindsSlot == Spec => [][\A c \in Conns : Accept(c) => LowestFree # {}]_vars
<1>1. IInv => \A c \in Conns : Accept(c) => LowestFree # {}
  BY FreeSlotFound DEF IInv, Accept
<1>. QED BY <1>1, Inductive, PTL
================================================================================
