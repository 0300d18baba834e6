----------------------- MODULE BlockingQueueFifoProofs -----------------------
(***************************************************************************)
(* BlockingQueue implements BoundedFifo, for every value of the constants. *)
(*                                                                         *)
(* Each step of the code maps to one abstract step or to none: the         *)
(* critical sections of enqueue and dequeue to Accept, Refuse, Take and    *)
(* TakeNull, the malloc of an enqueue to Offer, the start of a dequeue to  *)
(* Ask, createQueue to Open, stop = 1 to Close, the start of the drain     *)
(* loop to Discard; sleeping, waking, freeing and faulting to none.        *)
(***************************************************************************)
EXTENDS BlockingQueueProofs

\* The items of the nodes of list l, given the data fields d of the nodes.
Contents(l, d) == [i \in DOMAIN l |-> d[l[i]]]

Buffer == Contents(chain, data)
IsOpen == qptr # "null" /\ ~stop
Offers == [p \in Producers |-> IF node[p] = NULL THEN None ELSE data[node[p]]]

LEMMA ContentsAppend ==
  ASSUME NEW l \in Seq(Nodes), NEW n \in Nodes, NEW d
  PROVE  Contents(Append(l, n), d) = Append(Contents(l, d), d[n])
<1>. DEFINE k == Len(l)
            T == {d[m] : m \in Nodes}
            a == Append(l, n)
            b == Append(Contents(l, d), d[n])
<1>1. /\ k \in Nat /\ DOMAIN l = 1 .. k
      /\ \A i \in 1 .. k : l[i] \in Nodes
  BY LenProperties, ElementOfSeq
<1>2. /\ a \in Seq(Nodes) /\ Len(a) = k + 1 /\ a[k + 1] = n
      /\ \A i \in 1 .. k : a[i] = l[i]
  BY AppendProperties
<1>3. DOMAIN a = 1 .. k + 1
  BY <1>2, LenProperties
<1>4. Contents(l, d) \in [1 .. k -> T]
  BY <1>1 DEF Contents
<1>5. Contents(l, d) \in Seq(T) /\ Len(Contents(l, d)) = k
  BY <1>1, <1>4, IsASeq, LenProperties
<1>6. d[n] \in T
  OBVIOUS
<1>7. /\ b \in Seq(T) /\ Len(b) = k + 1 /\ b[k + 1] = d[n]
      /\ \A i \in 1 .. k : b[i] = Contents(l, d)[i]
  BY <1>5, <1>6, AppendProperties
<1>8. \A i \in 1 .. k : b[i] = d[l[i]]
  BY <1>1, <1>7 DEF Contents
<1>9. b = [i \in 1 .. k + 1 |-> b[i]]
  BY <1>7, LenProperties
<1>10. \A i \in 1 .. k + 1 : b[i] = d[a[i]]
  BY <1>1, <1>2, <1>7, <1>8
<1>. QED BY <1>3, <1>9, <1>10 DEF Contents

LEMMA ContentsHeadTail ==
  ASSUME NEW l \in Seq(Nodes), l # << >>, NEW d
  PROVE  /\ Contents(l, d) # << >>
         /\ Head(Contents(l, d)) = d[l[1]]
         /\ Contents(Tail(l), d) = Tail(Contents(l, d))
<1>. DEFINE k == Len(l)
            T == {d[m] : m \in Nodes}
            c == Contents(l, d)
<1>1. /\ k \in Nat /\ k # 0 /\ DOMAIN l = 1 .. k
      /\ \A i \in 1 .. k : l[i] \in Nodes
  BY LenProperties, ElementOfSeq, EmptySeq
<1>2. /\ Tail(l) \in Seq(Nodes) /\ Len(Tail(l)) = k - 1
      /\ \A i \in 1 .. k - 1 : Tail(l)[i] = l[i + 1]
  BY HeadTailProperties
<1>3. DOMAIN Tail(l) = 1 .. k - 1
  BY <1>2, LenProperties
<1>4. c \in [1 .. k -> T]
  BY <1>1 DEF Contents
<1>5. c \in Seq(T) /\ Len(c) = k /\ c # << >>
  BY <1>1, <1>4, IsASeq, LenProperties, EmptySeq
<1>6. /\ Head(c) = c[1]
      /\ Tail(c) \in Seq(T) /\ Len(Tail(c)) = k - 1
      /\ \A i \in 1 .. k - 1 : Tail(c)[i] = c[i + 1]
  BY <1>5, HeadTailProperties
<1>7. \A i \in 1 .. k : c[i] = d[l[i]]
  BY <1>1 DEF Contents
<1>8. Tail(c) = [i \in 1 .. k - 1 |-> Tail(c)[i]]
  BY <1>6, LenProperties
<1>9. \A i \in 1 .. k - 1 : Tail(c)[i] = d[Tail(l)[i]]
  BY <1>1, <1>2, <1>6, <1>7
<1>10. Contents(Tail(l), d) = Tail(c)
  BY <1>3, <1>8, <1>9 DEF Contents
<1>. QED BY <1>1, <1>5, <1>6, <1>7, <1>10

LEMMA ContentsLen ==
  ASSUME NEW l \in Seq(Nodes), NEW d
  PROVE  Len(Contents(l, d)) = Len(l)
BY LenProperties DEF Contents

LEMMA ContentsSame ==
  ASSUME NEW l \in Seq(Nodes), NEW d, NEW e, \A i \in 1 .. Len(l) : d[l[i]] = e[l[i]]
  PROVE  Contents(l, d) = Contents(l, e)
BY LenProperties DEF Contents
-----------------------------------------------------------------------------
\* What the fields behind the abstract variables hold.
DataInv ==
    /\ \A p \in Producers : node[p] # NULL => data[node[p]] \in Items
    /\ \A c \in Consumers :
          pc[c] \in {"enter", "locked", "asleep", "woken"} => result[c] = None

LEMMA DataStep == IInv /\ DataInv /\ [Next]_vars => DataInv'
<1>. SUFFICES ASSUME IInv, DataInv, [Next]_vars PROVE DataInv'
  OBVIOUS
<1>. USE ThreadsDisjoint, DataAssumption DEF statics, links, heap, threads, NodeOrNull
<1>0. TypeOK /\ CallInv /\ HeapInv
  BY DEF IInv
<1>1. ASSUME NEW p \in Producers, Enqueue(p) PROVE DataInv'
  <2>1. CASE EnqCall(p)
    <3>1. PICK n \in Nodes \ alloc, i \in Items :
             /\ data' = [data EXCEPT ![n] = i]
             /\ node' = [node EXCEPT ![p] = n]
             /\ pc' = [pc EXCEPT ![p] = "enter"]
             /\ UNCHANGED result
      BY <2>1 DEF EnqCall
    <3>2. \A q \in Producers : node'[q] # NULL => data'[node'[q]] \in Items
      BY <1>0, <3>1 DEF TypeOK, HeapInv, DataInv
    <3>. QED BY <1>0, <3>1, <3>2 DEF TypeOK, DataInv
  <2>2. CASE EnqWait(p)
    BY <1>0, <2>2 DEF TypeOK, DataInv, EnqWait, Sleep
  <2>3. CASE EnqAbort(p)
    <3>1. node[p] \in Nodes
      BY <1>0, <2>3 DEF EnqAbort, CallInv
    <3>2. \A q \in Producers : node'[q] # NULL => data'[node'[q]] \in Items
      BY <1>0, <2>3, <3>1 DEF EnqAbort, TypeOK, HeapInv, DataInv
    <3>. QED BY <1>0, <2>3, <3>2 DEF EnqAbort, TypeOK, DataInv
  <2>4. CASE EnqLink(p)
    BY <1>0, <2>4 DEF TypeOK, DataInv, EnqLink
  <2>5. CASE EnqWake(p)
    BY <1>0, <2>5 DEF TypeOK, DataInv, EnqWake, WakeOne, NotEmptySleepers
  <2>. QED BY <1>1, <2>1, <2>2, <2>3, <2>4, <2>5 DEF Enqueue
<1>2. ASSUME NEW c \in Consumers, Dequeue(c) PROVE DataInv'
  <2>1. CASE DeqNull(c) \/ DeqCall(c)
    BY <1>0, <2>1 DEF TypeOK, DataInv, DeqNull, DeqCall
  <2>2. CASE DeqWait(c) \/ DeqStop(c)
    BY <1>0, <2>2 DEF TypeOK, DataInv, DeqWait, Sleep, DeqStop
  <2>3. CASE DeqUnlink(c)
    BY <1>0, <2>3 DEF TypeOK, DataInv, DeqUnlink
  <2>4. CASE DeqWake(c)
    <3>1. node[c] \in Nodes
      BY <1>0, <2>4 DEF DeqWake, CallInv
    <3>2. \A q \in Producers : node'[q] # NULL => data'[node'[q]] \in Items
      BY <1>0, <2>4, <3>1 DEF DeqWake, TypeOK, HeapInv, DataInv
    <3>3. \A u \in Consumers : pc'[u] = pc[u] \/ pc'[u] = "idle"
      BY <1>0, <2>4 DEF DeqWake, WakeOne, WakeLost, NotFullSleepers, TypeOK
    <3>. QED BY <2>4, <3>2, <3>3 DEF DeqWake, DataInv
  <2>. QED BY <1>2, <2>1, <2>2, <2>3, <2>4 DEF Dequeue
<1>3. ASSUME NEW t \in Threads, Acquire(t) \/ SpuriousWake(t) \/ Fault(t)
      PROVE  DataInv'
  BY <1>0, <1>3 DEF TypeOK, DataInv, Acquire, SpuriousWake, Fault
<1>4. CASE DestroyWakeAll
  <2>1. UNCHANGED <<node, data, result>>
    BY <1>4 DEF DestroyWakeAll
  <2>. QED BY <1>4, <2>1, WakeAllWakesSleepers DEF DataInv
<1>5. CASE DrainNode
  <2>1. \A t \in Threads : node[t] # NULL => node[t] # next[front]
    BY <1>5, DrainedNodeIsFree DEF DrainNode
  <2>2. \A p \in Producers : node[p] # NULL => data'[node[p]] = data[node[p]]
    BY <1>0, <1>5, <2>1 DEF DrainNode, TypeOK
  <2>. QED BY <1>5, <2>2 DEF DrainNode, DataInv
<1>6. CASE Create \/ SetStop \/ DestroyEnter \/ FreeQueue \/ DestroyLeave
           \/ DestroyDelete \/ FaultOwner
  BY <1>6 DEF Create, SetStop, DestroyEnter, FreeQueue, DestroyLeave, DestroyDelete,
              FaultOwner, DataInv
<1>7. CASE UNCHANGED vars
  BY <1>7 DEF vars, DataInv
<1>. QED BY <1>1, <1>2, <1>3, <1>4, <1>5, <1>6, <1>7 DEF Next, Destroy
-----------------------------------------------------------------------------
LEMMA FifoStep == IInv /\ DataInv /\ [Next]_vars => [Fifo!Next]_(Fifo!fifoVars)
<1>. SUFFICES ASSUME IInv, DataInv, [Next]_vars
              PROVE  Fifo!Next \/ UNCHANGED <<Buffer, IsOpen, Offers, result>>
  BY DEF Fifo!fifoVars, Buffer, Contents, IsOpen, Offers
<1>. USE ThreadsDisjoint, DataAssumption DEF statics, links, heap, threads, NodeOrNull
<1>0. /\ TypeOK /\ PhaseInv /\ CallInv /\ HeapInv /\ DrainInv /\ chain \in Seq(Nodes)
      /\ Len(chain) \in Nat
  BY LenProperties DEF IInv, TypeOK
\* Writing to the data of a node that is in no list leaves the buffer alone.
<1>1. ASSUME NEW n, UNCHANGED chain,
             \A i \in 1 .. Len(chain) : chain[i] # n,
             \A m \in Nodes : m # n => data'[m] = data[m]
      PROVE  UNCHANGED Buffer
  <2>1. \A i \in 1 .. Len(chain) : data'[chain[i]] = data[chain[i]]
    BY <1>0, <1>1, ElementOfSeq
  <2>2. Contents(chain, data') = Contents(chain, data)
    BY <1>0, <2>1, ContentsSame
  <2>. QED BY <1>1, <2>2 DEF Buffer, Contents
\* A step that changes the offer of one producer, or of none.
<1>2. ASSUME NEW p \in Producers,
             \A q \in Producers :
                q # p => /\ node'[q] = node[q]
                         /\ node[q] # NULL => data'[node[q]] = data[node[q]]
      PROVE  Offers' = [Offers EXCEPT ![p] =
                           IF node'[p] = NULL THEN None ELSE data'[node'[p]]]
  BY <1>2 DEF Offers
<1>3. ASSUME \A q \in Producers :
                /\ node'[q] = node[q]
                /\ node[q] # NULL => data'[node[q]] = data[node[q]]
      PROVE  UNCHANGED Offers
  BY <1>3 DEF Offers
<1>4. ASSUME NEW p \in Producers, Enqueue(p)
      PROVE  Fifo!Next \/ UNCHANGED <<Buffer, IsOpen, Offers, result>>
  <2>0. UNCHANGED <<IsOpen, result>>
    BY <1>4 DEF IsOpen, Enqueue, EnqCall, EnqWait, EnqAbort, EnqLink, EnqWake, Sleep
  <2>1. CASE EnqCall(p)
    <3>1. PICK n \in Nodes \ alloc, i \in Items :
             data' = [data EXCEPT ![n] = i] /\ node' = [node EXCEPT ![p] = n]
      BY <2>1 DEF EnqCall
    <3>2. UNCHANGED chain /\ pc[p] = "idle"
      BY <2>1 DEF EnqCall
    <3>3. \A j \in 1 .. Len(chain) : chain[j] # n
      BY <1>0, <3>1 DEF HeapInv
    <3>4. \A m \in Nodes : m # n => data'[m] = data[m]
      BY <1>0, <3>1 DEF TypeOK
    <3>5. UNCHANGED Buffer
      BY <1>1, <3>2, <3>3, <3>4
    <3>6. \A q \in Producers :
             q # p => /\ node'[q] = node[q]
                      /\ node[q] # NULL => data'[node[q]] = data[node[q]]
      BY <1>0, <3>1 DEF TypeOK, HeapInv
    <3>7. node'[p] = n /\ data'[n] = i /\ n # NULL /\ node[p] = NULL
      BY <1>0, <3>1, <3>2 DEF TypeOK, CallInv
    <3>8. Offers' = [Offers EXCEPT ![p] = i] /\ Offers[p] = None
      BY <1>2, <3>6, <3>7 DEF Offers
    <3>9. Fifo!Offer(p, i)
      BY <2>0, <3>5, <3>8 DEF Fifo!Offer, Offers, Buffer, Contents, IsOpen
    <3>. QED BY <3>9 DEF Fifo!Next
  <2>2. CASE EnqWait(p) \/ EnqWake(p)
    BY <2>0, <2>2 DEF EnqWait, EnqWake, Sleep, Buffer, Contents, Offers
  <2>3. CASE EnqAbort(p)
    <3>1. /\ pc[p] = "locked" /\ stop /\ UNCHANGED chain
          /\ data' = [data EXCEPT ![node[p]] = None]
          /\ node' = [node EXCEPT ![p] = NULL]
      BY <2>3 DEF EnqAbort
    <3>2. \A j \in 1 .. Len(chain) : chain[j] # node[p]
      BY <1>0 DEF HeapInv
    <3>3. \A m \in Nodes : m # node[p] => data'[m] = data[m]
      BY <1>0, <3>1 DEF TypeOK
    <3>4. UNCHANGED Buffer
      BY <1>1, <3>1, <3>2, <3>3
    <3>5. \A q \in Producers :
             q # p => /\ node'[q] = node[q]
                      /\ node[q] # NULL => data'[node[q]] = data[node[q]]
      BY <1>0, <3>1 DEF TypeOK, HeapInv
    <3>6. node'[p] = NULL
      BY <1>0, <3>1 DEF TypeOK
    <3>7. Offers' = [Offers EXCEPT ![p] = None]
      BY <1>2, <3>5, <3>6
    <3>8. Fifo!Refuse(p)
      BY <2>0, <3>1, <3>4, <3>7 DEF Fifo!Refuse, Offers, Buffer, Contents, IsOpen
    <3>. QED BY <3>8 DEF Fifo!Next
  <2>4. CASE EnqLink(p)
    <3>1. /\ pc[p] = "locked" /\ size < glimitSize /\ ~stop
          /\ chain' = Append(chain, node[p]) /\ UNCHANGED data
          /\ node' = [node EXCEPT ![p] = NULL]
      BY <2>4 DEF EnqLink, MayLink
    <3>2. node[p] \in Nodes /\ node[p] # NULL
      BY <1>0, <3>1 DEF CallInv
    <3>3. qptr = "live" /\ glimitSize = Limit
      BY <1>0, <3>1 DEF PhaseInv, TypeOK
    <3>4. IsOpen
      BY <3>1, <3>3 DEF IsOpen
    <3>5. Offers[p] = data[node[p]] /\ data[node[p]] # None
      BY <3>2 DEF Offers, DataInv
    <3>6. Len(Buffer) < Limit
      BY <1>0, <3>1, <3>3, ContentsLen, FrontNode DEF Buffer
    <3>7. Buffer' = Append(Buffer, Offers[p])
      <4>1. Contents(Append(chain, node[p]), data) = Append(Contents(chain, data), data[node[p]])
        BY <1>0, <3>2, ContentsAppend
      <4>. QED BY <3>1, <3>5, <4>1 DEF Buffer, Contents
    <3>8. Offers' = [Offers EXCEPT ![p] = None]
      BY <1>0, <1>2, <3>1 DEF TypeOK
    <3>9. Fifo!Accept(p)
      BY <2>0, <3>4, <3>5, <3>6, <3>7, <3>8
      DEF Fifo!Accept, Offers, Buffer, Contents, IsOpen
    <3>. QED BY <3>9 DEF Fifo!Next
  <2>. QED BY <1>4, <2>1, <2>2, <2>3, <2>4 DEF Enqueue
<1>5. ASSUME NEW c \in Consumers, Dequeue(c)
      PROVE  Fifo!Next \/ UNCHANGED <<Buffer, IsOpen, Offers, result>>
  <2>0. UNCHANGED IsOpen
    BY <1>5
       DEF IsOpen, Dequeue, DeqNull, DeqCall, DeqWait, DeqStop, DeqUnlink, DeqWake, Sleep
  <2>1. CASE DeqNull(c) \/ DeqStop(c)
    <3>1. UNCHANGED <<Buffer, Offers>> /\ ~IsOpen
          /\ result' = [result EXCEPT ![c] = NULL]
      BY <2>1 DEF DeqNull, DeqStop, Buffer, Contents, Offers, IsOpen
    <3>2. Fifo!TakeNull(c)
      BY <2>0, <3>1 DEF Fifo!TakeNull, Offers, Buffer, Contents, IsOpen
    <3>. QED BY <3>2 DEF Fifo!Next
  <2>2. CASE DeqCall(c)
    <3>1. UNCHANGED <<Buffer, Offers>> /\ result' = [result EXCEPT ![c] = None]
      BY <2>2 DEF DeqCall, Buffer, Contents, Offers
    <3>2. Fifo!Ask(c)
      BY <2>0, <3>1 DEF Fifo!Ask, Offers, Buffer, Contents, IsOpen
    <3>. QED BY <3>2 DEF Fifo!Next
  <2>3. CASE DeqWait(c)
    BY <2>0, <2>3 DEF DeqWait, Sleep, Buffer, Contents, Offers
  <2>4. CASE DeqUnlink(c)
    <3>1. /\ pc[c] = "locked" /\ size # 0 /\ ~stop
          /\ chain' = Tail(chain) /\ UNCHANGED data
          /\ node' = [node EXCEPT ![c] = front]
          /\ result' = [result EXCEPT ![c] = data[front]]
      BY <2>4 DEF DeqUnlink
    <3>2. chain # << >> /\ front = chain[1]
      BY <3>1, FrontNode
    <3>3. IsOpen
      BY <1>0, <3>1 DEF IsOpen, PhaseInv
    <3>4. result[c] = None
      BY <3>1 DEF DataInv
    <3>5. /\ Buffer # << >> /\ Head(Buffer) = data[front]
          /\ Contents(Tail(chain), data) = Tail(Buffer)
      BY <1>0, <3>2, ContentsHeadTail DEF Buffer
    <3>6. Buffer' = Tail(Buffer)
      BY <3>1, <3>5 DEF Buffer, Contents
    <3>7. UNCHANGED Offers
      BY <1>0, <1>3, <3>1 DEF TypeOK
    <3>8. Fifo!Take(c)
      BY <2>0, <3>1, <3>3, <3>4, <3>5, <3>6, <3>7
      DEF Fifo!Take, Offers, Buffer, Contents, IsOpen
    <3>. QED BY <3>8 DEF Fifo!Next
  <2>5. CASE DeqWake(c)
    <3>1. /\ pc[c] = "wake" /\ UNCHANGED <<chain, result>>
          /\ data' = [data EXCEPT ![node[c]] = None]
          /\ node' = [node EXCEPT ![c] = NULL]
      BY <2>5 DEF DeqWake
    <3>2. \A j \in 1 .. Len(chain) : chain[j] # node[c]
      BY <1>0 DEF HeapInv
    <3>3. \A m \in Nodes : m # node[c] => data'[m] = data[m]
      BY <1>0, <3>1 DEF TypeOK
    <3>4. UNCHANGED Buffer
      BY <1>1, <3>1, <3>2, <3>3
    <3>5. \A q \in Producers :
             /\ node'[q] = node[q]
             /\ node[q] # NULL => data'[node[q]] = data[node[q]]
      BY <1>0, <3>1 DEF TypeOK, HeapInv
    <3>6. UNCHANGED Offers
      BY <1>3, <3>5
    <3>. QED BY <2>0, <3>1, <3>4, <3>6
  <2>. QED BY <1>5, <2>1, <2>2, <2>3, <2>4, <2>5 DEF Dequeue
<1>6. CASE Create
  <2>1. UNCHANGED <<Buffer, Offers, result>> /\ phase = "boot"
    BY <1>6 DEF Create, Buffer, Contents, Offers
  <2>2. chain = << >> /\ ~IsOpen
    BY <1>0, <2>1 DEF PhaseInv, IsOpen
  <2>3. Buffer = << >>
    BY <2>2 DEF Buffer, Contents
  <2>4. CASE IsOpen'
    <3>1. Fifo!Open
      BY <2>1, <2>2, <2>3, <2>4 DEF Fifo!Open, Offers, Buffer, Contents, IsOpen
    <3>. QED BY <3>1 DEF Fifo!Next
  <2>5. CASE ~IsOpen'
    BY <2>1, <2>2, <2>5 DEF IsOpen
  <2>. QED BY <2>4, <2>5
<1>7. CASE SetStop
  <2>1. UNCHANGED <<Buffer, Offers, result>> /\ ~IsOpen'
    BY <1>7 DEF SetStop, Buffer, Contents, Offers, IsOpen
  <2>2. Fifo!Close
    BY <2>1 DEF Fifo!Close, Offers, Buffer, Contents, IsOpen
  <2>. QED BY <2>2 DEF Fifo!Next
<1>8. CASE DestroyWakeAll
  <2>1. UNCHANGED <<IsOpen, Offers, result>> /\ phase = "closing" /\ chain' = << >>
    BY <1>8 DEF DestroyWakeAll, IsOpen, Offers
  <2>2. ~IsOpen
    BY <1>0, <2>1 DEF PhaseInv, IsOpen
  <2>3. Buffer' = << >>
    BY <2>1 DEF Buffer, Contents
  <2>4. Fifo!Discard
    BY <2>1, <2>2, <2>3 DEF Fifo!Discard, Offers, Buffer, Contents, IsOpen
  <2>. QED BY <2>4 DEF Fifo!Next
<1>9. CASE DrainNode
  <2>1. UNCHANGED <<IsOpen, result, node, chain>> /\ phase = "draining"
    BY <1>9 DEF DrainNode, IsOpen
  <2>2. UNCHANGED Buffer
    BY <1>0, <2>1 DEF DrainInv, Buffer, Contents
  <2>3. \A t \in Threads : node[t] # NULL => node[t] # next[front]
    BY <1>9, DrainedNodeIsFree DEF DrainNode
  <2>4. \A p \in Producers : node[p] # NULL => data'[node[p]] = data[node[p]]
    BY <1>0, <1>9, <2>3 DEF DrainNode, TypeOK
  <2>5. UNCHANGED Offers
    BY <1>3, <2>1, <2>4
  <2>. QED BY <2>1, <2>2, <2>5
<1>10. CASE DestroyEnter \/ FreeQueue \/ DestroyLeave \/ DestroyDelete \/ FaultOwner
  <2>1. UNCHANGED <<Buffer, Offers, result>>
    BY <1>10 DEF DestroyEnter, FreeQueue, DestroyLeave, DestroyDelete, FaultOwner,
                 Buffer, Contents, Offers
  <2>2. UNCHANGED IsOpen
    BY <1>0, <1>10 DEF DestroyEnter, FreeQueue, DestroyLeave, DestroyDelete, FaultOwner,
                       IsOpen, PhaseInv
  <2>. QED BY <2>1, <2>2
<1>11. ASSUME NEW t \in Threads, Acquire(t) \/ SpuriousWake(t) \/ Fault(t)
       PROVE  UNCHANGED <<Buffer, IsOpen, Offers, result>>
  BY <1>11 DEF Acquire, SpuriousWake, Fault, Buffer, Contents, IsOpen, Offers
<1>12. CASE UNCHANGED vars
  BY <1>12 DEF vars, Buffer, Contents, IsOpen, Offers
<1>. QED BY <1>4, <1>5, <1>6, <1>7, <1>8, <1>9, <1>10, <1>11, <1>12 DEF Next, Destroy

LEMMA FifoInit == Init => Fifo!Init /\ DataInv
<1>. SUFFICES ASSUME Init PROVE Fifo!Init /\ DataInv
  OBVIOUS
<1>1. Fifo!Init
  BY ThreadsDisjoint DEF Init, Fifo!Init
<1>2. DataInv
  BY ThreadsDisjoint DEF Init, DataInv
<1>. QED BY <1>1, <1>2

\* Every behaviour of the code is one of the abstract buffer: items leave in
\* the order they were linked, no more than one dequeue gets each, the buffer
\* never exceeds the limit, and a stopped queue takes and gives nothing
\* (enqueue, dequeue and destroyQueue of blocking_queue.c).
THEOREM FifoCorrect == Spec => ImplementsFifo
<1>1. Init => Fifo!Init /\ DataInv
  BY FifoInit
<1>2. IInv /\ DataInv /\ [Next]_vars => DataInv'
  BY DataStep
<1>3. IInv /\ DataInv /\ [Next]_vars => [Fifo!Next]_(Fifo!fifoVars)
  BY FifoStep
<1>. QED BY <1>1, <1>2, <1>3, Inductive, PTL DEF Spec, ImplementsFifo, Fifo!Spec
==============================================================================
