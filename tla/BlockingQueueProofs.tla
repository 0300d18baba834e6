------------------------- MODULE BlockingQueueProofs -------------------------
(***************************************************************************)
(* Theorems of BlockingQueue, for any finite sets of threads, any memory,  *)
(* any items and any limit.                                                *)
(*                                                                         *)
(* The inductive invariant IInv says, beside the types, where each thread  *)
(* stands with the node it holds (CallInv), what is true before and after  *)
(* stop is set (PhaseInv), that no node has two owners (HeapInv), and that *)
(* the pointers of the queue describe the list of nodes linked (ListInv).  *)
(***************************************************************************)
EXTENDS BlockingQueue, SequenceTheorems, FiniteSetTheorems, TLAPS

PhaseInv ==
    /\ stop <=> phase \notin {"boot", "serving"}
    /\ qptr = "null" => /\ \A t \in Threads : pc[t] = "idle"
                        /\ chain = << >>
    /\ qptr = "live" => glimitSize = Limit
    /\ phase = "boot" => qptr = "null"
    /\ qptr = "freed" => phase \notin {"boot", "serving"}

CallInv ==
    /\ \A p \in Producers :
          /\ pc[p] \in {"enter", "locked", "asleep", "woken"} =>
                node[p] \in Nodes /\ next[node[p]] = NULL
          /\ pc[p] \in {"idle", "wake"} => node[p] = NULL
    /\ \A c \in Consumers :
          /\ pc[c] = "wake" => node[c] \in Nodes
          /\ pc[c] \in {"idle", "enter", "locked", "asleep", "woken"} => node[c] = NULL

HeapInv ==
    /\ \A t \in Threads : node[t] # NULL => node[t] \in alloc
    /\ \A t, u \in Threads : node[t] # NULL /\ node[t] = node[u] => t = u
    /\ \A i \in 1 .. Len(chain) :
          chain[i] \in alloc /\ \A t \in Threads : node[t] # chain[i]

\* What destroyQueue's loop has still to visit: k nodes, linked from q->front
\* on, of which all but the first (which the loop has freed already, or never
\* frees) are allocated and in nobody's hands.
DrainPath(k, s) ==
    /\ k \in Nat \ {0} /\ s \in [1 .. k -> Nodes]
    /\ s[1] = front
    /\ \A i \in 1 .. k : next[s[i]] = IF i = k THEN NULL ELSE s[i + 1]
    /\ \A i, j \in 1 .. k : s[i] = s[j] => i = j
    /\ \A i \in 2 .. k : s[i] \in alloc /\ \A t \in Threads : node[t] # s[i]

HasDrainPath == \E k, s : DrainPath(k, s)

DrainInv ==
    phase = "draining" => chain = << >> /\ (front # NULL => HasDrainPath)

IInv == TypeOK /\ PhaseInv /\ CallInv /\ HeapInv /\ DrainInv /\ ListInv

-----------------------------------------------------------------------------
LEMMA LimitType == Limit \in Nat /\ Limit > 0
  BY SizeAssumption DEF Limit

LEMMA ThreadsDisjoint ==
    /\ \A p \in Producers : p \in Threads /\ p \notin Consumers
    /\ \A c \in Consumers : c \in Threads /\ c \notin Producers
  BY ThreadsAssumption DEF Threads

\* While stop is not set the list belongs to the calls, and a queue whose size
\* is not 0 has a first node.
LEMMA FrontNode ==
  ASSUME IInv, ~stop
  PROVE  /\ Open
         /\ size = Len(chain)
         /\ size # 0 => /\ chain # << >>
                        /\ Len(chain) >= 1
                        /\ front = chain[1]
                        /\ front \in Nodes
<1>1. Open
  BY DEF IInv, PhaseInv, TypeOK, Open
<1>2. size = Len(chain) /\ (chain # << >> => front = chain[1])
  BY <1>1 DEF IInv, ListInv
<1>3. ASSUME size # 0
      PROVE  chain # << >> /\ Len(chain) >= 1 /\ chain[1] \in Nodes
  <2>1. chain \in Seq(Nodes)
    BY DEF IInv, TypeOK
  <2>2. chain # << >>
    BY <1>2, <1>3
  <2>3. Len(chain) \in Nat /\ Len(chain) >= 1
    BY <2>1, <2>2, EmptySeq, LenProperties
  <2>. QED BY <2>1, <2>2, <2>3, ElementOfSeq
<1>. QED BY <1>1, <1>2, <1>3

LEMMA TypeInit == Init => TypeOK
<1>. SUFFICES ASSUME Init PROVE TypeOK
  OBVIOUS
<1>1. chain \in Seq(Nodes)
  BY EmptySeq DEF Init
<1>2. /\ data \in [Nodes -> Items \cup {None}] /\ next \in [Nodes -> NodeOrNull]
      /\ node \in [Threads -> NodeOrNull]
      /\ result \in [Consumers -> Items \cup {None, NULL}]
  BY DEF Init, NodeOrNull
<1>. QED BY <1>1, <1>2 DEF Init, TypeOK, NodeOrNull

LEMMA TypeStep == IInv /\ [Next]_vars => TypeOK'
<1>. SUFFICES ASSUME IInv, [Next]_vars PROVE TypeOK'
  OBVIOUS
<1>. USE ThreadsDisjoint, LimitType DEF NodeOrNull, statics, links, heap, threads
<1>0. TypeOK
  BY DEF IInv
<1>1. CASE Create
  BY <1>0, <1>1, SizeAssumption DEF TypeOK, Create
<1>2. ASSUME NEW p \in Producers, Enqueue(p) PROVE TypeOK'
  <2>1. CASE EnqCall(p)
    BY <1>0, <2>1 DEF TypeOK, EnqCall
  <2>2. CASE EnqWait(p)
    BY <1>0, <2>2 DEF TypeOK, EnqWait, Sleep
  <2>3. CASE EnqAbort(p)
    BY <1>0, <2>3 DEF TypeOK, EnqAbort
  <2>4. CASE EnqLink(p)
    <3>1. node[p] \in Nodes
      BY <2>4 DEF EnqLink, IInv, CallInv
    <3>2. chain' \in Seq(Nodes)
      BY <1>0, <2>4, <3>1, AppendProperties DEF EnqLink, TypeOK
    <3>3. /\ front' \in NodeOrNull /\ rear' \in NodeOrNull
          /\ next' \in [Nodes -> NodeOrNull]
      BY <1>0, <2>4, <3>1 DEF TypeOK, EnqLink, Hook
    <3>. QED BY <1>0, <2>4, <3>1, <3>2, <3>3 DEF TypeOK, EnqLink
  <2>5. CASE EnqWake(p)
    BY <1>0, <2>5 DEF TypeOK, EnqWake, WakeOne, NotEmptySleepers
  <2>. QED BY <1>2, <2>1, <2>2, <2>3, <2>4, <2>5 DEF Enqueue
<1>3. ASSUME NEW c \in Consumers, Dequeue(c) PROVE TypeOK'
  <2>1. CASE DeqNull(c)
    BY <1>0, <2>1 DEF TypeOK, DeqNull
  <2>2. CASE DeqCall(c)
    BY <1>0, <2>2 DEF TypeOK, DeqCall
  <2>3. CASE DeqWait(c)
    BY <1>0, <2>3 DEF TypeOK, DeqWait, Sleep
  <2>4. CASE DeqStop(c)
    BY <1>0, <2>4 DEF TypeOK, DeqStop
  <2>5. CASE DeqUnlink(c)
    <3>1. front \in Nodes /\ chain # << >>
      BY <2>5, FrontNode DEF DeqUnlink
    <3>2. chain' \in Seq(Nodes)
      BY <1>0, <2>5, <3>1, HeadTailProperties DEF DeqUnlink, TypeOK
    <3>. QED BY <1>0, <2>5, <3>1, <3>2 DEF TypeOK, DeqUnlink, Unhook
  <2>6. CASE DeqWake(c)
    <3>1. pc' \in [Threads -> {"idle", "enter", "locked", "asleep", "woken", "wake", "faulted"}]
      BY <1>0, <2>6 DEF TypeOK, DeqWake, WakeOne, WakeLost, NotFullSleepers
    <3>2. /\ alloc' \subseteq Nodes /\ data' \in [Nodes -> Items \cup {None}]
          /\ node' \in [Threads -> NodeOrNull]
      BY <1>0, <2>6 DEF TypeOK, DeqWake
    <3>3. UNCHANGED <<statics, qptr, links, lock, notFullOk, next, result, phase>>
      BY <2>6 DEF DeqWake
    <3>. QED BY <1>0, <3>1, <3>2, <3>3 DEF TypeOK
  <2>. QED BY <1>3, <2>1, <2>2, <2>3, <2>4, <2>5, <2>6 DEF Dequeue
<1>4. ASSUME NEW t \in Threads, Acquire(t) \/ SpuriousWake(t) \/ Fault(t)
      PROVE  TypeOK'
  BY <1>0, <1>4 DEF TypeOK, Acquire, SpuriousWake, Fault
<1>5. CASE Destroy
  <2>1. CASE DestroyWakeAll
    BY <1>0, <2>1, EmptySeq DEF TypeOK, DestroyWakeAll
  <2>2. CASE DrainNode
    BY <1>0, <2>2 DEF TypeOK, DrainNode
  <2>3. CASE SetStop \/ DestroyEnter \/ FreeQueue \/ DestroyLeave \/ DestroyDelete
    BY <1>0, <2>3 DEF TypeOK, SetStop, DestroyEnter, FreeQueue, DestroyLeave,
                      DestroyDelete
  <2>. QED BY <1>5, <2>1, <2>2, <2>3 DEF Destroy
<1>6. CASE FaultOwner
  BY <1>0, <1>6 DEF TypeOK, FaultOwner
<1>7. CASE UNCHANGED vars
  BY <1>0, <1>7 DEF TypeOK, vars
<1>. QED BY <1>1, <1>2, <1>3, <1>4, <1>5, <1>6, <1>7 DEF Next
-----------------------------------------------------------------------------
\* WakeAllConditionVariable moves sleeping threads only.
LEMMA WakeAllWakesSleepers ==
  ASSUME DestroyWakeAll
  PROVE  \A t \in Threads : pc'[t] = pc[t] \/ (pc[t] = "asleep" /\ pc'[t] = "woken")
<1>1. PICK woken \in WakeAll :
         pc' = [t \in Threads |-> IF t \in woken THEN "woken" ELSE pc[t]]
  BY DEF DestroyWakeAll
<1>2. woken \subseteq NotEmptySleepers \cup NotFullSleepers
  BY <1>1 DEF WakeAll
<1>3. \A t \in woken : pc[t] = "asleep"
  BY <1>2 DEF NotEmptySleepers, NotFullSleepers
<1>. QED BY <1>1, <1>3

LEMMA PhaseStep == IInv /\ [Next]_vars => PhaseInv'
<1>. SUFFICES ASSUME IInv, [Next]_vars PROVE PhaseInv'
  OBVIOUS
<1>. USE ThreadsDisjoint DEF statics, links, heap, threads
<1>0. TypeOK /\ PhaseInv
  BY DEF IInv
<1>1. CASE Create
  BY <1>0, <1>1 DEF TypeOK, PhaseInv, Create
<1>2. ASSUME NEW p \in Producers, Enqueue(p) PROVE PhaseInv'
  <2>1. qptr # "null"
    BY <1>0, <1>2 DEF PhaseInv, Enqueue, EnqCall, EnqWait, EnqAbort, EnqLink, EnqWake
  <2>2. UNCHANGED <<statics, qptr, phase>>
    BY <1>2 DEF Enqueue, EnqCall, EnqWait, EnqAbort, EnqLink, EnqWake, Sleep
  <2>. QED BY <1>0, <2>1, <2>2 DEF PhaseInv
<1>3. ASSUME NEW c \in Consumers, Dequeue(c) PROVE PhaseInv'
  <2>1. UNCHANGED <<statics, qptr, phase>>
    BY <1>3 DEF Dequeue, DeqNull, DeqCall, DeqWait, DeqStop, DeqUnlink, DeqWake, Sleep
  <2>2. CASE qptr = "null"
    <3>1. UNCHANGED <<pc, chain>>
      BY <1>0, <1>3, <2>2 DEF PhaseInv, Dequeue, DeqNull, DeqCall, DeqWait, DeqStop,
                              DeqUnlink, DeqWake
    <3>. QED BY <1>0, <2>1, <3>1 DEF PhaseInv
  <2>3. CASE qptr # "null"
    BY <1>0, <2>1, <2>3 DEF PhaseInv
  <2>. QED BY <2>2, <2>3
<1>4. ASSUME NEW t \in Threads, Acquire(t) \/ SpuriousWake(t) \/ Fault(t)
      PROVE  PhaseInv'
  <2>1. UNCHANGED <<statics, qptr, phase, chain>>
    BY <1>4 DEF Acquire, SpuriousWake, Fault
  <2>2. qptr # "null"
    BY <1>0, <1>4 DEF PhaseInv, Acquire, SpuriousWake, Fault, UsesFreedQueue,
                      UsesJunkNotFull
  <2>. QED BY <1>0, <2>1, <2>2 DEF PhaseInv
<1>5. CASE Destroy
  <2>1. CASE SetStop
    BY <1>0, <2>1 DEF PhaseInv, TypeOK, SetStop
  <2>2. CASE DestroyEnter
    BY <1>0, <2>2 DEF PhaseInv, TypeOK, DestroyEnter
  <2>3. CASE DestroyWakeAll
    <3>1. qptr = "null" => \A t \in Threads : pc'[t] = "idle"
      BY <1>0, <2>3 DEF PhaseInv, DestroyWakeAll, WakeAll, NotEmptySleepers,
                        NotFullSleepers
    <3>. QED BY <1>0, <2>3, <3>1 DEF PhaseInv, TypeOK, DestroyWakeAll
  <2>4. CASE DrainNode \/ FreeQueue
    BY <1>0, <2>4 DEF PhaseInv, TypeOK, DrainNode, FreeQueue
  <2>5. CASE DestroyLeave \/ DestroyDelete
    BY <1>0, <2>5 DEF PhaseInv, TypeOK, DestroyLeave, DestroyDelete
  <2>. QED BY <1>5, <2>1, <2>2, <2>3, <2>4, <2>5 DEF Destroy
<1>6. CASE FaultOwner
  BY <1>0, <1>6 DEF PhaseInv, TypeOK, FaultOwner
<1>7. CASE UNCHANGED vars
  BY <1>0, <1>7 DEF PhaseInv, vars
<1>. QED BY <1>1, <1>2, <1>3, <1>4, <1>5, <1>6, <1>7 DEF Next
-----------------------------------------------------------------------------
LEMMA CallStep == IInv /\ [Next]_vars => CallInv'
<1>. SUFFICES ASSUME IInv, [Next]_vars PROVE CallInv'
  OBVIOUS
<1>. USE ThreadsDisjoint, DataAssumption DEF statics, links, heap, threads, NodeOrNull
<1>0. TypeOK /\ PhaseInv /\ CallInv /\ HeapInv
  BY DEF IInv
<1>1. ASSUME NEW p \in Producers, Enqueue(p) PROVE CallInv'
  <2>1. CASE EnqCall(p)
    <3>1. PICK n \in Nodes \ alloc :
             /\ node' = [node EXCEPT ![p] = n]
             /\ next' = [next EXCEPT ![n] = NULL]
             /\ pc' = [pc EXCEPT ![p] = "enter"]
      BY <2>1 DEF EnqCall
    <3>2. \A t \in Threads : t # p => node'[t] = node[t] /\ pc'[t] = pc[t]
      BY <1>0, <3>1 DEF TypeOK
    <3>3. node'[p] = n /\ next'[n] = NULL /\ pc'[p] = "enter"
      BY <1>0, <3>1 DEF TypeOK
    <3>4. \A t \in Threads : node[t] \in Nodes => next'[node[t]] = next[node[t]]
      BY <1>0, <3>1 DEF TypeOK, HeapInv
    <3>. QED BY <1>0, <3>2, <3>3, <3>4 DEF CallInv
  <2>2. CASE EnqWait(p)
    BY <1>0, <2>2 DEF TypeOK, CallInv, EnqWait, Sleep
  <2>3. CASE EnqAbort(p)
    BY <1>0, <2>3 DEF TypeOK, CallInv, EnqAbort
  <2>4. CASE EnqLink(p)
    <3>1. ~stop /\ node[p] \in Nodes
      BY <1>0, <2>4 DEF EnqLink, MayLink, CallInv
    <3>2. \A t \in Threads : node[t] \in Nodes => next'[node[t]] = next[node[t]]
      <4>1. CASE rear = NULL
        BY <2>4, <4>1 DEF EnqLink, Hook
      <4>2. CASE rear # NULL
        <5>1. Open /\ ListInv
          BY <3>1, FrontNode DEF IInv
        <5>2. chain # << >> /\ rear = chain[Len(chain)] /\ chain \in Seq(Nodes)
          BY <1>0, <4>2, <5>1 DEF ListInv, TypeOK
        <5>3. Len(chain) \in 1 .. Len(chain)
          BY <5>2, EmptySeq, LenProperties
        <5>4. \A t \in Threads : node[t] # rear
          BY <1>0, <5>1, <5>2, <5>3 DEF HeapInv
        <5>. QED BY <1>0, <2>4, <4>2, <5>4 DEF EnqLink, Hook, TypeOK
      <4>. QED BY <4>1, <4>2
    <3>. QED BY <1>0, <2>4, <3>2 DEF TypeOK, CallInv, EnqLink
  <2>5. CASE EnqWake(p)
    BY <1>0, <2>5 DEF TypeOK, CallInv, EnqWake, WakeOne, NotEmptySleepers
  <2>. QED BY <1>1, <2>1, <2>2, <2>3, <2>4, <2>5 DEF Enqueue
<1>2. ASSUME NEW c \in Consumers, Dequeue(c) PROVE CallInv'
  <2>1. CASE DeqNull(c) \/ DeqCall(c)
    BY <1>0, <2>1 DEF TypeOK, CallInv, DeqNull, DeqCall
  <2>2. CASE DeqWait(c) \/ DeqStop(c)
    BY <1>0, <2>2 DEF TypeOK, CallInv, DeqWait, DeqStop, Sleep
  <2>3. CASE DeqUnlink(c)
    <3>1. front \in Nodes
      BY <2>3, FrontNode DEF DeqUnlink
    <3>. QED BY <1>0, <2>3, <3>1 DEF TypeOK, CallInv, DeqUnlink
  <2>4. CASE DeqWake(c)
    BY <1>0, <2>4 DEF TypeOK, CallInv, DeqWake, WakeOne, WakeLost, NotFullSleepers
  <2>. QED BY <1>2, <2>1, <2>2, <2>3, <2>4 DEF Dequeue
<1>3. ASSUME NEW t \in Threads, Acquire(t) \/ SpuriousWake(t) \/ Fault(t)
      PROVE  CallInv'
  BY <1>0, <1>3 DEF TypeOK, CallInv, Acquire, SpuriousWake, Fault
<1>4. CASE Destroy
  <2>1. CASE DestroyWakeAll
    <3>1. \A t \in Threads :
             pc'[t] = pc[t] \/ (pc[t] = "asleep" /\ pc'[t] = "woken")
      BY <2>1, WakeAllWakesSleepers
    <3>2. UNCHANGED <<node, next>>
      BY <2>1 DEF DestroyWakeAll
    <3>. QED BY <1>0, <3>1, <3>2 DEF CallInv
  <2>2. CASE DrainNode \/ SetStop \/ DestroyEnter \/ FreeQueue \/ DestroyLeave
             \/ DestroyDelete
    BY <1>0, <2>2 DEF CallInv, DrainNode, SetStop, DestroyEnter, FreeQueue,
                      DestroyLeave, DestroyDelete
  <2>. QED BY <1>4, <2>1, <2>2 DEF Destroy
<1>5. CASE Create \/ FaultOwner \/ UNCHANGED vars
  BY <1>0, <1>5 DEF CallInv, Create, FaultOwner, vars
<1>. QED BY <1>1, <1>2, <1>3, <1>4, <1>5 DEF Next
-----------------------------------------------------------------------------
\* What the drain loop frees next is an allocated node that no call holds.
LEMMA DrainedNodeIsFree ==
  ASSUME IInv, phase = "draining", front # NULL
  PROVE  /\ next[front] \in alloc \cup {NULL}
         /\ \A t \in Threads : node[t] # NULL => node[t] # next[front]
<1>1. PICK k, s : DrainPath(k, s)
  BY DEF IInv, DrainInv, HasDrainPath
<1>2. CASE k = 1
  BY <1>1, <1>2 DEF DrainPath
<1>3. CASE k >= 2
  BY <1>1, <1>3 DEF DrainPath
<1>. QED BY <1>1, <1>2, <1>3 DEF DrainPath

LEMMA HeapStep == IInv /\ [Next]_vars => HeapInv'
<1>. SUFFICES ASSUME IInv, [Next]_vars PROVE HeapInv'
  OBVIOUS
<1>. USE ThreadsDisjoint, DataAssumption DEF statics, links, heap, threads, NodeOrNull
<1>0. TypeOK /\ PhaseInv /\ CallInv /\ HeapInv
  BY DEF IInv
<1>1. ASSUME NEW p \in Producers, Enqueue(p) PROVE HeapInv'
  <2>1. CASE EnqCall(p)
    <3>1. PICK n \in Nodes \ alloc :
             node' = [node EXCEPT ![p] = n] /\ alloc' = alloc \cup {n}
      BY <2>1 DEF EnqCall
    <3>2. UNCHANGED <<chain, phase>>
      BY <2>1 DEF EnqCall
    <3>. QED BY <1>0, <3>1, <3>2 DEF TypeOK, HeapInv, Open
  <2>2. CASE EnqWait(p) \/ EnqWake(p)
    BY <1>0, <2>2 DEF HeapInv, Open, EnqWait, Sleep, EnqWake
  <2>3. CASE EnqAbort(p)
    <3>1. node[p] \in Nodes
      BY <1>0, <2>3 DEF EnqAbort, CallInv
    <3>2. UNCHANGED <<chain, phase>>
      BY <2>3 DEF EnqAbort
    <3>. QED BY <1>0, <2>3, <3>1, <3>2 DEF TypeOK, HeapInv, Open, EnqAbort
  <2>4. CASE EnqLink(p)
    <3>1. node[p] \in Nodes
      BY <1>0, <2>4 DEF EnqLink, CallInv
    <3>2. /\ UNCHANGED <<alloc, phase>>
          /\ node' = [node EXCEPT ![p] = NULL]
          /\ chain' = Append(chain, node[p])
      BY <2>4 DEF EnqLink
    <3>3. ASSUME NEW i \in 1 .. Len(chain')
          PROVE  chain'[i] \in alloc /\ \A t \in Threads : node'[t] # chain'[i]
      <4>1. /\ Len(chain') = Len(chain) + 1 /\ Len(chain) \in Nat
            /\ \A j \in 1 .. Len(chain) : chain'[j] = chain[j]
            /\ chain'[Len(chain) + 1] = node[p]
        BY <1>0, <3>1, <3>2, AppendProperties, LenProperties DEF TypeOK
      <4>2. CASE i \in 1 .. Len(chain)
        BY <1>0, <3>2, <3>3, <4>1, <4>2 DEF TypeOK, HeapInv
      <4>3. CASE i = Len(chain) + 1
        BY <1>0, <3>1, <3>2, <4>1, <4>3 DEF TypeOK, HeapInv
      <4>. QED BY <4>1, <4>2, <4>3
    <3>. QED BY <1>0, <3>2, <3>3 DEF TypeOK, HeapInv, Open
  <2>. QED BY <1>1, <2>1, <2>2, <2>3, <2>4 DEF Enqueue
<1>2. ASSUME NEW c \in Consumers, Dequeue(c) PROVE HeapInv'
  <2>1. CASE DeqNull(c) \/ DeqCall(c) \/ DeqWait(c) \/ DeqStop(c)
    BY <1>0, <2>1 DEF HeapInv, Open, DeqNull, DeqCall, DeqWait, DeqStop, Sleep
  <2>2. CASE DeqUnlink(c)
    <3>1. /\ Open /\ ListInv /\ chain # << >> /\ front \in Nodes
          /\ front = chain[1] /\ Len(chain) >= 1
      BY <2>2, FrontNode DEF DeqUnlink, IInv
    <3>2. /\ UNCHANGED <<alloc, phase>>
          /\ node' = [node EXCEPT ![c] = front]
          /\ chain' = Tail(chain)
      BY <2>2 DEF DeqUnlink
    <3>3. /\ Len(chain') = Len(chain) - 1 /\ Len(chain) \in Nat
          /\ \A j \in 1 .. Len(chain') : chain'[j] = chain[j + 1]
      BY <1>0, <3>1, <3>2, HeadTailProperties, LenProperties DEF TypeOK
    <3>4. \A t \in Threads : node[t] # front
      BY <1>0, <3>1, <3>3 DEF HeapInv
    <3>5. front \in alloc
      BY <1>0, <3>1, <3>3 DEF HeapInv
    <3>6. ASSUME NEW i \in 1 .. Len(chain')
          PROVE  chain'[i] \in alloc /\ \A t \in Threads : node'[t] # chain'[i]
      <4>1. /\ i + 1 \in 1 .. Len(chain) /\ 1 \in 1 .. Len(chain) /\ i + 1 # 1
            /\ chain'[i] = chain[i + 1]
        BY <3>1, <3>3, <3>6
      <4>2. chain[i + 1] # front
        BY <3>1, <4>1 DEF ListInv
      <4>3. /\ chain[i + 1] \in alloc /\ chain[i + 1] \in Nodes
            /\ \A t \in Threads : node[t] # chain[i + 1]
        BY <1>0, <3>1, <4>1 DEF TypeOK, HeapInv
      <4>. QED BY <1>0, <3>1, <3>2, <4>1, <4>2, <4>3 DEF TypeOK
    <3>7. node'[c] = front /\ \A t \in Threads : t # c => node'[t] = node[t]
      BY <1>0, <3>2 DEF TypeOK
    <3>8. /\ \A t \in Threads : node'[t] # NULL => node'[t] \in alloc
          /\ \A t, u \in Threads : node'[t] # NULL /\ node'[t] = node'[u] => t = u
      BY <1>0, <3>4, <3>5, <3>7 DEF HeapInv
    <3>. QED BY <3>2, <3>6, <3>8 DEF HeapInv
  <2>3. CASE DeqWake(c)
    <3>1. node[c] \in Nodes
      BY <1>0, <2>3 DEF DeqWake, CallInv
    <3>2. UNCHANGED <<chain, phase>>
      BY <2>3 DEF DeqWake
    <3>. QED BY <1>0, <2>3, <3>1, <3>2 DEF TypeOK, HeapInv, Open, DeqWake
  <2>. QED BY <1>2, <2>1, <2>2, <2>3 DEF Dequeue
<1>3. ASSUME NEW t \in Threads, Acquire(t) \/ SpuriousWake(t) \/ Fault(t)
      PROVE  HeapInv'
  BY <1>0, <1>3 DEF HeapInv, Open, Acquire, SpuriousWake, Fault
<1>4. CASE Destroy
  <2>1. CASE DrainNode
    <3>1. \A t \in Threads : node[t] # NULL => node[t] # next[front]
      BY <2>1, DrainedNodeIsFree DEF DrainNode
    <3>2. /\ UNCHANGED <<node, chain>> /\ alloc' = alloc \ {next[front]}
          /\ chain = << >>
      BY <2>1 DEF DrainNode, IInv, DrainInv
    <3>. QED BY <1>0, <3>1, <3>2, EmptySeq DEF HeapInv
  <2>2. CASE DestroyWakeAll
    BY <1>0, <2>2, EmptySeq DEF HeapInv, DestroyWakeAll
  <2>3. CASE SetStop \/ DestroyEnter \/ FreeQueue \/ DestroyLeave \/ DestroyDelete
    BY <1>0, <2>3 DEF HeapInv, Open, SetStop, DestroyEnter, FreeQueue, DestroyLeave,
                      DestroyDelete
  <2>. QED BY <1>4, <2>1, <2>2, <2>3 DEF Destroy
<1>5. CASE Create \/ FaultOwner \/ UNCHANGED vars
  BY <1>0, <1>5 DEF HeapInv, Open, Create, FaultOwner, vars
<1>. QED BY <1>1, <1>2, <1>3, <1>4, <1>5 DEF Next
-----------------------------------------------------------------------------
LEMMA DrainStep == IInv /\ [Next]_vars => DrainInv'
<1>. SUFFICES ASSUME IInv, [Next]_vars, phase' = "draining"
              PROVE  chain' = << >> /\ (front' # NULL => HasDrainPath')
  BY DEF DrainInv
<1>. USE ThreadsDisjoint, DataAssumption DEF statics, links, heap, threads, NodeOrNull
<1>0. TypeOK /\ PhaseInv /\ CallInv /\ HeapInv /\ DrainInv
  BY DEF IInv
\* Steps that leave front, next, alloc and node alone keep every path.
<1>1. ASSUME phase = "draining", UNCHANGED <<front, next, alloc, node, chain>>
      PROVE  chain' = << >> /\ (front' # NULL => HasDrainPath')
  <2>1. ASSUME NEW k, NEW s, DrainPath(k, s) PROVE DrainPath(k, s)'
    BY <1>1, <2>1 DEF DrainPath
  <2>2. HasDrainPath => HasDrainPath'
    BY <2>1 DEF HasDrainPath
  <2>. QED BY <1>0, <1>1, <2>2 DEF DrainInv
\* Freeing a node some call holds keeps every path.
<1>2. ASSUME phase = "draining", NEW t \in Threads, node[t] \in Nodes,
             alloc' = alloc \ {node[t]}, node' = [node EXCEPT ![t] = NULL],
             UNCHANGED <<front, next, chain>>
      PROVE  chain' = << >> /\ (front' # NULL => HasDrainPath')
  <2>1. ASSUME NEW k, NEW s, DrainPath(k, s)
        PROVE  DrainPath(k, s)'
    <3>1. \A i \in 2 .. k : s[i] \in alloc /\ s[i] # node[t] /\ s[i] \in Nodes
      BY <2>1 DEF DrainPath
    <3>2. \A i \in 2 .. k : s[i] \in alloc' /\ \A u \in Threads : node'[u] # s[i]
      BY <1>0, <1>2, <2>1, <3>1 DEF TypeOK, DrainPath
    <3>. QED BY <1>2, <2>1, <3>2 DEF DrainPath
  <2>2. HasDrainPath => HasDrainPath'
    BY <2>1 DEF HasDrainPath
  <2>. QED BY <1>0, <1>2, <2>2 DEF DrainInv
<1>3. ASSUME NEW p \in Producers, Enqueue(p)
      PROVE  chain' = << >> /\ (front' # NULL => HasDrainPath')
  <2>0. phase = "draining" /\ stop
    BY <1>0, <1>3 DEF PhaseInv, TypeOK, Enqueue, EnqCall, EnqWait, EnqAbort, EnqLink,
                      EnqWake, Sleep
  <2>1. CASE EnqCall(p)
    <3>1. PICK n \in Nodes \ alloc :
             /\ alloc' = alloc \cup {n}
             /\ node' = [node EXCEPT ![p] = n]
             /\ next' = [next EXCEPT ![n] = NULL]
      BY <2>1 DEF EnqCall
    <3>2. UNCHANGED <<front, chain>> /\ chain = << >>
      BY <1>0, <2>0, <2>1 DEF EnqCall, DrainInv
    <3>3. SUFFICES ASSUME front # NULL PROVE HasDrainPath'
      BY <3>2
    <3>4. PICK k, s : DrainPath(k, s)
      BY <1>0, <2>0, <3>3 DEF DrainInv, HasDrainPath
    \* malloc hands out the freed node the loop stands on: its next is NULL now,
    \* and the loop ends there.
    <3>5. CASE n = front
      <4>. DEFINE r == [i \in 1 .. 1 |-> front]
      <4>1. r \in [1 .. 1 -> Nodes] /\ r[1] = front
        BY <3>1, <3>5
      <4>2. next'[front] = NULL
        BY <1>0, <3>1, <3>5 DEF TypeOK
      <4>3. DrainPath(1, r)'
        BY <3>2, <4>1, <4>2 DEF DrainPath
      <4>. QED BY <4>1, <4>3 DEF HasDrainPath
    <3>6. CASE n # front
      <4>1. \A i \in 1 .. k : s[i] # n
        BY <3>1, <3>4, <3>6 DEF DrainPath
      <4>2. \A i \in 1 .. k : next'[s[i]] = next[s[i]]
        BY <1>0, <3>1, <3>4, <4>1 DEF TypeOK, DrainPath
      <4>3. \A i \in 2 .. k : s[i] \in alloc' /\ \A t \in Threads : node'[t] # s[i]
        BY <1>0, <3>1, <3>4, <4>1 DEF TypeOK, DrainPath
      <4>4. DrainPath(k, s)'
        BY <3>2, <3>4, <4>2, <4>3 DEF DrainPath
      <4>. QED BY <4>4 DEF HasDrainPath
    <3>. QED BY <3>5, <3>6
  <2>2. CASE EnqWait(p) \/ EnqLink(p)
    BY <2>0, <2>2 DEF EnqWait, EnqLink, MayLink
  <2>3. CASE EnqAbort(p)
    BY <1>0, <1>2, <2>0, <2>3 DEF EnqAbort, CallInv
  <2>4. CASE EnqWake(p)
    BY <1>1, <2>0, <2>4 DEF EnqWake
  <2>. QED BY <1>3, <2>1, <2>2, <2>3, <2>4 DEF Enqueue
<1>4. ASSUME NEW c \in Consumers, Dequeue(c)
      PROVE  chain' = << >> /\ (front' # NULL => HasDrainPath')
  <2>0. phase = "draining" /\ stop
    BY <1>0, <1>4 DEF PhaseInv, TypeOK, Dequeue, DeqNull, DeqCall, DeqWait, DeqStop,
                      DeqUnlink, DeqWake, Sleep
  <2>1. CASE DeqNull(c) \/ DeqCall(c) \/ DeqStop(c)
    BY <1>1, <2>0, <2>1 DEF DeqNull, DeqCall, DeqStop
  <2>2. CASE DeqWait(c) \/ DeqUnlink(c)
    BY <2>0, <2>2 DEF DeqWait, DeqUnlink
  <2>3. CASE DeqWake(c)
    BY <1>0, <1>2, <2>0, <2>3 DEF DeqWake, CallInv
  <2>. QED BY <1>4, <2>1, <2>2, <2>3 DEF Dequeue
<1>5. ASSUME NEW t \in Threads, Acquire(t) \/ SpuriousWake(t) \/ Fault(t)
      PROVE  chain' = << >> /\ (front' # NULL => HasDrainPath')
  BY <1>1, <1>5 DEF Acquire, SpuriousWake, Fault
<1>6. CASE DestroyWakeAll
  <2>1. Open /\ ListInv /\ HeapInv /\ chain \in Seq(Nodes)
    BY <1>0, <1>6 DEF DestroyWakeAll, Open, IInv, TypeOK
  <2>2. chain' = << >> /\ UNCHANGED <<front, next, alloc, node>>
    BY <1>6 DEF DestroyWakeAll
  <2>3. SUFFICES ASSUME front # NULL PROVE HasDrainPath'
    BY <2>2
  <2>. DEFINE k == Len(chain)
  <2>4. k \in Nat \ {0} /\ chain \in [1 .. k -> Nodes]
    BY <2>1, <2>3, EmptySeq, LenProperties DEF ListInv
  <2>5. DrainPath(k, chain)
    BY <2>1, <2>3, <2>4 DEF ListInv, HeapInv, DrainPath
  <2>6. ASSUME NEW n, NEW r, DrainPath(n, r) PROVE DrainPath(n, r)'
    BY <2>2, <2>6 DEF DrainPath
  <2>. QED BY <2>5, <2>6 DEF HasDrainPath
<1>7. CASE DrainNode
  <2>1. /\ phase = "draining" /\ front # NULL
        /\ UNCHANGED <<chain, next, node>>
        /\ front' = next[front] /\ alloc' = alloc \ {next[front]}
    BY <1>7 DEF DrainNode
  <2>2. SUFFICES ASSUME next[front] # NULL PROVE HasDrainPath'
    BY <1>0, <2>1 DEF DrainInv
  <2>3. PICK k, s : DrainPath(k, s)
    BY <1>0, <2>1 DEF DrainInv, HasDrainPath
  <2>4. k >= 2 /\ next[front] = s[2]
    BY <2>2, <2>3 DEF DrainPath
  <2>. DEFINE r == [i \in 1 .. k - 1 |-> s[i + 1]]
  <2>5. k - 1 \in Nat \ {0} /\ r \in [1 .. k - 1 -> Nodes] /\ r[1] = front'
    BY <2>1, <2>3, <2>4 DEF DrainPath
  <2>6. \A i \in 1 .. k - 1 : next'[r[i]] = IF i = k - 1 THEN NULL ELSE r[i + 1]
    BY <2>1, <2>3, <2>4 DEF DrainPath
  <2>7. \A i, j \in 1 .. k - 1 : r[i] = r[j] => i = j
    BY <2>3, <2>4 DEF DrainPath
  <2>8. \A i \in 2 .. k - 1 : r[i] \in alloc' /\ \A t \in Threads : node'[t] # r[i]
    BY <2>1, <2>3, <2>4 DEF DrainPath
  <2>9. DrainPath(k - 1, r)'
    BY <2>5, <2>6, <2>7, <2>8 DEF DrainPath
  <2>. QED BY <2>5, <2>9 DEF HasDrainPath
<1>8. CASE SetStop \/ DestroyEnter \/ FreeQueue \/ DestroyLeave \/ DestroyDelete
           \/ Create \/ FaultOwner
  BY <1>8 DEF SetStop, DestroyEnter, FreeQueue, DestroyLeave, DestroyDelete, Create,
              FaultOwner
<1>9. CASE UNCHANGED vars
  BY <1>1, <1>9 DEF vars
<1>. QED BY <1>3, <1>4, <1>5, <1>6, <1>7, <1>8, <1>9 DEF Next, Destroy
-----------------------------------------------------------------------------
LEMMA ListStep == IInv /\ [Next]_vars => ListInv'
<1>. SUFFICES ASSUME IInv, [Next]_vars, Open' PROVE ListInv'
  BY DEF ListInv
<1>. USE ThreadsDisjoint, DataAssumption DEF statics, links, heap, threads, NodeOrNull
<1>0. TypeOK /\ PhaseInv /\ CallInv /\ HeapInv /\ ListInv
  BY DEF IInv
\* Steps that do not touch the list.
<1>1. ASSUME Open, UNCHANGED <<front, rear, size, chain, next>> PROVE ListInv'
  BY <1>0, <1>1 DEF ListInv
<1>2. ASSUME NEW p \in Producers, Enqueue(p) PROVE ListInv'
  <2>1. CASE EnqCall(p)
    <3>1. PICK n \in Nodes \ alloc : next' = [next EXCEPT ![n] = NULL]
      BY <2>1 DEF EnqCall
    <3>2. Open /\ UNCHANGED <<front, rear, size, chain>>
      BY <2>1 DEF EnqCall, Open
    <3>3. \A i \in 1 .. Len(chain) : next'[chain[i]] = next[chain[i]]
      BY <1>0, <3>1, <3>2 DEF TypeOK, HeapInv
    <3>. QED BY <1>0, <3>2, <3>3 DEF ListInv
  <2>2. CASE EnqLink(p)
    <3>1. /\ Open /\ size = Len(chain) /\ ~stop
      BY <2>2, FrontNode DEF EnqLink, MayLink
    <3>2. node[p] \in Nodes /\ next[node[p]] = NULL
      BY <1>0, <2>2 DEF EnqLink, CallInv
    <3>. DEFINE n == node[p]
                k == Len(chain)
    <3>3. /\ chain \in Seq(Nodes) /\ k \in Nat
          /\ k = 0 <=> chain = << >>
          /\ \A i \in 1 .. k : chain[i] \in Nodes
      BY <1>0, EmptySeq, LenProperties, ElementOfSeq DEF TypeOK
    <3>4. /\ chain' = Append(chain, n) /\ size' = size + 1
          /\ rear' = n /\ Hook(n)
      BY <2>2 DEF EnqLink, Hook
    <3>5. /\ Len(chain') = k + 1 /\ chain' # << >>
          /\ \A i \in 1 .. k : chain'[i] = chain[i]
          /\ chain'[k + 1] = n
      <4>1. chain' \in Seq(Nodes)
        BY <3>2, <3>3, <3>4, AppendProperties
      <4>. QED BY <3>2, <3>3, <3>4, <4>1, AppendProperties, EmptySeq
    <3>6. \A i \in 1 .. k : chain[i] # n
      BY <1>0, <3>1, <3>2 DEF HeapInv
    <3>7. /\ front = IF k = 0 THEN NULL ELSE chain[1]
          /\ rear = IF k = 0 THEN NULL ELSE chain[k]
          /\ \A i \in 1 .. k : next[chain[i]] = IF i = k THEN NULL ELSE chain[i + 1]
          /\ \A i, j \in 1 .. k : chain[i] = chain[j] => i = j
      BY <1>0, <3>1, <3>3 DEF ListInv
    <3>. HIDE DEF n, k
    <3>8. front' = chain'[1]
      <4>1. CASE k = 0
        BY <3>4, <3>5, <3>7, <4>1 DEF Hook
      <4>2. CASE k >= 1
        BY <3>3, <3>4, <3>5, <3>7, <4>2 DEF Hook
      <4>. QED BY <3>3, <4>1, <4>2
    <3>9. \A i \in 1 .. k + 1 :
             next'[chain'[i]] = IF i = k + 1 THEN NULL ELSE chain'[i + 1]
      <4>1. CASE k = 0
        BY <3>2, <3>4, <3>5, <3>7, <4>1 DEF Hook, n
      <4>2. CASE k >= 1
        <5>1. rear = chain[k] /\ rear \in Nodes /\ next' = [next EXCEPT ![rear] = n]
          BY <3>3, <3>4, <3>7, <4>2 DEF Hook
        <5>2. next'[n] = NULL
          BY <1>0, <3>2, <3>3, <3>6, <4>2, <5>1 DEF TypeOK, n
        <5>3. next'[chain[k]] = n
          BY <1>0, <5>1 DEF TypeOK
        <5>4. \A i \in 1 .. k : i # k => next'[chain[i]] = chain[i + 1]
          BY <1>0, <3>3, <3>7, <4>2, <5>1 DEF TypeOK
        <5>. QED BY <3>3, <3>5, <4>2, <5>2, <5>3, <5>4
      <4>. QED BY <3>3, <4>1, <4>2
    <3>10. \A i, j \in 1 .. k + 1 : chain'[i] = chain'[j] => i = j
      BY <3>3, <3>5, <3>6, <3>7
    <3>11. size' = k + 1
      BY <3>1, <3>4 DEF k
    <3>. QED BY <3>4, <3>5, <3>8, <3>9, <3>10, <3>11 DEF ListInv
  <2>3. CASE EnqWait(p) \/ EnqAbort(p) \/ EnqWake(p)
    BY <1>1, <2>3 DEF EnqWait, Sleep, EnqAbort, EnqWake, Open
  <2>. QED BY <1>2, <2>1, <2>2, <2>3 DEF Enqueue
<1>3. ASSUME NEW c \in Consumers, Dequeue(c) PROVE ListInv'
  <2>1. CASE DeqUnlink(c)
    <3>1. Open /\ size = Len(chain) /\ chain # << >> /\ Len(chain) >= 1
      BY <2>1, FrontNode DEF DeqUnlink
    <3>. DEFINE k == Len(chain)
    <3>2. chain \in Seq(Nodes) /\ k \in Nat /\ k >= 1
      BY <1>0, <3>1, LenProperties DEF TypeOK
    <3>3. /\ chain' = Tail(chain) /\ size' = size - 1 /\ UNCHANGED next
          /\ front' = next[front]
          /\ rear' = IF next[front] = NULL THEN NULL ELSE rear
      BY <2>1 DEF DeqUnlink, Unhook
    <3>4. /\ Len(chain') = k - 1
          /\ chain' = << >> <=> k = 1
          /\ \A i \in 1 .. k - 1 : chain'[i] = chain[i + 1]
          /\ \A i \in 1 .. k : chain[i] \in Nodes
      <4>1. chain' \in Seq(Nodes) /\ Len(chain') = k - 1
        BY <3>1, <3>2, <3>3, HeadTailProperties
      <4>2. \A i \in 1 .. k - 1 : chain'[i] = chain[i + 1]
        BY <3>1, <3>2, <3>3, HeadTailProperties
      <4>3. chain' = << >> <=> k = 1
        BY <3>2, <4>1, EmptySeq
      <4>4. \A i \in 1 .. k : chain[i] \in Nodes
        BY <3>2, ElementOfSeq
      <4>. QED BY <4>1, <4>2, <4>3, <4>4
    <3>5. /\ front = chain[1] /\ rear = chain[k]
          /\ \A i \in 1 .. k : next[chain[i]] = IF i = k THEN NULL ELSE chain[i + 1]
          /\ \A i, j \in 1 .. k : chain[i] = chain[j] => i = j
      BY <1>0, <3>1 DEF ListInv
    <3>6. size' = k - 1
      BY <3>1, <3>3
    <3>. HIDE DEF k
    <3>7. next[front] = IF k = 1 THEN NULL ELSE chain'[1]
      BY <3>2, <3>4, <3>5
    <3>8. next[front] = NULL <=> k = 1
      BY <3>2, <3>4, <3>7
    <3>9. rear' = IF k = 1 THEN NULL ELSE chain'[k - 1]
      BY <3>2, <3>3, <3>4, <3>5, <3>8
    <3>10. \A i \in 1 .. k - 1 :
              next'[chain'[i]] = IF i = k - 1 THEN NULL ELSE chain'[i + 1]
      BY <3>2, <3>3, <3>4, <3>5
    <3>11. \A i, j \in 1 .. k - 1 : chain'[i] = chain'[j] => i = j
      <4>1. \A i \in 1 .. k - 1 : i \in Nat /\ i + 1 \in 1 .. k /\ chain'[i] = chain[i + 1]
        BY <3>2, <3>4
      <4>2. ASSUME NEW i \in 1 .. k - 1, NEW j \in 1 .. k - 1, chain'[i] = chain'[j]
            PROVE  i = j
        <5>1. i + 1 = j + 1
          BY <3>5, <4>1, <4>2
        <5>. QED BY <4>1, <5>1
      <4>. QED BY <4>2
    <3>12. Len(chain') = k - 1 /\ (chain' = << >> <=> k = 1)
      BY <3>4
    <3>13. front' = IF chain' = << >> THEN NULL ELSE chain'[1]
      BY <3>3, <3>7, <3>12
    <3>14. rear' = IF chain' = << >> THEN NULL ELSE chain'[Len(chain')]
      BY <3>9, <3>12
    <3>. QED BY <3>6, <3>10, <3>11, <3>12, <3>13, <3>14 DEF ListInv
  <2>2. CASE DeqNull(c) \/ DeqCall(c) \/ DeqWait(c) \/ DeqStop(c) \/ DeqWake(c)
    BY <1>1, <2>2 DEF DeqNull, DeqCall, DeqWait, Sleep, DeqStop, DeqWake, Open
  <2>. QED BY <1>3, <2>1, <2>2 DEF Dequeue
<1>4. ASSUME NEW t \in Threads, Acquire(t) \/ SpuriousWake(t) \/ Fault(t)
      PROVE  ListInv'
  BY <1>1, <1>4 DEF Acquire, SpuriousWake, Fault, Open
<1>5. CASE Create \/ SetStop \/ DestroyEnter
  BY <1>1, <1>5 DEF Create, SetStop, DestroyEnter, Open
<1>6. CASE DestroyWakeAll \/ DrainNode \/ FreeQueue \/ DestroyLeave \/ DestroyDelete
           \/ FaultOwner
  BY <1>1, <1>6 DEF DestroyWakeAll, DrainNode, FreeQueue, DestroyLeave, DestroyDelete,
                    FaultOwner, Open
<1>7. CASE UNCHANGED vars
  BY <1>1, <1>7 DEF vars, Open
<1>. QED BY <1>2, <1>3, <1>4, <1>5, <1>6, <1>7 DEF Next, Destroy
-----------------------------------------------------------------------------
THEOREM Inductive == Spec => []IInv
<1>1. Init => IInv
  <2>. SUFFICES ASSUME Init PROVE IInv
    OBVIOUS
  <2>1. TypeOK
    BY TypeInit
  <2>2. PhaseInv
    BY DEF Init, PhaseInv
  <2>3. CallInv
    BY ThreadsDisjoint DEF Init, CallInv
  <2>4. HeapInv
    BY EmptySeq DEF Init, HeapInv
  <2>5. DrainInv
    BY DEF Init, DrainInv
  <2>6. ListInv
    BY EmptySeq DEF Init, ListInv
  <2>. QED BY <2>1, <2>2, <2>3, <2>4, <2>5, <2>6 DEF IInv
<1>2. IInv /\ [Next]_vars => IInv'
  BY TypeStep, PhaseStep, CallStep, HeapStep, DrainStep, ListStep DEF IInv
<1>. QED BY <1>1, <1>2, PTL DEF Spec

\* The types of the variables, in every reachable state.
THEOREM TypeCorrect == Spec => []TypeOK
<1>1. IInv => TypeOK
  BY DEF IInv
<1>. QED BY <1>1, Inductive, PTL

\* The queue's pointers, counter and links describe one list.
THEOREM ListCorrect == Spec => []ListInv
<1>1. IInv => ListInv
  BY DEF IInv
<1>. QED BY <1>1, Inductive, PTL
-----------------------------------------------------------------------------
(* The limit.                                                              *)

LEMMA BoundedStep == IInv /\ Bounded /\ [Next]_vars => Bounded'
<1>. SUFFICES ASSUME IInv, Bounded, [Next]_vars, Open' PROVE size' <= Limit
  BY DEF Bounded
<1>. USE ThreadsDisjoint, LimitType DEF statics, links, heap, threads
<1>0. TypeOK /\ PhaseInv
  BY DEF IInv
<1>1. Open
  BY <1>0 DEF Open, TypeOK, Next, vars, Create, FaultOwner, Destroy, SetStop,
     DestroyEnter, DestroyWakeAll, DrainNode, FreeQueue, DestroyLeave, DestroyDelete,
     Enqueue, EnqCall, EnqWait, EnqAbort, EnqLink, EnqWake, Dequeue, DeqNull, DeqCall,
     DeqWait, DeqStop, DeqUnlink, DeqWake, Sleep, Acquire, SpuriousWake, Fault
<1>2. ASSUME NEW p \in Producers, EnqLink(p) PROVE size' <= Limit
  <2>1. qptr = "live" /\ glimitSize = Limit
    BY <1>0, <1>2 DEF PhaseInv, TypeOK, EnqLink, MayLink
  <2>. QED BY <1>0, <1>2, <2>1 DEF EnqLink, MayLink, TypeOK
<1>3. ASSUME NEW c \in Consumers, DeqUnlink(c) PROVE size' <= Limit
  BY <1>0, <1>1, <1>3 DEF Bounded, DeqUnlink, TypeOK
<1>4. ASSUME UNCHANGED size PROVE size' <= Limit
  BY <1>1, <1>4 DEF Bounded
<1>. QED BY <1>2, <1>3, <1>4 DEF Next, vars, Create, FaultOwner, Destroy, SetStop,
     DestroyEnter, DestroyWakeAll, DrainNode, FreeQueue, DestroyLeave, DestroyDelete,
     Enqueue, EnqCall, EnqWait, EnqAbort, EnqWake, Dequeue, DeqNull, DeqCall,
     DeqWait, DeqStop, DeqWake, Sleep, Acquire, SpuriousWake, Fault

\* The queue never holds more than createQueue's limit, whatever the number of
\* producers woken for the same free slot.
THEOREM BoundedCorrect == Spec => []Bounded
<1>1. Init => Bounded
  BY LimitType DEF Init, Bounded
<1>. QED BY <1>1, BoundedStep, Inductive, PTL DEF Spec
-----------------------------------------------------------------------------
(* Shutdown leaves nobody asleep.                                          *)

LEMMA NoSleeperStep ==
    IInv /\ NoSleeperLeftBehind /\ [Next]_vars => NoSleeperLeftBehind'
<1>. DEFINE Past == phase \in {"draining", "unlock", "delete", "done"}
<1>. SUFFICES ASSUME IInv, NoSleeperLeftBehind, [Next]_vars, notFullOk', Past'
              PROVE  \A t \in Threads : pc'[t] # "asleep"
  BY DEF NoSleeperLeftBehind, NotEmptySleepers, NotFullSleepers, Threads
<1>. USE ThreadsDisjoint DEF statics, links, heap, threads
<1>0. TypeOK /\ PhaseInv
  BY DEF IInv
<1>1. notFullOk /\ Past => \A t \in Threads : pc[t] # "asleep"
  BY DEF NoSleeperLeftBehind, NotEmptySleepers, NotFullSleepers, Threads
\* Once stop is set nobody goes to sleep any more.
<1>2. ASSUME NEW p \in Producers, Enqueue(p)
      PROVE  \A t \in Threads : pc'[t] # "asleep"
  <2>1. UNCHANGED <<phase, notFullOk>>
    BY <1>2 DEF Enqueue, EnqCall, EnqWait, EnqAbort, EnqLink, EnqWake, Sleep
  <2>2. stop
    BY <1>0, <2>1 DEF PhaseInv, TypeOK
  <2>3. CASE EnqCall(p) \/ EnqAbort(p) \/ EnqWake(p)
    BY <1>0, <1>1, <2>1, <2>3 DEF TypeOK, EnqCall, EnqAbort, EnqWake, WakeOne,
                                   NotEmptySleepers
  <2>4. CASE EnqWait(p) \/ EnqLink(p)
    BY <2>2, <2>4 DEF EnqWait, EnqLink, MayLink
  <2>. QED BY <1>2, <2>3, <2>4 DEF Enqueue
<1>3. ASSUME NEW c \in Consumers, Dequeue(c)
      PROVE  \A t \in Threads : pc'[t] # "asleep"
  <2>1. UNCHANGED <<phase, notFullOk>>
    BY <1>3 DEF Dequeue, DeqNull, DeqCall, DeqWait, DeqStop, DeqUnlink, DeqWake, Sleep
  <2>2. stop
    BY <1>0, <2>1 DEF PhaseInv, TypeOK
  <2>3. CASE DeqNull(c) \/ DeqCall(c) \/ DeqStop(c)
    BY <1>0, <1>1, <2>1, <2>3 DEF TypeOK, DeqNull, DeqCall, DeqStop
  <2>4. CASE DeqWait(c) \/ DeqUnlink(c)
    BY <2>2, <2>4 DEF DeqWait, DeqUnlink
  <2>5. CASE DeqWake(c)
    BY <1>0, <1>1, <2>1, <2>5 DEF TypeOK, DeqWake, WakeOne, WakeLost, NotFullSleepers
  <2>. QED BY <1>3, <2>3, <2>4, <2>5 DEF Dequeue
<1>4. ASSUME NEW t \in Threads, Acquire(t) \/ SpuriousWake(t) \/ Fault(t)
      PROVE  \A u \in Threads : pc'[u] # "asleep"
  BY <1>0, <1>1, <1>4 DEF TypeOK, Acquire, SpuriousWake, Fault
<1>5. CASE DestroyWakeAll
  <2>1. pc' = [t \in Threads |->
                 IF t \in NotEmptySleepers \cup NotFullSleepers THEN "woken" ELSE pc[t]]
    BY <1>5 DEF DestroyWakeAll, WakeAll
  <2>. QED BY <2>1 DEF NotEmptySleepers, NotFullSleepers, Threads
<1>6. CASE DrainNode \/ FreeQueue \/ DestroyLeave \/ DestroyDelete
  BY <1>1, <1>6 DEF DrainNode, FreeQueue, DestroyLeave, DestroyDelete
<1>7. CASE Create \/ SetStop \/ DestroyEnter \/ FaultOwner
  BY <1>7 DEF Create, SetStop, DestroyEnter, FaultOwner
<1>8. CASE UNCHANGED vars
  BY <1>1, <1>8 DEF vars
<1>. QED BY <1>2, <1>3, <1>4, <1>5, <1>6, <1>7, <1>8 DEF Next, Destroy

\* Once destroyQueue has woken all sleepers nobody sleeps on the queue again:
\* no thread slips between its test of stop and its sleep.
THEOREM NoSleeperCorrect == Spec => []NoSleeperLeftBehind
<1>1. Init => NoSleeperLeftBehind
  BY DEF Init, NoSleeperLeftBehind
<1>. QED BY <1>1, NoSleeperStep, Inductive, PTL DEF Spec
-----------------------------------------------------------------------------
(* Every node has one owner.                                               *)

\* While the list belongs to the calls, no allocated node is lost.
NoLeak ==
    Open => \A n \in alloc : \/ \E t \in Threads : node[t] = n
                             \/ \E i \in 1 .. Len(chain) : chain[i] = n

LEMMA NoLeakStep == IInv /\ NoLeak /\ [Next]_vars => NoLeak'
<1>. SUFFICES ASSUME IInv, NoLeak, [Next]_vars, Open', NEW n \in alloc'
              PROVE  \/ \E t \in Threads : node'[t] = n
                     \/ \E i \in 1 .. Len(chain') : chain'[i] = n
  BY DEF NoLeak
<1>. USE ThreadsDisjoint, DataAssumption DEF statics, links, heap, threads, NodeOrNull
<1>0. TypeOK /\ PhaseInv /\ CallInv /\ HeapInv
  BY DEF IInv
<1>1. ASSUME Open, UNCHANGED <<alloc, node, chain>>
      PROVE  \/ \E t \in Threads : node'[t] = n
             \/ \E i \in 1 .. Len(chain') : chain'[i] = n
  BY <1>1 DEF NoLeak
<1>2. ASSUME Open, NEW t \in Threads, alloc' = alloc \ {node[t]},
             node' = [node EXCEPT ![t] = NULL], UNCHANGED chain
      PROVE  \/ \E u \in Threads : node'[u] = n
             \/ \E i \in 1 .. Len(chain') : chain'[i] = n
  BY <1>0, <1>2 DEF NoLeak, TypeOK
<1>3. ASSUME NEW p \in Producers, Enqueue(p)
      PROVE  \/ \E t \in Threads : node'[t] = n
             \/ \E i \in 1 .. Len(chain') : chain'[i] = n
  <2>0. Open
    BY <1>3 DEF Open, Enqueue, EnqCall, EnqWait, EnqAbort, EnqLink, EnqWake, Sleep
  <2>1. CASE EnqCall(p)
    <3>1. PICK m \in Nodes \ alloc :
             node' = [node EXCEPT ![p] = m] /\ alloc' = alloc \cup {m}
      BY <2>1 DEF EnqCall
    <3>2. UNCHANGED chain /\ node[p] = NULL
      BY <1>0, <2>1 DEF EnqCall, CallInv
    <3>3. node'[p] = m /\ \A t \in Threads : node[t] # NULL => node'[t] = node[t]
      BY <1>0, <3>1, <3>2 DEF TypeOK
    <3>. QED BY <1>0, <2>0, <3>1, <3>2, <3>3 DEF NoLeak, TypeOK
  <2>2. CASE EnqLink(p)
    <3>1. /\ chain \in Seq(Nodes) /\ node[p] \in Nodes
          /\ alloc' = alloc /\ node' = [node EXCEPT ![p] = NULL]
          /\ chain' = Append(chain, node[p])
      BY <1>0, <2>2 DEF EnqLink, CallInv, TypeOK
    <3>. DEFINE k == Len(chain)
    <3>2. /\ k \in Nat /\ Len(chain') = k + 1 /\ chain'[k + 1] = node[p]
          /\ \A i \in 1 .. k : chain'[i] = chain[i]
      BY <3>1, AppendProperties, LenProperties
    <3>3. \/ \E t \in Threads : node[t] = n
          \/ \E i \in 1 .. k : chain[i] = n
      BY <2>0, <3>1 DEF NoLeak
    <3>. HIDE DEF k
    <3>4. CASE \E i \in 1 .. k : chain[i] = n
      BY <3>2, <3>4
    <3>5. CASE n = node[p]
      BY <3>2, <3>5
    <3>6. CASE \E t \in Threads \ {p} : node[t] = n
      BY <1>0, <3>1, <3>6 DEF TypeOK
    <3>. QED BY <3>3, <3>4, <3>5, <3>6
  <2>3. CASE EnqAbort(p)
    BY <1>2, <2>0, <2>3 DEF EnqAbort
  <2>4. CASE EnqWait(p) \/ EnqWake(p)
    BY <1>1, <2>0, <2>4 DEF EnqWait, Sleep, EnqWake
  <2>. QED BY <1>3, <2>1, <2>2, <2>3, <2>4 DEF Enqueue
<1>4. ASSUME NEW c \in Consumers, Dequeue(c)
      PROVE  \/ \E t \in Threads : node'[t] = n
             \/ \E i \in 1 .. Len(chain') : chain'[i] = n
  <2>0. Open
    BY <1>4 DEF Open, Dequeue, DeqNull, DeqCall, DeqWait, DeqStop, DeqUnlink, DeqWake,
                Sleep
  <2>1. CASE DeqUnlink(c)
    <3>1. /\ chain \in Seq(Nodes) /\ chain # << >> /\ node[c] = NULL
          /\ alloc' = alloc /\ node' = [node EXCEPT ![c] = front]
          /\ chain' = Tail(chain) /\ front = chain[1]
      BY <1>0, <2>1, FrontNode DEF DeqUnlink, CallInv, TypeOK
    <3>. DEFINE k == Len(chain)
    <3>2. /\ k \in Nat /\ Len(chain') = k - 1
          /\ \A i \in 1 .. k - 1 : chain'[i] = chain[i + 1]
      BY <3>1, HeadTailProperties, LenProperties
    <3>3. \/ \E t \in Threads : node[t] = n
          \/ \E i \in 1 .. k : chain[i] = n
      BY <2>0, <3>1 DEF NoLeak
    <3>. HIDE DEF k
    <3>4. CASE \E t \in Threads : node[t] = n
      <4>1. n # NULL
        BY <1>0, <3>1 DEF TypeOK
      <4>. QED BY <1>0, <3>1, <3>4, <4>1 DEF TypeOK
    <3>5. CASE n = chain[1]
      BY <1>0, <3>1, <3>5 DEF TypeOK
    <3>6. ASSUME NEW i \in 1 .. k, chain[i] = n, i # 1
          PROVE  \E j \in 1 .. Len(chain') : chain'[j] = n
      <4>1. i - 1 \in 1 .. k - 1 /\ chain'[i - 1] = n
        BY <3>2, <3>6
      <4>. QED BY <3>2, <4>1
    <3>. QED BY <3>3, <3>4, <3>5, <3>6
  <2>2. CASE DeqWake(c)
    BY <1>2, <2>0, <2>2 DEF DeqWake
  <2>3. CASE DeqNull(c) \/ DeqCall(c) \/ DeqWait(c) \/ DeqStop(c)
    BY <1>1, <2>0, <2>3 DEF DeqNull, DeqCall, DeqWait, Sleep, DeqStop
  <2>. QED BY <1>4, <2>1, <2>2, <2>3 DEF Dequeue
<1>5. ASSUME NEW t \in Threads, Acquire(t) \/ SpuriousWake(t) \/ Fault(t)
      PROVE  \/ \E u \in Threads : node'[u] = n
             \/ \E i \in 1 .. Len(chain') : chain'[i] = n
  BY <1>1, <1>5 DEF Acquire, SpuriousWake, Fault, Open
<1>6. CASE Create \/ SetStop \/ DestroyEnter
  BY <1>1, <1>6 DEF Create, SetStop, DestroyEnter, Open
<1>7. CASE DestroyWakeAll \/ DrainNode \/ FreeQueue \/ DestroyLeave \/ DestroyDelete
           \/ FaultOwner
  BY <1>7 DEF DestroyWakeAll, DrainNode, FreeQueue, DestroyLeave, DestroyDelete,
              FaultOwner, Open
<1>8. CASE UNCHANGED vars
  BY <1>1, <1>8 DEF vars, Open
<1>. QED BY <1>3, <1>4, <1>5, <1>6, <1>7, <1>8 DEF Next, Destroy

LEMMA OneOwnerFollows == IInv /\ NoLeak => OneOwner
<1>. SUFFICES ASSUME IInv, NoLeak PROVE OneOwner
  OBVIOUS
<1>0. TypeOK /\ HeapInv /\ chain \in Seq(Nodes)
  BY DEF IInv, TypeOK
<1>1. \A t, u \in Threads : node[t] # NULL /\ node[t] = node[u] => t = u
  BY <1>0 DEF HeapInv
<1>2. Held \subseteq alloc
  BY <1>0 DEF HeapInv, Held
<1>3. ASSUME Open
      PROVE  alloc = Held \cup Range(chain) /\ Held \cap Range(chain) = {}
  <2>1. Range(chain) = {chain[i] : i \in 1 .. Len(chain)}
    BY <1>0, LenProperties DEF Range
  <2>2. NULL \notin alloc
    BY <1>0, DataAssumption DEF TypeOK
  <2>3. \A n \in alloc : n \in Held \/ n \in Range(chain)
    BY <1>3, <2>1, <2>2 DEF NoLeak, Held
  <2>4. \A n \in Range(chain) : n \in alloc /\ n \notin Held
    BY <1>0, <1>3, <2>1 DEF HeapInv, Held
  <2>. QED BY <1>2, <2>3, <2>4
<1>4. ASSUME phase = "draining", front # NULL
      PROVE  next[front] \in (alloc \ Held) \cup {NULL}
  BY <1>4, DrainedNodeIsFree DEF Held
<1>. QED BY <1>1, <1>2, <1>3, <1>4 DEF OneOwner

\* No node is freed twice, leaked or freed in another thread's hands while the
\* queue is open, and destroyQueue's loop never frees a node some call holds.
THEOREM OneOwnerCorrect == Spec => []OneOwner
<1>1. Init => NoLeak
  BY DEF Init, NoLeak
<1>2. Spec => []NoLeak
  BY <1>1, NoLeakStep, Inductive, PTL DEF Spec
<1>. QED BY <1>2, OneOwnerFollows, Inductive, PTL
-----------------------------------------------------------------------------
(* No wake-up is lost, for any number of threads.  NoLostWakeup is inductive *)
(* relative to IInv.  Its argument is a balance: an enqueue adds an item and *)
(* a pending wake-up, a wake-up turns into a consumer that will look again,  *)
(* and a consumer that stops looking either takes an item with it or has     *)
(* seen that there is none.                                                  *)

\* How the size of a subset of a finite set changes with one element.
LEMMA CardGrow ==
  ASSUME NEW S, IsFiniteSet(S), NEW A \in SUBSET S, NEW B \in SUBSET S, A \subseteq B
  PROVE  /\ Cardinality(A) \in Nat /\ Cardinality(B) \in Nat
         /\ Cardinality(A) <= Cardinality(B)
<1>1. IsFiniteSet(A) /\ IsFiniteSet(B)
  BY FS_Subset
<1>. QED BY <1>1, FS_Subset, FS_CardinalityType

LEMMA CardAdd ==
  ASSUME NEW S, IsFiniteSet(S), NEW A \in SUBSET S, NEW x \in S, x \notin A
  PROVE  Cardinality(A \cup {x}) = Cardinality(A) + 1
BY FS_Subset, FS_AddElement

LEMMA CardRemove ==
  ASSUME NEW S, IsFiniteSet(S), NEW A \in SUBSET S, NEW x \in A
  PROVE  Cardinality(A \ {x}) = Cardinality(A) - 1
BY FS_Subset, FS_RemoveElement

LEMMA CountsAreNat ==
  ASSUME NEW P \in SUBSET Producers, NEW C \in SUBSET Consumers
  PROVE  Cardinality(P) \in Nat /\ Cardinality(C) \in Nat
BY ThreadsAssumption, CardGrow
-----------------------------------------------------------------------------
\* The half of NoLostWakeup about sleeping consumers and waiting items.
ItemsReachConsumers ==
    ~stop /\ NotEmptySleepers # {} =>
        size <= Cardinality(WakingConsumers) + Cardinality(CheckingConsumers)

\* The half about sleeping producers and free slots.
SlotsReachProducers ==
    ~stop /\ notFullOk /\ NotFullSleepers # {} =>
        glimitSize - size <= Cardinality(WakingProducers) + Cardinality(CheckingProducers)

LEMMA ItemsStep == IInv /\ ItemsReachConsumers /\ [Next]_vars => ItemsReachConsumers'
<1>. SUFFICES ASSUME IInv, ItemsReachConsumers, [Next]_vars,
                     ~stop', NotEmptySleepers' # {}
              PROVE  size' <= Cardinality(WakingConsumers') + Cardinality(CheckingConsumers')
  BY DEF ItemsReachConsumers
<1>. USE ThreadsDisjoint DEF statics, links, heap, threads
<1>0. TypeOK /\ PhaseInv
  BY DEF IInv
<1>1. /\ Cardinality(WakingConsumers) \in Nat /\ Cardinality(CheckingConsumers) \in Nat
      /\ Cardinality(WakingConsumers') \in Nat /\ Cardinality(CheckingConsumers') \in Nat
  <2>1. /\ WakingConsumers \in SUBSET Producers /\ CheckingConsumers \in SUBSET Consumers
        /\ WakingConsumers' \in SUBSET Producers /\ CheckingConsumers' \in SUBSET Consumers
    BY DEF WakingConsumers, CheckingConsumers
  <2>. QED BY <2>1, CountsAreNat
\* Steps that take nobody off the way to a consumer.
<1>2. ASSUME ~stop, size' = size, NotEmptySleepers # {},
             WakingConsumers \subseteq WakingConsumers',
             CheckingConsumers \subseteq CheckingConsumers'
      PROVE  size' <= Cardinality(WakingConsumers') + Cardinality(CheckingConsumers')
  <2>1. /\ Cardinality(WakingConsumers) <= Cardinality(WakingConsumers')
        /\ Cardinality(CheckingConsumers) <= Cardinality(CheckingConsumers')
    <3>1. /\ WakingConsumers \in SUBSET Producers
          /\ WakingConsumers' \in SUBSET Producers
          /\ CheckingConsumers \in SUBSET Consumers
          /\ CheckingConsumers' \in SUBSET Consumers
      BY DEF WakingConsumers, CheckingConsumers
    <3>. QED BY <1>2, <3>1, ThreadsAssumption, CardGrow
  <2>. QED BY <1>0, <1>1, <1>2, <2>1 DEF ItemsReachConsumers, TypeOK
<1>3. ASSUME NEW p \in Producers, Enqueue(p)
      PROVE  size' <= Cardinality(WakingConsumers') + Cardinality(CheckingConsumers')
  <2>0. ~stop /\ pc \in [Threads -> {"idle", "enter", "locked", "asleep", "woken",
                                     "wake", "faulted"}]
    BY <1>0, <1>3 DEF TypeOK, Enqueue, EnqCall, EnqWait, EnqAbort, EnqLink, EnqWake, Sleep
  <2>1. CASE EnqCall(p) \/ EnqWait(p) \/ EnqAbort(p)
    <3>1. /\ size' = size /\ pc[p] # "wake"
          /\ \E x \in {"enter", "asleep", "idle"} : pc' = [pc EXCEPT ![p] = x]
      BY <2>0, <2>1 DEF EnqCall, EnqWait, Sleep, EnqAbort
    <3>2. /\ NotEmptySleepers' = NotEmptySleepers
          /\ WakingConsumers \subseteq WakingConsumers'
          /\ CheckingConsumers \subseteq CheckingConsumers'
      BY <2>0, <3>1 DEF NotEmptySleepers, WakingConsumers, CheckingConsumers
    <3>. QED BY <1>2, <2>0, <3>1, <3>2
  <2>2. CASE EnqLink(p)
    <3>1. /\ size' = size + 1 /\ pc[p] = "locked" /\ pc' = [pc EXCEPT ![p] = "wake"]
      BY <2>2 DEF EnqLink
    <3>2. /\ WakingConsumers' = WakingConsumers \cup {p} /\ p \notin WakingConsumers
          /\ WakingConsumers \in SUBSET Producers
          /\ CheckingConsumers' = CheckingConsumers
          /\ NotEmptySleepers' = NotEmptySleepers
      BY <2>0, <3>1 DEF WakingConsumers, CheckingConsumers, NotEmptySleepers
    <3>3. Cardinality(WakingConsumers') = Cardinality(WakingConsumers) + 1
      BY <3>2, CardAdd, ThreadsAssumption
    <3>. QED BY <1>0, <1>1, <2>0, <3>1, <3>2, <3>3 DEF ItemsReachConsumers, TypeOK
  <2>3. CASE EnqWake(p)
    <3>1. PICK s \in NotEmptySleepers : pc' = [pc EXCEPT ![p] = "idle", ![s] = "woken"]
      <4>1. NotEmptySleepers # {}
        BY <2>0, <2>3 DEF EnqWake, WakeOne, NotEmptySleepers
      <4>. QED BY <2>3, <4>1 DEF EnqWake, WakeOne
    <3>2. s \in Consumers /\ pc[s] = "asleep" /\ pc[p] = "wake" /\ size' = size
      BY <2>3, <3>1 DEF NotEmptySleepers, EnqWake
    <3>3. /\ WakingConsumers' = WakingConsumers \ {p} /\ p \in WakingConsumers
          /\ WakingConsumers \in SUBSET Producers
      BY <2>0, <3>1, <3>2 DEF WakingConsumers
    <3>4. /\ CheckingConsumers' = CheckingConsumers \cup {s} /\ s \notin CheckingConsumers
          /\ CheckingConsumers \in SUBSET Consumers
      BY <2>0, <3>1, <3>2 DEF CheckingConsumers
    <3>5. /\ Cardinality(WakingConsumers') = Cardinality(WakingConsumers) - 1
          /\ Cardinality(CheckingConsumers') = Cardinality(CheckingConsumers) + 1
      BY <3>2, <3>3, <3>4, CardAdd, CardRemove, ThreadsAssumption
    <3>. QED BY <1>0, <1>1, <2>0, <3>1, <3>2, <3>5 DEF ItemsReachConsumers, TypeOK
  <2>. QED BY <1>3, <2>1, <2>2, <2>3 DEF Enqueue
<1>4. ASSUME NEW c \in Consumers, Dequeue(c)
      PROVE  size' <= Cardinality(WakingConsumers') + Cardinality(CheckingConsumers')
  <2>0. ~stop /\ pc \in [Threads -> {"idle", "enter", "locked", "asleep", "woken",
                                     "wake", "faulted"}]
    BY <1>0, <1>4 DEF TypeOK, Dequeue, DeqNull, DeqCall, DeqWait, DeqStop, DeqUnlink,
                      DeqWake, Sleep
  <2>1. CASE DeqNull(c) \/ DeqCall(c)
    <3>1. /\ size' = size /\ pc[c] = "idle"
          /\ \E x \in {"idle", "enter"} : pc' = [pc EXCEPT ![c] = x]
      BY <2>0, <2>1 DEF DeqNull, DeqCall
    <3>2. /\ NotEmptySleepers' = NotEmptySleepers
          /\ WakingConsumers \subseteq WakingConsumers'
          /\ CheckingConsumers \subseteq CheckingConsumers'
      BY <2>0, <3>1 DEF NotEmptySleepers, WakingConsumers, CheckingConsumers
    <3>. QED BY <1>2, <2>0, <3>1, <3>2
  <2>2. CASE DeqWait(c)
    BY <1>1, <2>2 DEF DeqWait, Sleep
  <2>3. CASE DeqStop(c)
    BY <2>0, <2>3 DEF DeqStop
  <2>4. CASE DeqUnlink(c)
    <3>1. /\ size' = size - 1 /\ pc[c] = "locked" /\ pc' = [pc EXCEPT ![c] = "wake"]
      BY <2>4 DEF DeqUnlink
    <3>2. /\ CheckingConsumers' = CheckingConsumers \ {c} /\ c \in CheckingConsumers
          /\ CheckingConsumers \in SUBSET Consumers
          /\ WakingConsumers' = WakingConsumers
          /\ NotEmptySleepers' = NotEmptySleepers
      BY <2>0, <3>1 DEF WakingConsumers, CheckingConsumers, NotEmptySleepers
    <3>3. Cardinality(CheckingConsumers') = Cardinality(CheckingConsumers) - 1
      BY <3>2, CardRemove, ThreadsAssumption
    <3>. QED BY <1>0, <1>1, <2>0, <3>1, <3>2, <3>3 DEF ItemsReachConsumers, TypeOK
  <2>5. CASE DeqWake(c)
    <3>1. /\ size' = size /\ pc[c] = "wake"
          /\ \A t \in Threads : \/ pc'[t] = pc[t]
                                \/ t = c /\ pc'[t] = "idle"
                                \/ t \in Producers /\ pc[t] = "asleep" /\ pc'[t] = "woken"
      BY <2>0, <2>5 DEF DeqWake, WakeOne, WakeLost, NotFullSleepers
    <3>2. /\ NotEmptySleepers' = NotEmptySleepers
          /\ WakingConsumers \subseteq WakingConsumers'
          /\ CheckingConsumers \subseteq CheckingConsumers'
      BY <3>1 DEF NotEmptySleepers, WakingConsumers, CheckingConsumers
    <3>. QED BY <1>2, <2>0, <3>1, <3>2
  <2>. QED BY <1>4, <2>1, <2>2, <2>3, <2>4, <2>5 DEF Dequeue
<1>5. ASSUME NEW t \in Threads, Acquire(t) \/ SpuriousWake(t) \/ Fault(t)
      PROVE  size' <= Cardinality(WakingConsumers') + Cardinality(CheckingConsumers')
  <2>0. /\ ~stop /\ size' = size /\ qptr # "freed"
        /\ pc \in [Threads -> {"idle", "enter", "locked", "asleep", "woken",
                               "wake", "faulted"}]
    BY <1>0, <1>5 DEF TypeOK, PhaseInv, Acquire, SpuriousWake, Fault
  <2>1. CASE Acquire(t) \/ SpuriousWake(t)
    <3>1. \/ pc[t] \in {"enter", "woken"} /\ pc' = [pc EXCEPT ![t] = "locked"]
          \/ pc[t] = "asleep" /\ pc' = [pc EXCEPT ![t] = "woken"]
      BY <2>1 DEF Acquire, SpuriousWake
    <3>2. /\ NotEmptySleepers # {}
          /\ WakingConsumers \subseteq WakingConsumers'
          /\ CheckingConsumers \subseteq CheckingConsumers'
      BY <2>0, <3>1 DEF NotEmptySleepers, WakingConsumers, CheckingConsumers
    <3>. QED BY <1>2, <2>0, <3>2
  <2>2. CASE Fault(t)
    <3>1. /\ pc' = [pc EXCEPT ![t] = "faulted"]
          /\ \/ t \in Producers /\ pc[t] = "locked"
             \/ t \in Consumers /\ pc[t] = "wake"
      BY <2>0, <2>2 DEF Fault, UsesFreedQueue, UsesJunkNotFull
    <3>2. /\ NotEmptySleepers # {}
          /\ WakingConsumers \subseteq WakingConsumers'
          /\ CheckingConsumers \subseteq CheckingConsumers'
      BY <2>0, <3>1 DEF NotEmptySleepers, WakingConsumers, CheckingConsumers
    <3>. QED BY <1>2, <2>0, <3>2
  <2>. QED BY <1>5, <2>1, <2>2
<1>6. CASE Create
  <2>1. ~stop /\ UNCHANGED <<size, pc>>
    BY <1>0, <1>6 DEF Create, PhaseInv
  <2>. QED BY <1>2, <2>1 DEF NotEmptySleepers, WakingConsumers, CheckingConsumers
<1>7. CASE Destroy \/ FaultOwner
  <2>1. stop'
    BY <1>0, <1>7 DEF PhaseInv, Destroy, SetStop, DestroyEnter, DestroyWakeAll, DrainNode,
         FreeQueue, DestroyLeave, DestroyDelete, FaultOwner
  <2>. QED BY <2>1
<1>8. CASE UNCHANGED vars
  BY <1>2, <1>8 DEF vars, NotEmptySleepers, WakingConsumers, CheckingConsumers
<1>. QED BY <1>3, <1>4, <1>5, <1>6, <1>7, <1>8 DEF Next
LEMMA SlotsStep == IInv /\ SlotsReachProducers /\ [Next]_vars => SlotsReachProducers'
<1>. SUFFICES ASSUME IInv, SlotsReachProducers, [Next]_vars,
                     ~stop', notFullOk', NotFullSleepers' # {}
              PROVE  glimitSize' - size'
                        <= Cardinality(WakingProducers') + Cardinality(CheckingProducers')
  BY DEF SlotsReachProducers
<1>. USE ThreadsDisjoint DEF statics, links, heap, threads
<1>0. TypeOK /\ PhaseInv
  BY DEF IInv
<1>1. /\ Cardinality(WakingProducers) \in Nat /\ Cardinality(CheckingProducers) \in Nat
      /\ Cardinality(WakingProducers') \in Nat /\ Cardinality(CheckingProducers') \in Nat
  <2>1. /\ WakingProducers \in SUBSET Consumers /\ CheckingProducers \in SUBSET Producers
        /\ WakingProducers' \in SUBSET Consumers /\ CheckingProducers' \in SUBSET Producers
    BY DEF WakingProducers, CheckingProducers
  <2>. QED BY <2>1, CountsAreNat
\* Steps that take nobody off the way to a producer.
<1>2. ASSUME ~stop, notFullOk, UNCHANGED <<size, glimitSize>>, NotFullSleepers # {},
             WakingProducers \subseteq WakingProducers',
             CheckingProducers \subseteq CheckingProducers'
      PROVE  glimitSize' - size'
                <= Cardinality(WakingProducers') + Cardinality(CheckingProducers')
  <2>1. /\ Cardinality(WakingProducers) <= Cardinality(WakingProducers')
        /\ Cardinality(CheckingProducers) <= Cardinality(CheckingProducers')
    <3>1. /\ WakingProducers \in SUBSET Consumers
          /\ WakingProducers' \in SUBSET Consumers
          /\ CheckingProducers \in SUBSET Producers
          /\ CheckingProducers' \in SUBSET Producers
      BY DEF WakingProducers, CheckingProducers
    <3>. QED BY <1>2, <3>1, ThreadsAssumption, CardGrow
  <2>. QED BY <1>0, <1>1, <1>2, <2>1 DEF SlotsReachProducers, TypeOK
<1>3. ASSUME NEW p \in Producers, Enqueue(p)
      PROVE  glimitSize' - size'
                <= Cardinality(WakingProducers') + Cardinality(CheckingProducers')
  <2>0. /\ ~stop /\ notFullOk /\ glimitSize' = glimitSize
        /\ pc \in [Threads -> {"idle", "enter", "locked", "asleep", "woken",
                               "wake", "faulted"}]
    BY <1>0, <1>3 DEF TypeOK, Enqueue, EnqCall, EnqWait, EnqAbort, EnqLink, EnqWake, Sleep
  <2>1. CASE EnqCall(p)
    <3>1. size' = size /\ pc[p] = "idle" /\ pc' = [pc EXCEPT ![p] = "enter"]
      BY <2>0, <2>1 DEF EnqCall
    <3>2. /\ NotFullSleepers' = NotFullSleepers
          /\ WakingProducers \subseteq WakingProducers'
          /\ CheckingProducers \subseteq CheckingProducers'
      BY <2>0, <3>1 DEF NotFullSleepers, WakingProducers, CheckingProducers
    <3>. QED BY <1>2, <2>0, <3>1, <3>2
  <2>2. CASE EnqWait(p)
    BY <1>0, <1>1, <2>0, <2>2 DEF EnqWait, Sleep, TypeOK
  <2>3. CASE EnqAbort(p)
    BY <2>0, <2>3 DEF EnqAbort
  <2>4. CASE EnqLink(p)
    <3>1. /\ size' = size + 1 /\ pc[p] = "locked" /\ pc' = [pc EXCEPT ![p] = "wake"]
      BY <2>4 DEF EnqLink
    <3>2. /\ CheckingProducers' = CheckingProducers \ {p} /\ p \in CheckingProducers
          /\ CheckingProducers \in SUBSET Producers
          /\ WakingProducers' = WakingProducers
          /\ NotFullSleepers' = NotFullSleepers
      BY <2>0, <3>1 DEF WakingProducers, CheckingProducers, NotFullSleepers
    <3>3. Cardinality(CheckingProducers') = Cardinality(CheckingProducers) - 1
      BY <3>2, CardRemove, ThreadsAssumption
    <3>. QED BY <1>0, <1>1, <2>0, <3>1, <3>2, <3>3 DEF SlotsReachProducers, TypeOK
  <2>5. CASE EnqWake(p)
    <3>1. /\ size' = size /\ pc[p] = "wake"
          /\ \A t \in Threads : \/ pc'[t] = pc[t]
                                \/ t = p /\ pc'[t] = "idle"
                                \/ t \in Consumers /\ pc[t] = "asleep" /\ pc'[t] = "woken"
      BY <2>0, <2>5 DEF EnqWake, WakeOne, NotEmptySleepers
    <3>2. /\ NotFullSleepers' = NotFullSleepers
          /\ WakingProducers \subseteq WakingProducers'
          /\ CheckingProducers \subseteq CheckingProducers'
      BY <3>1 DEF NotFullSleepers, WakingProducers, CheckingProducers
    <3>. QED BY <1>2, <2>0, <3>1, <3>2
  <2>. QED BY <1>3, <2>1, <2>2, <2>3, <2>4, <2>5 DEF Enqueue
<1>4. ASSUME NEW c \in Consumers, Dequeue(c)
      PROVE  glimitSize' - size'
                <= Cardinality(WakingProducers') + Cardinality(CheckingProducers')
  <2>0. /\ ~stop /\ notFullOk /\ glimitSize' = glimitSize
        /\ pc \in [Threads -> {"idle", "enter", "locked", "asleep", "woken",
                               "wake", "faulted"}]
    BY <1>0, <1>4 DEF TypeOK, Dequeue, DeqNull, DeqCall, DeqWait, DeqStop, DeqUnlink,
                      DeqWake, Sleep
  <2>1. CASE DeqNull(c) \/ DeqCall(c) \/ DeqWait(c) \/ DeqStop(c)
    <3>1. /\ size' = size /\ pc[c] # "wake"
          /\ \E x \in {"idle", "enter", "asleep"} : pc' = [pc EXCEPT ![c] = x]
      BY <2>0, <2>1 DEF DeqNull, DeqCall, DeqWait, Sleep, DeqStop
    <3>2. /\ NotFullSleepers' = NotFullSleepers
          /\ WakingProducers \subseteq WakingProducers'
          /\ CheckingProducers \subseteq CheckingProducers'
      BY <2>0, <3>1 DEF NotFullSleepers, WakingProducers, CheckingProducers
    <3>. QED BY <1>2, <2>0, <3>1, <3>2
  <2>2. CASE DeqUnlink(c)
    <3>1. /\ size' = size - 1 /\ pc[c] = "locked" /\ pc' = [pc EXCEPT ![c] = "wake"]
      BY <2>2 DEF DeqUnlink
    <3>2. /\ WakingProducers' = WakingProducers \cup {c} /\ c \notin WakingProducers
          /\ WakingProducers \in SUBSET Consumers
          /\ CheckingProducers' = CheckingProducers
          /\ NotFullSleepers' = NotFullSleepers
      BY <2>0, <3>1 DEF WakingProducers, CheckingProducers, NotFullSleepers
    <3>3. Cardinality(WakingProducers') = Cardinality(WakingProducers) + 1
      BY <3>2, CardAdd, ThreadsAssumption
    <3>. QED BY <1>0, <1>1, <2>0, <3>1, <3>2, <3>3 DEF SlotsReachProducers, TypeOK
  <2>3. CASE DeqWake(c)
    <3>1. PICK s \in NotFullSleepers : pc' = [pc EXCEPT ![c] = "idle", ![s] = "woken"]
      <4>1. NotFullSleepers # {}
        BY <2>0, <2>3 DEF DeqWake, WakeOne, NotFullSleepers
      <4>. QED BY <2>0, <2>3, <4>1 DEF DeqWake, WakeOne
    <3>2. s \in Producers /\ pc[s] = "asleep" /\ pc[c] = "wake" /\ size' = size
      BY <2>3, <3>1 DEF NotFullSleepers, DeqWake
    <3>3. /\ WakingProducers' = WakingProducers \ {c} /\ c \in WakingProducers
          /\ WakingProducers \in SUBSET Consumers
      BY <2>0, <3>1, <3>2 DEF WakingProducers
    <3>4. /\ CheckingProducers' = CheckingProducers \cup {s} /\ s \notin CheckingProducers
          /\ CheckingProducers \in SUBSET Producers
      BY <2>0, <3>1, <3>2 DEF CheckingProducers
    <3>5. /\ Cardinality(WakingProducers') = Cardinality(WakingProducers) - 1
          /\ Cardinality(CheckingProducers') = Cardinality(CheckingProducers) + 1
      BY <3>2, <3>3, <3>4, CardAdd, CardRemove, ThreadsAssumption
    <3>. QED BY <1>0, <1>1, <2>0, <3>1, <3>2, <3>5 DEF SlotsReachProducers, TypeOK
  <2>. QED BY <1>4, <2>1, <2>2, <2>3 DEF Dequeue
<1>5. ASSUME NEW t \in Threads, Acquire(t) \/ SpuriousWake(t) \/ Fault(t)
      PROVE  glimitSize' - size'
                <= Cardinality(WakingProducers') + Cardinality(CheckingProducers')
  <2>0. /\ ~stop /\ notFullOk /\ UNCHANGED <<size, glimitSize>> /\ qptr # "freed"
        /\ pc \in [Threads -> {"idle", "enter", "locked", "asleep", "woken",
                               "wake", "faulted"}]
    BY <1>0, <1>5 DEF TypeOK, PhaseInv, Acquire, SpuriousWake, Fault
  <2>1. ~Fault(t)
    BY <2>0 DEF Fault, UsesFreedQueue, UsesJunkNotFull
  <2>2. \/ pc[t] \in {"enter", "woken"} /\ pc' = [pc EXCEPT ![t] = "locked"]
        \/ pc[t] = "asleep" /\ pc' = [pc EXCEPT ![t] = "woken"]
    BY <1>5, <2>1 DEF Acquire, SpuriousWake
  <2>3. /\ NotFullSleepers # {}
        /\ WakingProducers \subseteq WakingProducers'
        /\ CheckingProducers \subseteq CheckingProducers'
    BY <2>0, <2>2 DEF NotFullSleepers, WakingProducers, CheckingProducers
  <2>. QED BY <1>2, <2>0, <2>3
<1>6. CASE Create
  <2>1. NotFullSleepers' = {}
    BY <1>0, <1>6 DEF Create, PhaseInv, NotFullSleepers
  <2>. QED BY <2>1
<1>7. CASE Destroy \/ FaultOwner
  <2>1. stop'
    BY <1>0, <1>7 DEF PhaseInv, Destroy, SetStop, DestroyEnter, DestroyWakeAll, DrainNode,
         FreeQueue, DestroyLeave, DestroyDelete, FaultOwner
  <2>. QED BY <2>1
<1>8. CASE UNCHANGED vars
  BY <1>2, <1>8 DEF vars, NotFullSleepers, WakingProducers, CheckingProducers
<1>. QED BY <1>3, <1>4, <1>5, <1>6, <1>7, <1>8 DEF Next
-----------------------------------------------------------------------------
\* No wake-up is lost: sleeping consumers and waiting items, or sleeping
\* producers and free slots, never face each other without enough threads on
\* their way between them.
THEOREM NoLostWakeupCorrect == Spec => []NoLostWakeup
<1>1. Init => ItemsReachConsumers /\ SlotsReachProducers
  BY DEF Init, ItemsReachConsumers, SlotsReachProducers, NotEmptySleepers, NotFullSleepers,
         Threads
<1>2. Spec => [](ItemsReachConsumers /\ SlotsReachProducers)
  BY <1>1, ItemsStep, SlotsStep, Inductive, PTL DEF Spec
<1>3. ItemsReachConsumers /\ SlotsReachProducers => NoLostWakeup
  BY DEF ItemsReachConsumers, SlotsReachProducers, NoLostWakeup
<1>. QED BY <1>2, <1>3, PTL
==============================================================================
