---------------------------- MODULE BlockingQueue ----------------------------
(***************************************************************************)
(* src/utils/queue/blocking_queue.c: one queue from createQueue to         *)
(* destroyQueue, with every thread that calls enqueue and dequeue on it.   *)
(*                                                                         *)
(* Grain of atomicity.  A critical section is one action: q->front, rear,  *)
(* size and the nodes are touched by its holder only, and nothing but      *)
(* `stop` (written outside the lock, line 81) changes under it.  What the  *)
(* code does outside the lock is separate: malloc before                   *)
(* EnterCriticalSection, WakeConditionVariable and free after              *)
(* LeaveCriticalSection, and every step of destroyQueue's drain loop,      *)
(* during which a producer can malloc a node that was just freed.          *)
(*                                                                         *)
(* Undefined behaviour.  Two things the code does have no defined outcome: *)
(* it uses the lock of a queue destroyQueue has freed, and it uses notFull,*)
(* which createQueue never initialises.  Such a step either does what it   *)
(* does on sound memory or takes its thread away for good (Fault): the     *)
(* process dies, or the thread never returns.                              *)
(***************************************************************************)
EXTENDS Integers, Sequences, FiniteSets, Functions

CONSTANTS
    Producers,    \* threads that call enqueue
    Consumers,    \* threads that call dequeue
    Owner,        \* the thread that creates the queue and may destroy it
    NoThread,     \* "nobody" as a lock holder
    Nodes,        \* the memory malloc(sizeof(QueueNode)) draws from
    Items,        \* what the data pointers can point to
    None, NULL,
    Size,         \* createQueue's argument
    IntMax,       \* INT_MAX
    Destroys,     \* whether Owner calls destroyQueue
    HeapIsZero    \* whether the bytes malloc hands out for notFull may be
                  \* zero (TRUE) and may be junk (FALSE)

Threads == Producers \cup Consumers

ASSUME ThreadsAssumption ==
    /\ IsFiniteSet(Producers) /\ IsFiniteSet(Consumers)
    /\ Producers \cap Consumers = {}
    /\ Owner \notin Threads /\ NoThread \notin Threads /\ Owner # NoThread

ASSUME DataAssumption ==
    /\ NULL \notin Nodes /\ NULL \notin Items
    /\ None \notin Items /\ None # NULL

ASSUME SizeAssumption ==
    /\ Size \in Int /\ IntMax \in Nat /\ IntMax > 0 /\ Size <= IntMax
    /\ Destroys \in BOOLEAN /\ HeapIsZero \subseteq BOOLEAN

VARIABLES
    \* file-scope statics, one copy whatever the number of queues
    stop, glimitSize,
    \* the Queue: the caller's pointer, and the struct's fields
    qptr, front, rear, size, lock, notFullOk,
    \* QueueNode memory: which nodes are malloc'ed, and their fields
    alloc, data, next,
    \* threads: where each is, the node its local variable points to, and
    \* what its latest dequeue returned
    pc, node, result,
    \* Owner's progress
    phase,
    \* history variable, read by no action: the nodes linked and not yet
    \* unlinked, in the order they were linked
    chain

statics == <<stop, glimitSize>>
links   == <<front, rear, size, chain>>
heap    == <<alloc, data, next>>
threads == <<pc, node, result>>

vars == <<stop, glimitSize, qptr, front, rear, size, lock, notFullOk,
          alloc, data, next, pc, node, result, phase, chain>>

Held     == {node[t] : t \in Threads} \ {NULL}

NotEmptySleepers == {c \in Consumers : pc[c] = "asleep"}
NotFullSleepers  == {p \in Producers : pc[p] = "asleep"}
-----------------------------------------------------------------------------
Init ==
    /\ stop = FALSE /\ glimitSize = 0
    /\ qptr = "null" /\ front = NULL /\ rear = NULL /\ size = 0
    /\ lock = NoThread /\ notFullOk = TRUE
    /\ alloc = {} /\ data = [n \in Nodes |-> None] /\ next = [n \in Nodes |-> NULL]
    /\ pc = [t \in Threads |-> "idle"]
    /\ node = [t \in Threads |-> NULL]
    /\ result = [c \in Consumers |-> None]
    /\ phase = "boot"
    /\ chain = << >>

Limit_NoDefault == Size
Limit == IF Size <= 0 THEN IntMax ELSE Size

\* createQueue
Create ==
    /\ phase = "boot"
    /\ phase' = "serving"
    /\ \/ /\ qptr' = "live"
          /\ stop' = FALSE
          /\ glimitSize' = Limit
          /\ notFullOk' \in HeapIsZero
       \/ UNCHANGED <<qptr, stop, glimitSize, notFullOk>>   \* malloc failed
    /\ UNCHANGED <<front, rear, size, lock, alloc, data, next,
                   pc, node, result, chain>>
-----------------------------------------------------------------------------
(* The lock and the condition variables.                                   *)

\* EnterCriticalSection, and the end of a SleepConditionVariableCS.
Acquire(t) ==
    /\ pc[t] \in {"enter", "woken"}
    /\ lock = NoThread
    /\ lock' = t
    /\ pc' = [pc EXCEPT ![t] = "locked"]
    /\ UNCHANGED <<statics, qptr, links, notFullOk, heap, node, result, phase>>

\* SleepConditionVariableCS releases the lock and sleeps in one step.
Sleep(t) ==
    /\ lock' = NoThread
    /\ pc' = [pc EXCEPT ![t] = "asleep"]
    /\ UNCHANGED <<statics, qptr, links, notFullOk, heap, node, result, phase>>

\* Windows documents that a condition variable may wake a thread on its own.
SpuriousWake(t) ==
    /\ pc[t] = "asleep"
    /\ pc' = [pc EXCEPT ![t] = "woken"]
    /\ UNCHANGED <<statics, qptr, links, lock, notFullOk, heap, node, result, phase>>

\* pc' after thread t, done with its call, wakes one of sleepers (any one:
\* no order is promised), or nobody when there is none.
WakeOne(t, sleepers) ==
    \/ /\ sleepers = {}
       /\ pc' = [pc EXCEPT ![t] = "idle"]
    \/ \E s \in sleepers : pc' = [pc EXCEPT ![t] = "idle", ![s] = "woken"]

\* A call that a junk notFull swallows.
WakeLost(t) == pc' = [pc EXCEPT ![t] = "idle"]
-----------------------------------------------------------------------------
(* enqueue.  Calls with q = NULL, and calls whose malloc fails, return     *)
(* before they change anything.                                            *)

EnqCall_KeepsNext(p) ==
    /\ pc[p] = "idle"
    /\ qptr # "null"
    /\ \E n \in Nodes \ alloc, i \in Items :
          /\ alloc' = alloc \cup {n}
          /\ data' = [data EXCEPT ![n] = i]
          /\ node' = [node EXCEPT ![p] = n]
    /\ pc' = [pc EXCEPT ![p] = "enter"]
    /\ UNCHANGED <<statics, qptr, links, lock, notFullOk, next, result, phase>>

EnqCall(p) ==
    /\ pc[p] = "idle"
    /\ qptr # "null"
    /\ \E n \in Nodes \ alloc, i \in Items :
          /\ alloc' = alloc \cup {n}
          /\ data' = [data EXCEPT ![n] = i]
          /\ next' = [next EXCEPT ![n] = NULL]
          /\ node' = [node EXCEPT ![p] = n]
    /\ pc' = [pc EXCEPT ![p] = "enter"]
    /\ UNCHANGED <<statics, qptr, links, lock, notFullOk, result, phase>>

EnqWait(p) ==
    /\ pc[p] = "locked"
    /\ size >= glimitSize /\ ~stop
    /\ Sleep(p)

EnqAbort(p) ==
    /\ pc[p] = "locked"
    /\ stop
    /\ alloc' = alloc \ {node[p]}
    /\ data' = [data EXCEPT ![node[p]] = None]   \* free() reuses the first bytes
    /\ node' = [node EXCEPT ![p] = NULL]
    /\ lock' = NoThread
    /\ pc' = [pc EXCEPT ![p] = "idle"]
    /\ UNCHANGED <<statics, qptr, links, notFullOk, next, result, phase>>

\* Lines 43-48 without the else: the node is not hooked to its predecessor.
Hook_NoElse(n) ==
    /\ rear' = n
    /\ front' = IF rear = NULL THEN n ELSE front
    /\ UNCHANGED next

Hook(n) ==
    /\ rear' = n
    /\ \/ rear = NULL /\ front' = n /\ UNCHANGED next
       \/ rear # NULL /\ next' = [next EXCEPT ![rear] = n] /\ UNCHANGED front

MayLink_OffByOne == size <= glimitSize /\ ~stop
MayLink_AfterStop == size < glimitSize
MayLink == size < glimitSize /\ ~stop

EnqLink(p) ==
    /\ pc[p] = "locked"
    /\ MayLink
    /\ Hook(node[p])
    /\ size' = size + 1
    /\ chain' = Append(chain, node[p])
    /\ node' = [node EXCEPT ![p] = NULL]
    /\ lock' = NoThread
    /\ pc' = [pc EXCEPT ![p] = "wake"]
    /\ UNCHANGED <<statics, qptr, notFullOk, alloc, data, result, phase>>

EnqWake_Forgotten(p) ==
    /\ pc[p] = "wake"
    /\ pc' = [pc EXCEPT ![p] = "idle"]
    /\ UNCHANGED <<statics, qptr, links, lock, notFullOk, heap, node, result, phase>>

\* Line 51, after the lock is released: the queue may be gone by now.
EnqWake(p) ==
    /\ pc[p] = "wake"
    /\ WakeOne(p, NotEmptySleepers)
    /\ UNCHANGED <<statics, qptr, links, lock, notFullOk, heap, node, result, phase>>
-----------------------------------------------------------------------------
(* dequeue.                                                                *)

\* With q = NULL the call returns NULL at once: a thread started before
\* createQueue has returned sees that (HandleReceivedThread can).
DeqNull(c) ==
    /\ pc[c] = "idle"
    /\ qptr = "null"
    /\ result' = [result EXCEPT ![c] = NULL]
    /\ UNCHANGED <<statics, qptr, links, lock, notFullOk, heap, pc, node, phase>>

DeqCall(c) ==
    /\ pc[c] = "idle"
    /\ qptr # "null"
    /\ result' = [result EXCEPT ![c] = None]
    /\ pc' = [pc EXCEPT ![c] = "enter"]
    /\ UNCHANGED <<statics, qptr, links, lock, notFullOk, heap, node, phase>>

DeqWait(c) ==
    /\ pc[c] = "locked"
    /\ size = 0 /\ ~stop
    /\ Sleep(c)

DeqStop(c) ==
    /\ pc[c] = "locked"
    /\ stop
    /\ result' = [result EXCEPT ![c] = NULL]
    /\ lock' = NoThread
    /\ pc' = [pc EXCEPT ![c] = "idle"]
    /\ UNCHANGED <<statics, qptr, links, notFullOk, heap, node, phase>>

Unhook ==
    /\ front' = next[front]
    /\ rear' = IF next[front] = NULL THEN NULL ELSE rear

DeqUnlink(c) ==
    /\ pc[c] = "locked"
    /\ size # 0 /\ ~stop
    /\ Unhook
    /\ size' = size - 1
    /\ chain' = Tail(chain)
    /\ node' = [node EXCEPT ![c] = front]
    /\ result' = [result EXCEPT ![c] = data[front]]
    /\ lock' = NoThread
    /\ pc' = [pc EXCEPT ![c] = "wake"]
    /\ UNCHANGED <<statics, qptr, notFullOk, heap, phase>>

DeqWake_Forgotten(c) ==
    /\ pc[c] = "wake"
    /\ pc' = [pc EXCEPT ![c] = "idle"]
    /\ alloc' = alloc \ {node[c]}
    /\ data' = [data EXCEPT ![node[c]] = None]
    /\ node' = [node EXCEPT ![c] = NULL]
    /\ UNCHANGED <<statics, qptr, links, lock, notFullOk, next, result, phase>>

\* Lines 75-77: WakeConditionVariable, free(temp), return.
DeqWake(c) ==
    /\ pc[c] = "wake"
    /\ \/ WakeOne(c, NotFullSleepers)
       \/ ~notFullOk /\ WakeLost(c)
    /\ alloc' = alloc \ {node[c]}
    /\ data' = [data EXCEPT ![node[c]] = None]
    /\ node' = [node EXCEPT ![c] = NULL]
    /\ UNCHANGED <<statics, qptr, links, lock, notFullOk, next, result, phase>>
-----------------------------------------------------------------------------
(* destroyQueue, line by line.                                             *)

\* Line 81, without the lock.
SetStop ==
    /\ Destroys /\ phase = "serving"
    /\ stop' = TRUE
    /\ phase' = "stopping"
    /\ UNCHANGED <<glimitSize, qptr, links, lock, notFullOk, heap, threads>>

DestroyEnter ==
    /\ phase = "stopping"
    /\ qptr # "null"      \* &q->lock of a NULL q: Fault is the only step
    /\ lock = NoThread
    /\ lock' = Owner
    /\ phase' = "closing"
    /\ UNCHANGED <<statics, qptr, links, notFullOk, heap, threads>>

\* Lines 83-84 with one condition variable forgotten.
WakeAll_OnlyNotEmpty == {NotEmptySleepers}

\* Lines 83-84: the sets of threads the two calls can wake.
WakeAll ==
    {NotEmptySleepers \cup NotFullSleepers}
    \cup (IF notFullOk THEN {} ELSE {NotEmptySleepers})

DestroyWakeAll ==
    /\ phase = "closing"
    /\ \E woken \in WakeAll :
          pc' = [t \in Threads |-> IF t \in woken THEN "woken" ELSE pc[t]]
    /\ chain' = << >>     \* the list is the drain loop's from here on
    /\ phase' = "draining"
    /\ UNCHANGED <<statics, qptr, front, rear, size, lock, notFullOk, heap,
                   node, result>>

\* Lines 85-89.  The loop frees the node it has advanced to, not the one it
\* leaves: the first node is never freed, and from its second turn on the
\* loop reads `next` of a node it has freed.
DrainNode ==
    /\ phase = "draining"
    /\ front # NULL
    /\ front' = next[front]
    /\ alloc' = alloc \ {next[front]}              \* free(NULL) does nothing
    /\ data' = [n \in Nodes |-> IF n = next[front] THEN None ELSE data[n]]
    /\ UNCHANGED <<statics, qptr, rear, size, chain, lock, notFullOk, next,
                   threads, phase>>

FreeQueue ==
    /\ phase = "draining"
    /\ front = NULL
    /\ qptr' = "freed"
    /\ phase' = "unlock"
    /\ UNCHANGED <<statics, links, lock, notFullOk, heap, threads>>

DestroyLeave ==
    /\ phase = "unlock"
    /\ lock' = NoThread
    /\ phase' = "delete"
    /\ UNCHANGED <<statics, qptr, links, notFullOk, heap, threads>>

\* DeleteCriticalSection resets the lock, whoever holds it now.
DestroyDelete ==
    /\ phase = "delete"
    /\ lock' = NoThread
    /\ phase' = "done"
    /\ UNCHANGED <<statics, qptr, links, notFullOk, heap, threads>>
-----------------------------------------------------------------------------
(* Undefined behaviour that does not go well.                              *)

UsesFreedQueue(t) ==
    qptr = "freed" /\ pc[t] \in {"enter", "woken", "locked", "wake"}

UsesJunkNotFull(t) ==
    /\ ~notFullOk
    /\ \/ t \in Producers /\ pc[t] = "locked" /\ size >= glimitSize /\ ~stop
       \/ t \in Consumers /\ pc[t] = "wake"

Fault(t) ==
    /\ UsesFreedQueue(t) \/ UsesJunkNotFull(t)
    /\ pc' = [pc EXCEPT ![t] = "faulted"]
    /\ UNCHANGED <<statics, qptr, links, lock, notFullOk, heap, node, result, phase>>

FaultOwner ==
    /\ \/ phase = "stopping" /\ qptr = "null"
       \/ phase = "closing" /\ ~notFullOk
       \/ phase = "draining" /\ front # NULL /\ front \notin alloc
       \/ phase \in {"unlock", "delete"}
    /\ phase' = "faulted"
    /\ UNCHANGED <<statics, qptr, links, lock, notFullOk, heap, threads>>
-----------------------------------------------------------------------------
Enqueue(p) ==
    EnqCall(p) \/ EnqWait(p) \/ EnqAbort(p) \/ EnqLink(p) \/ EnqWake(p)

Dequeue(c) ==
    DeqNull(c) \/ DeqCall(c) \/ DeqWait(c) \/ DeqStop(c) \/ DeqUnlink(c) \/ DeqWake(c)

Destroy ==
    \/ SetStop \/ DestroyEnter \/ DestroyWakeAll \/ DrainNode
    \/ FreeQueue \/ DestroyLeave \/ DestroyDelete

Next ==
    \/ Create \/ Destroy \/ FaultOwner
    \/ \E p \in Producers : Enqueue(p)
    \/ \E c \in Consumers : Dequeue(c)
    \/ \E t \in Threads : Acquire(t) \/ SpuriousWake(t) \/ Fault(t)

Spec == Init /\ [][Next]_vars

\* Fairness.  Every thread inside a call keeps running; a consumer calls
\* dequeue again and again (the loops of tConsumer and HandleReceivedThread),
\* a producer need not; a thread that waits for the critical section gets it
\* if it is free again and again; once destroyQueue is called it runs on.
\* Nothing is assumed of which sleeper a wake-up picks.
InEnqueue(p) == EnqWait(p) \/ EnqAbort(p) \/ EnqLink(p) \/ EnqWake(p)

InDestroy ==
    DestroyWakeAll \/ DrainNode \/ FreeQueue \/ DestroyLeave \/ DestroyDelete

Fairness ==
    /\ \A p \in Producers : WF_vars(InEnqueue(p))
    /\ \A c \in Consumers : WF_vars(Dequeue(c))
    /\ \A t \in Threads : SF_vars(Acquire(t))
    /\ SF_vars(DestroyEnter)
    /\ WF_vars(InDestroy)

FairSpec == Spec /\ Fairness
-----------------------------------------------------------------------------
NodeOrNull == Nodes \cup {NULL}

TypeOK ==
    /\ stop \in BOOLEAN /\ glimitSize \in Nat
    /\ qptr \in {"null", "live", "freed"}
    /\ front \in NodeOrNull /\ rear \in NodeOrNull
    /\ size \in Nat
    /\ lock \in Threads \cup {Owner, NoThread}
    /\ notFullOk \in BOOLEAN
    /\ alloc \subseteq Nodes
    /\ data \in [Nodes -> Items \cup {None}]
    /\ next \in [Nodes -> NodeOrNull]
    /\ pc \in [Threads -> {"idle", "enter", "locked", "asleep", "woken",
                           "wake", "faulted"}]
    /\ node \in [Threads -> NodeOrNull]
    /\ result \in [Consumers -> Items \cup {None, NULL}]
    /\ phase \in {"boot", "serving", "stopping", "closing", "draining",
                  "unlock", "delete", "done", "faulted"}
    /\ chain \in Seq(Nodes)

\* The phases in which the list still belongs to enqueue and dequeue.
Open == phase \in {"boot", "serving", "stopping", "closing"}

\* Whatever the interleaving of calls, q->front, q->rear, q->size and the
\* next pointers describe one list: the nodes linked and not yet unlinked,
\* in link order, each once (lines 43-49 and 66-73 of blocking_queue.c).
ListInv ==
    Open =>
      /\ size = Len(chain)
      /\ front = IF chain = << >> THEN NULL ELSE chain[1]
      /\ rear = IF chain = << >> THEN NULL ELSE chain[Len(chain)]
      /\ \A i \in 1 .. Len(chain) :
            next[chain[i]] = IF i = Len(chain) THEN NULL ELSE chain[i + 1]
      /\ \A i, j \in 1 .. Len(chain) : chain[i] = chain[j] => i = j

\* The queue never holds more than the limit createQueue was given, though a
\* producer that was woken for a free slot may find it taken by another one
\* (the "stolen wake-up" of line 32).
Bounded == Open => size <= Limit

\* Every malloc'ed node has exactly one owner: the list, the enqueue that has
\* not linked it, or the dequeue that has unlinked it.  Nothing is freed twice,
\* leaked, or freed while another thread holds it; and in destroyQueue's loop,
\* which reads nodes it has freed while producers may be handed the same
\* memory, the node it frees next is an allocated one that no call holds.
OneOwner ==
    /\ \A t, u \in Threads : node[t] # NULL /\ node[t] = node[u] => t = u
    /\ Held \subseteq alloc
    /\ Open => alloc = Held \cup Range(chain) /\ Held \cap Range(chain) = {}
    /\ phase = "draining" /\ front # NULL =>
          next[front] \in (alloc \ Held) \cup {NULL}

\* Who is on the way to a sleeper, or is one that has been reached: threads
\* about to call WakeConditionVariable, and threads woken or holding the lock
\* that will look at q->size again before they sleep.
WakingConsumers   == {p \in Producers : pc[p] = "wake"}
CheckingConsumers == {c \in Consumers : pc[c] \in {"woken", "locked"}}
WakingProducers   == {c \in Consumers : pc[c] = "wake"}
CheckingProducers == {p \in Producers : pc[p] \in {"woken", "locked"}}

\* No wake-up is lost while the queue is open, although enqueue and dequeue
\* wake after they have released the lock: if a consumer sleeps while items
\* wait, then as many wake-ups are on their way as there are items; and the
\* same for sleeping producers and free slots.
NoLostWakeup ==
    ~stop =>
      /\ NotEmptySleepers # {} =>
           size <= Cardinality(WakingConsumers) + Cardinality(CheckingConsumers)
      /\ notFullOk /\ NotFullSleepers # {} =>
           glimitSize - size <=
             Cardinality(WakingProducers) + Cardinality(CheckingProducers)

\* Once destroyQueue has woken everybody, nobody sleeps on the queue it is
\* about to free, and nobody goes back to sleep on it: although stop is set
\* before the lock is taken, no thread can slip between its test of stop and
\* its sleep (lines 31-33, 59-61, 81-84).
NoSleeperLeftBehind ==
    notFullOk /\ phase \in {"draining", "unlock", "delete", "done"} =>
        NotEmptySleepers \cup NotFullSleepers = {}

\* The queue implements a first-in first-out buffer: an enqueue takes effect
\* when its node is linked, a dequeue when its node is unlinked, a closed queue
\* accepts and returns nothing, and each item reaches one dequeue at most.
Fifo == INSTANCE BoundedFifo WITH
    Capacity <- Limit,
    buffer   <- [i \in DOMAIN chain |-> data[chain[i]]],
    open     <- qptr # "null" /\ ~stop,
    offer    <- [p \in Producers |-> IF node[p] = NULL THEN None ELSE data[node[p]]],
    got      <- result

ImplementsFifo == Fifo!Spec

Faulted == phase = "faulted" \/ \E t \in Threads : pc[t] = "faulted"

\* Every item that enters the queue leaves it, by a dequeue or by destroyQueue,
\* unless somebody is taken down by memory destroyQueue has freed.
EveryItemLeaves ==
    \A n \in Nodes : n \in Range(chain) ~> n \notin Range(chain) \/ Faulted

\* A producer that found the queue full gets through: its item gets in or, once
\* the queue is stopped, is dropped, and enqueue returns.
ProducerGetsThrough ==
    \A p \in Producers : pc[p] = "asleep" ~> pc[p] = "idle" \/ Faulted

\* After stop = 1 every thread asleep in enqueue or dequeue returns, unless
\* somebody is taken down by the freed memory they all touch.
SleepersReturnOnceStopped ==
    \A t \in Threads :
       stop /\ pc[t] = "asleep" ~> pc[t] = "idle" \/ Faulted
==============================================================================
