----------------------------- MODULE BoundedFifo -----------------------------
(***************************************************************************)
(* What blocking_queue.c promises its callers, without threads, locks or   *)
(* list nodes: a first-in first-out buffer that holds at most Capacity     *)
(* items, that can be closed, and that forgets what it holds once closed.  *)
(*                                                                         *)
(* offer[p] is the item of producer p's enqueue call that has neither been *)
(* taken into the buffer nor dropped; got[c] is what consumer c's latest   *)
(* dequeue call has decided to return.                                     *)
(***************************************************************************)
EXTENDS Integers, Sequences

CONSTANTS Producers, Consumers,
          Items,      \* what the data pointers can point to
          Capacity,
          None,       \* no call, or a call that has not decided yet
          NULL        \* the null pointer a dequeue returns on a closed queue

VARIABLES buffer, open, offer, got

fifoVars == <<buffer, open, offer, got>>

Init ==
    /\ buffer = << >>
    /\ open = FALSE
    /\ offer = [p \in Producers |-> None]
    /\ got = [c \in Consumers |-> None]

Open ==
    /\ ~open
    /\ buffer = << >>
    /\ open' = TRUE
    /\ UNCHANGED <<buffer, offer, got>>

Close ==
    /\ open' = FALSE
    /\ UNCHANGED <<buffer, offer, got>>

\* What a closed queue still held is lost to everyone.
Discard ==
    /\ ~open
    /\ buffer' = << >>
    /\ UNCHANGED <<open, offer, got>>

Offer(p, i) ==
    /\ offer[p] = None
    /\ offer' = [offer EXCEPT ![p] = i]
    /\ UNCHANGED <<buffer, open, got>>

Accept(p) ==
    /\ open
    /\ offer[p] # None
    /\ Len(buffer) < Capacity
    /\ buffer' = Append(buffer, offer[p])
    /\ offer' = [offer EXCEPT ![p] = None]
    /\ UNCHANGED <<open, got>>

\* enqueue returns void: a producer is never told that its item was dropped.
Refuse(p) ==
    /\ ~open
    /\ offer' = [offer EXCEPT ![p] = None]
    /\ UNCHANGED <<buffer, open, got>>

Ask(c) ==
    /\ got' = [got EXCEPT ![c] = None]
    /\ UNCHANGED <<buffer, open, offer>>

Take(c) ==
    /\ open
    /\ got[c] = None
    /\ buffer # << >>
    /\ got' = [got EXCEPT ![c] = Head(buffer)]
    /\ buffer' = Tail(buffer)
    /\ UNCHANGED <<open, offer>>

TakeNull(c) ==
    /\ ~open
    /\ got' = [got EXCEPT ![c] = NULL]
    /\ UNCHANGED <<buffer, open, offer>>

Next ==
    \/ Open \/ Close \/ Discard
    \/ \E p \in Producers :
          \/ \E i \in Items : Offer(p, i)
          \/ Accept(p)
          \/ Refuse(p)
    \/ \E c \in Consumers : Ask(c) \/ Take(c) \/ TakeNull(c)

Spec == Init /\ [][Next]_fifoVars
==============================================================================
