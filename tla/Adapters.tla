------------------------------- MODULE Adapters -------------------------------
(***************************************************************************)
(* src/utils/net/nets.c and pick_dev of npcap_utils.c: the list of network *)
(* adapters, packed into one buffer, and the choice of one by its number.  *)
(* Strings are their lengths, without the terminator.                      *)
(***************************************************************************)
EXTENDS Integers, FiniteSets, SequencesExt

CONSTANT BriefSize    \* sizeof(Intf_Brief)

ASSUME AdaptersAssumption == BriefSize \in Nat \ {0}

\* An adapter, and whether it is up, of a listed type and has IPv4.
Adapter == [listed : BOOLEAN, name : Nat, description : Nat, friendly : Nat]

\* The places of those that are chosen, in their order.
Places(chosen) ==
    FoldLeft(LAMBDA s, i : IF chosen[i] THEN Append(s, i) ELSE s, << >>,
             [i \in DOMAIN chosen |-> i])

Listed(as) ==
    LET places == Places([i \in DOMAIN as |-> as[i].listed])
    IN  [k \in DOMAIN places |-> as[places[k]]]
-----------------------------------------------------------------------------
(* list_devs.                                                              *)

\* Line 82, with one byte less, and as it is.
Room_OneLess(a) == a.name + 2 * a.description + 2 * a.friendly + BriefSize + 4
Room(a) == a.name + 2 * a.description + 2 * a.friendly + BriefSize + 5

\* my_copy of a string with room for max bytes: how many bytes it counts, and
\* whether the terminator is among them. An odd max is exceeded by one.
my_copy(len, max, isW) ==
    IF isW THEN [n |-> IF max <= 0 THEN 0
                       ELSE IF 2 * len < max THEN 2 * len + 2 ELSE max + (max % 2),
                 ended |-> 2 * len < max]
           ELSE [n |-> IF len < max THEN len + 1 ELSE IF max < 0 THEN 0 ELSE max,
                 ended |-> len < max]

\* One turn of the second loop: rest is bufsize, made are the devices so far,
\* whole says that no string has been cut, and last that the loop has ended.
Append1(s, a) ==
    LET c1 == my_copy(a.name, s.rest - BriefSize, FALSE)
        r1 == s.rest - BriefSize - c1.n
        c2 == my_copy(a.description, r1, TRUE)
        c3 == my_copy(a.friendly, r1 - c2.n, TRUE)
        r3 == r1 - c2.n - c3.n
    IN  IF s.last THEN s
        ELSE [rest |-> r3, made |-> Append(s.made, a), last |-> r3 = 0,
              whole |-> s.whole /\ c1.ended /\ c2.ended /\ c3.ended]

\* The first loop: room for all of them.
bufsize(devs) == FoldLeft(LAMBDA s, n : s + n, 0, [i \in DOMAIN devs |-> Room(devs[i])])

list_devs(as) ==
    FoldLeft(Append1,
             [rest |-> bufsize(Listed(as)), made |-> << >>, last |-> FALSE, whole |-> TRUE],
             Listed(as))

\* The two passes over the adapters agree (lines 79-85, 94-120): the buffer is
\* used up to its last byte, no string is cut or left without its end, and the
\* test bufsize == 0 ends the list at its last device and never before.
Fits(as) ==
    LET l == list_devs(as) IN
    Listed(as) # << >> => l.rest = 0 /\ l.whole /\ l.made = Listed(as)
-----------------------------------------------------------------------------
(* The choice of a device.  None stands for an out parameter left unset.   *)

None == 0

\* Bug: the number typed is taken for a place in the whole list.
pick_dev_NoMap(usable, typed) ==
    LET count == Cardinality({j \in DOMAIN usable : usable[j]}) % 256
        target == typed % 256
    IN  IF count = 0 \/ target < 1 \/ target > count THEN None ELSE target

\* ri has 32 elements, and the first is not used: a usable device at a later
\* place than 31 is marked beside it.
RiHolds(usable) == \A j \in DOMAIN usable : usable[j] => j <= 31

\* The devices are numbered as they are printed, without those that are not
\* usable; count and the number typed are kept in a byte. What is no number
\* leaves targetNum at 2.
pick_dev(usable, typed) ==
    LET upTo(j) == Cardinality({i \in 1 .. j : usable[i]})
        count == upTo(Len(usable)) % 256
        target == typed % 256
    IN  IF count = 0 \/ target < 1 \/ target > count THEN None
        ELSE CHOOSE j \in DOMAIN usable : usable[j] /\ upTo(j) = target

\* The device that is opened is the one printed beside the number typed, and
\* none when the number was not printed (lines 74-123 of npcap_utils.c), for a
\* number below 256 and a list that ri holds. Not so for other numbers: they are
\* taken modulo 256, and 257 opens the first device, although the prompt asks for
\* 1 to count and the test of line 104 is to refuse what is not in between.
PicksPrinted(usable, typed) ==
    LET printed == Places(usable) IN
    RiHolds(usable) /\ typed < 256 =>
        pick_dev(usable, typed) = IF typed \in DOMAIN printed THEN printed[typed] ELSE None
==============================================================================
