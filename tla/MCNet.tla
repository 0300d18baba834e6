--------------------------------- MODULE MCNet ---------------------------------
(***************************************************************************)
(* For TLC: main of Main_net.c, or bounded inputs of the functions of      *)
(* src/utils/net, as initial states that make no step.                     *)
(***************************************************************************)
EXTENDS ArpSponsor, Frames

CONSTANTS Words, Bytes, Lengths, MaxPayload

ASSUME MCAssumption ==
    /\ Words \subseteq Word /\ Bytes \subseteq Byte /\ Lengths \subseteq Nat
    /\ MaxPayload \in Nat /\ MaxPayload <= 32767    \* a length is a short

VARIABLE input

\* The last two fill ri and go beyond it.
MCLists ==
    UNION {[1 .. n -> BOOLEAN] : n \in 0 .. 6}
    \cup {[j \in 1 .. 33 |-> j \in {2, n}] : n \in {31, 32}}

Longs == {<<w, 258>> : w \in Words}
SomePackets ==
    [id : Words, src : Longs, dst : Longs, sport : {80}, dport : Words,
     seq : Words \X Words, ack : Longs, len : {47, 60}]
\* The sums of both headers, at each carry the folding meets.
CarryPackets ==
    [id : {65535}, src : {65535} \X Word, dst : {<<65535, 65535>>}, sport : {65535},
     dport : {65535}, seq : {<<65535, 65535>>}, ack : {<<65535, 65535>>}, len : {47}]
SomePayloads == UNION {[1 .. n -> Bytes] : n \in 0 .. MaxPayload}
SomeAdapters ==
    UNION {[1 .. n -> [listed : BOOLEAN, name : Lengths, description : Lengths,
                       friendly : Lengths]] : n \in 0 .. 3}

MCInit ==
    /\ Init
    /\ \/ input = << >>
       \/ \E p \in SomePackets, b \in SomePayloads : input = <<p, b>>
       \/ \E p \in CarryPackets : input = <<p, <<255>>>>
       \/ \E as \in SomeAdapters : input = <<as>>

MCNext == input = << >> /\ Next /\ UNCHANGED input

MCSpec == MCInit /\ [][MCNext]_<<vars, input>> /\ Fairness

\* Verifies and Fits for the bounded inputs: see Frames and Adapters.
AnswersVerify == Len(input) = 2 => Verifies(input[1], input[2])
ListsFit == Len(input) = 1 => Fits(input[1])
==============================================================================
