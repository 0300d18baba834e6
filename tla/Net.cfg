\* main of Main_net.c with up to six devices, or 33, and two turns of each send loop;
\* frames with the words 0, 255, 65535 and payloads of up to three
\* bytes, and frames at every carry; and up to
\* three adapters with names of zero to two characters.
\* The process ends.
SPECIFICATION MCSpec
CONSTANTS
    BriefSize = 40
    Sends = 2
    MaxFrames = 2
    Lists <- MCLists
    Numbers = {0, 1, 2, 4, 6, 255, 256, 257}
    Words = {0, 255, 65535}
    Bytes = {1, 255}
    Lengths = {0, 1, 2}
    MaxPayload = 3
INVARIANTS
    AnswersVerify
    ListsFit
    PickedIsPrinted
PROPERTY MainEnds
CHECK_DEADLOCK FALSE
