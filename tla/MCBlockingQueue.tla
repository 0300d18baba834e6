--------------------------- MODULE MCBlockingQueue ---------------------------
(***************************************************************************)
(* Small instances of BlockingQueue for TLC.  Threads of one kind, nodes   *)
(* and items are interchangeable, so the safety runs identify states that  *)
(* differ by a permutation of them; the liveness runs do not.              *)
(***************************************************************************)
EXTENDS BlockingQueue, TLC

MinusOne == -1

Symmetry ==
    Permutations(Producers) \cup Permutations(Consumers)
    \cup Permutations(Nodes) \cup Permutations(Items)
==============================================================================
