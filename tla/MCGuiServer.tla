----------------------------- MODULE MCGuiServer ------------------------------
(***************************************************************************)
(* Small instances of GuiServer for TLC. Safety runs take runs and         *)
(* connections as interchangeable; the liveness run does not.              *)
(***************************************************************************)
EXTENDS GuiServer, TLC

Symmetry == Permutations(Runs) \cup Permutations(Clients)
==============================================================================
