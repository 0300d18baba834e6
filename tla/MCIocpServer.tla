----------------------------- MODULE MCIocpServer -----------------------------
(***************************************************************************)
(* IocpServer on two small shapes of program, chosen at the start: "runs"  *)
(* starts every run, one after the other, and has one connection that      *)
(* receives once; "clients" starts one run and has every connection and    *)
(* every receive.  Both at once are too many states.                       *)
(***************************************************************************)
EXTENDS IocpServer, TLC

CONSTANT OnlyRun, OnlyClient    \* those a program of the smaller kind has

VARIABLE shape

MCInit == IocpInit /\ shape \in {"runs", "clients"}

Fits ==
    \/ /\ shape = "runs"
       /\ \A c \in Clients :
             chunks'[c] <= 1 /\ (sock'[c] = "off" \/ c = OnlyClient)
    \/ /\ shape = "clients"
       /\ \A r \in Runs : srv'[r] = "unused" \/ r = OnlyRun

MCNext == IocpNext /\ Fits /\ UNCHANGED shape

MCSpec == MCInit /\ [][MCNext]_<<iocpVars, shape>>
==============================================================================
