---------------------------- MODULE MCBuildQueue ----------------------------
(* Constants of the build queue runs: a mine with two or three levels and a  *)
(* nanofactory that needs a mine and halves build times.                     *)
EXTENDS BuildQueue

MCBuildings == {"mine", "nano"}
MCMaxLevel == [mine |-> 3, nano |-> 1]
MCBaseCost == [mine |-> 1, nano |-> 2]
MCBaseTime == [mine |-> 1, nano |-> 2]
MCRequires == [mine |-> [mine |-> 0, nano |-> 0], nano |-> [mine |-> 1, nano |-> 0]]

(* The runs that leave vacation mode out; a request is then admitted while   *)
(* no transaction is open, since nothing can come between.                   *)
HomeRequests ==
    \/ \E r \in EnqueueRequest : phase = "idle" /\ AdmitEnqueue(r)
    \/ \E r \in EnqueueRequest : BeginEnqueue(r)
    \/ \E id \in 1..MaxJobs : BeginCancel(id)
    \/ BeginFinish
    \/ \E s \in BoostAsks : BeginBoost(s)

HomeNext == Tick \/ HomeRequests \/ Transaction \/ Abort

HomeSpec == Init /\ [][HomeNext]_vars
=============================================================================
