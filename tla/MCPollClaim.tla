---------------------------- MODULE MCPollClaim ----------------------------
(* Constants of the poll claim runs: two processes, four polls in one, which *)
(* can turn each other away, and one in the other.                           *)
EXTENDS PollClaim, TLC

CONSTANTS a1, a2, a3, a4, b1, procA, procB

MCPolls == {a1, a2, a3, a4, b1}
MCProcessOf == [p \in MCPolls |-> IF p = b1 THEN procB ELSE procA]
MCPollSymmetry == Permutations({a1, a2, a3, a4})
=============================================================================
