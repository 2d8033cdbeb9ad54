------------------------------ MODULE MCFleet ------------------------------
(* Constants for TLC: two players, one with a home and an empty colony, the  *)
(* other with a home, and two free positions.                                *)
EXTENDS Fleet, TLC

MCPlaces == {"a1", "a2", "b1", "free1", "free2"}
MCHome == [q \in MCPlaces |-> CASE q \in {"a1", "a2"} -> "a" [] q = "b1" -> "b" [] OTHER -> "nobody"]
MCShips == [q \in MCPlaces |-> CASE q \in {"a1", "a2"} -> 1 [] q = "b1" -> 2 [] OTHER -> 0]
MCStock == [q \in MCPlaces |-> CASE q \in {"a1", "a2"} -> 1 [] q = "b1" -> 2 [] OTHER -> 0]
MCSlots == [u \in {"a", "b"} |-> IF u = "a" THEN 2 ELSE 1]

MCSymmetry == Permutations(Procs)

(* For the run on liveness: one ship on each planet, and no resources.       *)
MCOnePlace == MCPlaces \ {"free2"}
MCOneHome == [q \in MCOnePlace |-> MCHome[q]]
MCOneShip == [q \in MCOnePlace |-> IF MCHome[q] = "nobody" THEN 0 ELSE 1]
MCNothing == [q \in MCOnePlace |-> 0]
=============================================================================
