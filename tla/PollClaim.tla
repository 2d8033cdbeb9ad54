------------------------------ MODULE PollClaim ------------------------------
(***************************************************************************)
(* The claim a poll makes before it finishes due work of a player          *)
(* (try_claim_poll_due_finish in game/queue_poll.py).  Polls of the same   *)
(* player arrive in several web processes: a dictionary in each process    *)
(* turns most of them away, a lease in the table runtime_state decides     *)
(* between the processes.  A poll is modelled from its local claim to its  *)
(* result; what the winner then does is in QueueFinish.                    *)
(***************************************************************************)
EXTENDS Naturals

CONSTANTS
    Polls,          \* polls of one player
    Processes,      \* web processes
    ProcessOf,      \* the process that serves a poll
    TTL,            \* lease_sec, 5 s in the code
    MaxWait,        \* longest time from the start of a poll to its result
    Postgres,       \* TRUE on PostgreSQL, where BEGIN takes no lock
    Horizon         \* bound: the clock stops here

ASSUME ConstantsAssumption ==
    /\ ProcessOf \in [Polls -> Processes]
    /\ TTL \in Nat \ {0}
    /\ MaxWait \in Nat
    /\ Postgres \in BOOLEAN
    /\ Horizon \in Nat

VARIABLES
    clock,          \* time.time()
    local,          \* _LOCAL_CLAIMS of each process: claimed until
    lease,          \* `until' of the committed row in runtime_state
    start,          \* now_f of each poll
    admitted,       \* when each poll found the lease over, under the lock
    pc              \* where each poll is

vars == <<clock, local, lease, start, admitted, pc>>

InFlight == {"claimed", "begin", "locked", "write"}

Init ==
    /\ clock = 0
    /\ local = [w \in Processes |-> 0]
    /\ lease = 0
    /\ start = [p \in Polls |-> 0]
    /\ admitted = [p \in Polls |-> 0]
    /\ pc = [p \in Polls |-> "ready"]

\* Bound: a poll whose wait has reached MaxWait answers before time goes on.
Tick ==
    /\ clock < Horizon
    /\ \A p \in Polls : pc[p] \in InFlight => clock < start[p] + MaxWait
    /\ clock' = clock + 1
    /\ UNCHANGED <<local, lease, start, admitted, pc>>

Goto(p, where) == pc' = [pc EXCEPT ![p] = where]

\* Mutant of LocalClaim: a poll that is turned away prolongs the claim.
LocalClaimProlonged(p) ==
    /\ pc[p] = "ready"
    /\ start' = [start EXCEPT ![p] = clock]
    /\ local' = [local EXCEPT ![ProcessOf[p]] = clock + TTL]
    /\ Goto(p, IF local[ProcessOf[p]] > clock THEN "lost" ELSE "claimed")
    /\ UNCHANGED <<clock, lease, admitted>>

\* _process_local_try_claim, under _LOCAL_CLAIM_LOCK.
LocalClaim(p) ==
    /\ pc[p] = "ready"
    /\ start' = [start EXCEPT ![p] = clock]
    /\ \/ /\ local[ProcessOf[p]] > clock
          /\ Goto(p, "lost")
          /\ UNCHANGED local
       \/ /\ local[ProcessOf[p]] <= clock
          /\ Goto(p, "claimed")
          /\ local' = [local EXCEPT ![ProcessOf[p]] = clock + TTL]
    /\ UNCHANGED <<clock, lease, admitted>>

\* The read-only peek compares the lease with the time the poll started.
Peek(p) ==
    /\ pc[p] = "claimed"
    /\ Goto(p, IF lease > start[p] THEN "lost" ELSE "begin")
    /\ UNCHANGED <<clock, local, lease, start, admitted>>

\* BEGIN IMMEDIATE waits for the other writer; BEGIN on PostgreSQL does not.
Begin(p) ==
    /\ pc[p] = "begin"
    /\ Postgres \/ \A q \in Polls : pc[q] \notin {"locked", "write"}
    /\ Goto(p, "locked")
    /\ UNCHANGED <<clock, local, lease, start, admitted>>

\* Mutant of Recheck: the lease is not looked at again under the lock.
RecheckNothing(p) ==
    /\ pc[p] = "locked"
    /\ Goto(p, "write")
    /\ admitted' = [admitted EXCEPT ![p] = clock]
    /\ UNCHANGED <<clock, local, lease, start>>

\* The lease is read again, against the time it is now.
Recheck(p) ==
    /\ pc[p] = "locked"
    /\ \/ /\ lease > clock
          /\ Goto(p, "lost")
          /\ UNCHANGED admitted
       \/ /\ lease <= clock
          /\ Goto(p, "write")
          /\ admitted' = [admitted EXCEPT ![p] = clock]
    /\ UNCHANGED <<clock, local, lease, start>>

\* The lease runs from the start of the poll, not from the commit. On
\* PostgreSQL set_runtime_value swallows a lock error: the lease stays as it
\* was and the claim succeeds.
Win(p) ==
    /\ pc[p] = "write"
    /\ lease' \in {start[p] + TTL} \cup (IF Postgres THEN {lease} ELSE {})
    /\ Goto(p, "won")
    /\ UNCHANGED <<clock, local, start, admitted>>

\* A lock error, another exception or a dead process.
Fail(p) ==
    /\ pc[p] \in InFlight
    /\ Goto(p, "failed")
    /\ UNCHANGED <<clock, local, lease, start, admitted>>

Poll(p) ==
    \/ LocalClaim(p) \/ Peek(p) \/ Begin(p) \/ Recheck(p)
    \/ Win(p) \/ Fail(p)

Next == Tick \/ \E p \in Polls : Poll(p)

Spec == Init /\ [][Next]_vars

-----------------------------------------------------------------------------
(* Every variable has its type. *)
TypeOK ==
    /\ clock \in Nat
    /\ local \in [Processes -> Nat]
    /\ lease \in Nat
    /\ start \in [Polls -> Nat]
    /\ admitted \in [Polls -> Nat]
    /\ pc \in [Polls -> InFlight \cup {"ready", "lost", "won", "failed"}]

(* No poll gets through the check under the write lock while the lease of    *)
(* another winner runs: of two winners, one was admitted after the lease of  *)
(* the other had ended, however long each of them waited for the lock. This  *)
(* is what is left of "exactly one winner per player window"                 *)
(* (queue_poll.py:516) when a poll may wait for half its lease or longer:    *)
(* the lease runs from the start of the poll and may be over soon after, or  *)
(* even before, it is written, and a poll that started under it wins too.    *)
LeaseExcludes ==
    \A p, q \in Polls :
        p # q /\ pc[p] = "won" /\ pc[q] = "won" =>
            \/ start[p] + TTL <= admitted[q]
            \/ start[q] + TTL <= admitted[p]

(* No poll is turned away for nothing: from two leases before it to the end  *)
(* of its own wait there is a poll that won, failed, or has no answer yet.   *)
(* A loser of the peek keeps its process closed after the lease it saw, but  *)
(* polls that are turned away do not keep each other away: a crashed winner  *)
(* cannot block a player forever (queue_poll.py:525).                        *)
WinnerNearby ==
    \A p \in Polls : pc[p] = "lost" =>
        \E q \in Polls :
            /\ pc[q] \in InFlight \cup {"won", "failed"}
            /\ start[q] <= start[p] + MaxWait
            /\ start[p] < start[q] + 2 * TTL
=============================================================================
