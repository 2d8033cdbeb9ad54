----------------------------- MODULE QueueFinish -----------------------------
(***************************************************************************)
(* Several transactions finish the build queue of one planet               *)
(* (finish_planet_build_jobs in game/queue_engine.py): queue workers, page *)
(* loads and polls, and the enqueue and cancel requests of the owner.      *)
(* BuildQueue takes the finish pass of a transaction for one that meets no *)
(* other; here it is split into its SQL statements.                        *)
(*                                                                         *)
(* SQLite: BEGIN IMMEDIATE admits one transaction at a time.  PostgreSQL,  *)
(* READ COMMITTED: a statement sees the rows committed when it starts and  *)
(* its own, and a row another transaction has written blocks a writer.     *)
(* Workers claim the planet row and skip a planet they cannot claim,       *)
(* enqueue and cancel wait for it, pages take it after they have delivered. *)
(* Within one web request on PostgreSQL get_planet_buildings answers from  *)
(* a memo, which any write of planet_buildings clears (game/db_pg.py) and  *)
(* a rollback does not.                                                    *)
(***************************************************************************)
EXTENDS Integers, FiniteSets, FiniteSetsExt

CONSTANTS
    Workers, Pages, Enqueues, Cancels,  \* who finishes; each runs repeatedly
    NoLevels,       \* a request has no memo
    Buildings,      \* building types
    NumJobs,        \* jobs in the queue at the start, in finish order
    BuildingOf,     \* what each job builds
    FinishAt,       \* when each job ends
    Grace,          \* the due window
    Postgres,       \* TRUE on PostgreSQL, FALSE on SQLite
    Horizon         \* bound: the clock stops here

Jobs == 1..NumJobs

Finishers == Workers \cup Pages \cup Enqueues \cup Cancels

\* Requests of the owner, which lock the planet and then change its queue.
Actions == Enqueues \cup Cancels

ASSUME FinishersAssumption ==
    /\ Workers \cap Pages = {} /\ Workers \cap Actions = {}
    /\ Pages \cap Actions = {} /\ Enqueues \cap Cancels = {}

ASSUME JobsAssumption ==
    /\ NumJobs \in Nat
    /\ BuildingOf \in [Jobs -> Buildings]
    /\ FinishAt \in [Jobs -> Nat]
    /\ NoLevels \notin [Buildings -> Nat]
    /\ Grace \in Nat
    /\ Horizon \in Nat
    /\ Postgres \in BOOLEAN

VARIABLES
    clock,          \* time.time()
    level,          \* committed levels, the row of planet_buildings
    queue,          \* committed rows of build_queue
    credits,        \* history: levels granted for a job in a committed pass
    refunds,        \* history: refunds of a job, committed
    lost,           \* history: committed deletions of a job that failed there
    tx              \* of each finisher: its transaction

vars == <<clock, level, queue, credits, refunds, lost, tx>>

NoTx ==
    [pc |-> "idle",         \* the statement it is at
     second |-> FALSE,      \* the pass after a rolled back request
     holds |-> FALSE,       \* whether it holds the row of the planet
     now |-> 0,             \* the time of the pass
     job |-> 0,             \* the head it read, or the job it cancels
     seen |-> NoLevels,     \* the levels it read
     memo |-> NoLevels,     \* the levels the request remembers
     written |-> NoLevels,  \* the levels it has written
     gone |-> {},           \* the rows it has deleted
     granted |-> {},        \* the jobs it has granted a level for
     refunded |-> {},       \* the job it has paid back
     lost |-> {}]           \* the job whose step failed after its deletion

Init ==
    /\ clock = 0
    /\ level = [b \in Buildings |-> 0]
    /\ queue = Jobs
    /\ credits = [j \in Jobs |-> 0]
    /\ refunds = [j \in Jobs |-> 0]
    /\ lost = [j \in Jobs |-> 0]
    /\ tx = [f \in Finishers |-> NoTx]

Tick ==
    /\ clock < Horizon
    /\ clock' = clock + 1
    /\ UNCHANGED <<level, queue, credits, refunds, lost, tx>>

rows == <<level, queue, credits, refunds, lost>>

-----------------------------------------------------------------------------
(* What a statement sees and what blocks it. *)

Open(f) == tx[f].pc \notin {"idle", "begin"}

\* Who takes the planet row when it begins.
Locks(f) == f \in Workers \cup Actions /\ ~tx[f].second

VisibleQueue(f) == queue \ tx[f].gone

VisibleLevels(f) == IF tx[f].written = NoLevels THEN level ELSE tx[f].written

PlanetFree(f) == \A g \in Finishers \ {f} : ~tx[g].holds

RowFree(f, j) == \A g \in Finishers \ {f} : j \notin tx[g].gone

LevelsFree(f) == \A g \in Finishers \ {f} : tx[g].written = NoLevels

Set(f, t) == tx' = [tx EXCEPT ![f] = t]

-----------------------------------------------------------------------------
\* Mutant of CanBegin: no transaction waits for another.
CanBeginAnyTime(f) == TRUE

\* begin_write_transaction and the lock on the planet row, for those who
\* take it. A worker that does not get the row skips the planet: to it that
\* is the same as not having begun.
CanBegin(f) ==
    IF Postgres THEN Locks(f) => PlanetFree(f)
    ELSE \A g \in Finishers : ~Open(g)

Remembers(f) == Postgres /\ f \notin Workers

Recalled(f) ==
    IF Remembers(f) /\ tx[f].memo # NoLevels THEN tx[f].memo ELSE VisibleLevels(f)

\* finish_due_work reads the time before it begins, a worker once per tick;
\* enqueue and cancel read it again under the lock. The route of a cancel
\* reads the levels before that (_player_context_for_action).
Start(f) ==
    /\ tx[f].pc = "idle"
    /\ queue # {}
    /\ Set(f, [tx[f] EXCEPT !.pc = "begin", !.now = clock,
               !.memo = IF f \in Cancels /\ Remembers(f) THEN level ELSE NoLevels])
    /\ UNCHANGED <<clock, rows>>

Begin(f) ==
    /\ tx[f].pc = "begin"
    /\ CanBegin(f)
    /\ Set(f, [tx[f] EXCEPT !.pc = "head", !.holds = Locks(f),
               !.now = IF f \in Actions /\ ~tx[f].second THEN clock ELSE tx[f].now])
    /\ UNCHANGED <<clock, rows>>

\* SELECT from build_queue: the head, when it is due.
ReadHead(f) ==
    /\ tx[f].pc = "head"
    /\ \E j \in VisibleQueue(f) :
         /\ \A i \in VisibleQueue(f) : j <= i
         /\ FinishAt[j] <= tx[f].now + Grace
         /\ Set(f, [tx[f] EXCEPT !.pc = "levels", !.job = j])
    /\ UNCHANGED <<clock, rows>>

\* A page commits, a request goes on to what it was sent for.
AfterPass(f) == IF f \in Actions /\ ~tx[f].second THEN "serve" ELSE "commit"

LoopEnds(f) ==
    /\ tx[f].pc = "head"
    /\ \A j \in VisibleQueue(f) :
         (\A i \in VisibleQueue(f) : j <= i) => FinishAt[j] > tx[f].now + Grace
    /\ Set(f, [tx[f] EXCEPT !.pc = IF tx[f].granted = {} THEN AfterPass(f) ELSE "derive"])
    /\ UNCHANGED <<clock, rows>>

\* A pass that has delivered ends with the derived state of the planet: its
\* row is locked, by a page too, and the levels are read again.
DeriveState(f) ==
    /\ tx[f].pc = "derive"
    /\ Postgres => PlanetFree(f)
    /\ Set(f, [tx[f] EXCEPT !.pc = AfterPass(f), !.holds = TRUE,
               !.memo = IF Remembers(f) THEN Recalled(f) ELSE NoLevels])
    /\ UNCHANGED <<clock, rows>>

\* A lock timeout, a deadlock or another exception there is swallowed.
DeriveFails(f) ==
    /\ tx[f].pc = "derive"
    /\ Set(f, [tx[f] EXCEPT !.pc = AfterPass(f)])
    /\ UNCHANGED <<clock, rows>>

\* Mutant of ReadLevels: the levels are read once, before the loop.
ReadLevelsOnce(f) ==
    /\ tx[f].pc = "levels"
    /\ Set(f, [tx[f] EXCEPT !.pc = "delete",
               !.seen = IF tx[f].seen # NoLevels THEN tx[f].seen ELSE Recalled(f)])
    /\ UNCHANGED <<clock, rows>>

\* get_planet_buildings.
ReadLevels(f) ==
    /\ tx[f].pc = "levels"
    /\ Set(f, [tx[f] EXCEPT !.pc = "delete", !.seen = Recalled(f),
               !.memo = IF Remembers(f) THEN Recalled(f) ELSE NoLevels])
    /\ UNCHANGED <<clock, rows>>

\* delete_build_job: the row may be gone by now, nothing looks at the count.
DeleteJob(f) ==
    /\ tx[f].pc = "delete"
    /\ RowFree(f, tx[f].job)
    /\ Set(f, [tx[f] EXCEPT !.pc = "write", !.gone = @ \cup ({tx[f].job} \cap queue)])
    /\ UNCHANGED <<clock, rows>>

\* UPDATE planet_buildings, every column with the value read or one more.
WriteLevels(f) ==
    /\ tx[f].pc = "write"
    /\ LevelsFree(f)
    /\ LET b == BuildingOf[tx[f].job] IN
       Set(f, [tx[f] EXCEPT !.pc = "head",
               !.written = [tx[f].seen EXCEPT ![b] = @ + 1],
               !.memo = NoLevels,
               !.granted = @ \cup {tx[f].job}])
    /\ UNCHANGED <<clock, rows>>

\* An exception in the step, on PostgreSQL also a lock timeout, is swallowed
\* and the transaction goes on. PostgreSQL returns to the savepoint of the
\* step, the memo stays; SQLite keeps what was written before the exception,
\* also the deletion of a job whose level is not written yet.
StepFails(f) ==
    /\ tx[f].pc \in {"levels", "delete", "write"}
    /\ Set(f, IF Postgres
              THEN [tx[f] EXCEPT !.pc = AfterPass(f), !.gone = {}, !.granted = {},
                                 !.written = NoLevels]
              ELSE [tx[f] EXCEPT !.pc = AfterPass(f), !.lost = tx[f].gone \ tx[f].granted])
    /\ UNCHANGED <<clock, rows>>

-----------------------------------------------------------------------------
(* What a request does after its finish pass. *)

\* An enqueue reads the levels again and places an order: the new job is not
\* due here, and the request ends with a commit.
PlaceOrder(f) ==
    /\ f \in Enqueues
    /\ tx[f].pc = "serve"
    /\ Set(f, [tx[f] EXCEPT !.pc = "commit"])
    /\ UNCHANGED <<clock, rows>>

\* Rollback, and the response finishes due work like a page. The memo stays.
RollBack(f, memo) ==
    Set(f, [NoTx EXCEPT !.pc = "begin", !.second = TRUE, !.now = clock, !.memo = memo])

\* The order cannot be placed (queue full, resources, requirements): the
\* levels were read to find out, then everything is rolled back.
RejectOrder(f) ==
    /\ f \in Enqueues
    /\ tx[f].pc = "serve"
    /\ RollBack(f, IF Remembers(f) THEN Recalled(f) ELSE NoLevels)
    /\ UNCHANGED <<clock, rows>>

\* cancel_build_job_for_planet looks for its job and computes the refund.
FindJob(f) ==
    /\ f \in Cancels
    /\ tx[f].pc = "serve"
    /\ \E j \in VisibleQueue(f) : Set(f, [tx[f] EXCEPT !.pc = "remove", !.job = j])
    /\ UNCHANGED <<clock, rows>>

JobNotFound(f) ==
    /\ f \in Cancels
    /\ tx[f].pc = "serve"
    /\ RollBack(f, tx[f].memo)
    /\ UNCHANGED <<clock, rows>>

\* The refund is credited and the row deleted, if it is still there.
RemoveJob(f) ==
    /\ tx[f].pc = "remove"
    /\ RowFree(f, tx[f].job)
    /\ Set(f, [tx[f] EXCEPT !.pc = "commit",
               !.gone = @ \cup ({tx[f].job} \cap queue),
               !.refunded = {tx[f].job}])
    /\ UNCHANGED <<clock, rows>>

Bump(counts, jobs) == [j \in Jobs |-> IF j \in jobs THEN counts[j] + 1 ELSE counts[j]]

\* Mutant of Commit: a pass that has delivered nothing writes levels too.
CommitWritten(f) ==
    /\ tx[f].pc = "commit"
    /\ level' = tx[f].written
    /\ queue' = VisibleQueue(f)
    /\ credits' = Bump(credits, tx[f].granted)
    /\ refunds' = Bump(refunds, tx[f].refunded)
    /\ lost' = Bump(lost, tx[f].lost)
    /\ tx' = [tx EXCEPT ![f] = NoTx]
    /\ UNCHANGED clock

Commit(f) ==
    /\ tx[f].pc = "commit"
    /\ level' = VisibleLevels(f)
    /\ queue' = VisibleQueue(f)
    /\ credits' = Bump(credits, tx[f].granted)
    /\ refunds' = Bump(refunds, tx[f].refunded)
    /\ lost' = Bump(lost, tx[f].lost)
    /\ tx' = [tx EXCEPT ![f] = NoTx]
    /\ UNCHANGED clock

\* An exception, a lock timeout, a deadlock victim, a dead process.
Abort(f) ==
    /\ tx[f].pc # "idle"
    /\ tx' = [tx EXCEPT ![f] = NoTx]
    /\ UNCHANGED <<clock, rows>>

Finish(f) ==
    \/ Start(f) \/ Begin(f)
    \/ ReadHead(f) \/ LoopEnds(f) \/ ReadLevels(f) \/ DeleteJob(f) \/ WriteLevels(f)
    \/ StepFails(f) \/ DeriveState(f) \/ DeriveFails(f)
    \/ PlaceOrder(f) \/ RejectOrder(f) \/ FindJob(f) \/ JobNotFound(f) \/ RemoveJob(f)
    \/ Commit(f) \/ Abort(f)

Next == Tick \/ \E f \in Finishers : Finish(f)

Spec == Init /\ [][Next]_vars

-----------------------------------------------------------------------------
Levels == [Buildings -> Nat] \cup {NoLevels}

(* Every variable has its type. *)
TypeOK ==
    /\ clock \in Nat
    /\ level \in [Buildings -> Nat]
    /\ queue \in SUBSET Jobs
    /\ credits \in [Jobs -> Nat]
    /\ refunds \in [Jobs -> Nat]
    /\ lost \in [Jobs -> Nat]
    /\ tx \in [Finishers ->
                [pc : {"idle", "begin", "head", "levels", "delete", "write",
                       "derive", "serve", "remove", "commit"},
                 second : BOOLEAN, holds : BOOLEAN, now : Nat, job : Nat,
                 seen : Levels, memo : Levels, written : Levels,
                 gone : SUBSET Jobs, granted : SUBSET Jobs,
                 refunded : SUBSET Jobs, lost : SUBSET Jobs]]

(* test_finish_building_job_once_idempotent, GC_PERF_PG_PARITY_001.md:76: a  *)
(* job is in the queue, or was granted one level once, or was paid back      *)
(* once, however many passes found it due; a completed job is not refunded   *)
(* (QUEUE_STATE_RULES.md:174). The one other way out of the queue is a step  *)
(* that fails between the deletion of its job and the write of the level,    *)
(* which SQLite commits: that job ends with neither, and ends once as well.  *)
EndsOnce ==
    \A j \in Jobs :
        credits[j] + refunds[j] + lost[j] + (IF j \in queue THEN 1 ELSE 0) = 1

SumOver(set, value) == MapThenSumSet(LAMBDA x : value[x], set)

(* The levels of the planet are the levels granted: no pass overwrites what  *)
(* another, or an earlier step of its own, has written.                      *)
NoLevelLost ==
    \A b \in Buildings :
        level[b] = SumOver({j \in Jobs : BuildingOf[j] = b}, credits)
=============================================================================
