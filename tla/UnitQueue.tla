------------------------------ MODULE UnitQueue ------------------------------
(***************************************************************************)
(* Orders of many units on one planet: ships and defenses of the orbital   *)
(* yard (game/shipyard_queue.py, game/defense.py and defense_api.py, one   *)
(* code written twice) and troops of the barracks (game/troops.py), with   *)
(* the batch arithmetic they share (game/shipyard.py).                     *)
(*                                                                         *)
(* The head of the queue is delivered batch by batch.  Its row keeps only  *)
(* what is left, when it started and when it ends: how many units it had,  *)
(* and so how many batches are over, is inferred from these three.         *)
(*                                                                         *)
(* This is the program on SQLite: every finish pass that is committed and  *)
(* every request is a transaction that began with BEGIN IMMEDIATE, so none *)
(* comes between the first read of another and its commit, and each is one *)
(* action.  On PostgreSQL that is not so: pages take no lock on the planet *)
(* (queue_engine.py:879), a cancel in the barracks takes none either       *)
(* (troops.py:527), and an order there is preceded by a pass that runs     *)
(* before the lock (troops.py:443).  Steps of a pass that raise after      *)
(* units were handed out are left out as well.                             *)
(*                                                                         *)
(* A step of time is half a batch; the code's tolerances of a second and   *)
(* less are below it.  Costs are two resources a unit.                     *)
(***************************************************************************)
EXTENDS Integers, Sequences, FiniteSetsExt, SequencesExt

CONSTANTS
    Kinds,          \* queues considered: "yard", "barracks"
    Unit,           \* length of a batch, at every level
    MaxLevel,       \* bound: level of the building; a batch has as many units
    Amounts,        \* sizes of orders
    QueueLimit,     \* orders a queue can hold
    InitialStock,   \* resources at the start
    Boosts,         \* bound: what the Timekeeper is asked for
    MaxBoost,       \* bound: seconds of the Timekeeper used in all
    MaxOrders,      \* bound: orders in all
    Horizon         \* bound: time

ASSUME UnitAssumption ==
    /\ Kinds \subseteq {"yard", "barracks"}
    /\ {Unit, MaxLevel, QueueLimit, MaxOrders} \subseteq Nat \ {0}
    /\ {InitialStock, MaxBoost, Horizon} \subseteq Nat
    /\ Amounts \subseteq Nat \ {0} /\ Boosts \subseteq Nat \ {0}

VARIABLES
    kind,           \* which queue this is
    now,            \* the time
    level,          \* level of the yard or of the barracks
    queue,          \* rows in the order of their position
    book,           \* history, of each order: its size, units delivered,
                    \* resources given back and what became of it
    stock,          \* resources of the planet
    boosted         \* history: seconds taken from the Timekeeper

vars == <<kind, now, level, queue, book, stock, boosted>>

Init ==
    /\ kind \in Kinds
    /\ now = 0 /\ level = 1
    /\ queue = <<>> /\ book = <<>>
    /\ stock = InitialStock
    /\ boosted = 0

-----------------------------------------------------------------------------
(* The arithmetic of batches, for rows of the form [id, amount, start, *)
(* finish] and a level. *)

CeilDiv(a, b) == (a + b - 1) \div b

\* production_job_duration_seconds
Duration(amount, l) == CeilDiv(amount, l) * Unit

Scheduled(job) == Max({1, job.finish - job.start})

\* production_infer_total_units: what is left is taken to be less than the
\* last batch when that can be so.
UnitsIn(batches, left, l) ==
    IF left <= l THEN (batches - 1) * l + left ELSE Min({left, batches * l})

InferTotal(job, l) == UnitsIn(Max({1, Scheduled(job) \div Unit}), job.amount, l)

Total(job, l) == Max({job.amount, InferTotal(job, l)})

\* Mutant of UnitsElapsed: a batch that has begun counts.
UnitsBegun(job, l, t) == Min({Total(job, l), CeilDiv(t - job.start, Unit) * l})

\* production_units_elapsed
UnitsElapsed(job, l, t) ==
    IF t - job.start < Unit THEN 0
    ELSE Min({Total(job, l), ((t - job.start) \div Unit) * l})

\* production_progressive_units_to_deliver
ToDeliver(job, l, t) ==
    IF t >= job.finish THEN job.amount
    ELSE Max({0, Min({job.amount,
                      UnitsElapsed(job, l, t) - (Total(job, l) - job.amount)})})

\* production_schedule_matches_live_params
Matches(job, l) == Scheduled(job) = Duration(Total(job, l), l)

\* production_live_order_remaining_seconds, of a row that matches: the end of
\* the batch after those delivered, and the batches after it.
LiveRemaining(job, l, t) ==
    LET delivered == Total(job, l) - job.amount IN
    Max({0, job.start + (CeilDiv(delivered, l) + 1) * Unit - t})
        + (CeilDiv(job.amount, l) - 1) * Unit

-----------------------------------------------------------------------------
(* Rescheduling. *)

\* The queue with its head scheduled as given: each row behind it starts when
\* the one before it ends.
Chain(q, head, l) ==
    LET ends[i \in DOMAIN q] ==
            IF i = 1 THEN head.finish ELSE ends[i - 1] + Duration(q[i].amount, l)
    IN [i \in DOMAIN q |-> IF i = 1 THEN head
                           ELSE [q[i] EXCEPT !.start = ends[i - 1], !.finish = ends[i]]]

\* recalculate_queue_finish_times: everything from now, the head included.
Recalculate(q, l, t) ==
    IF q = <<>> THEN q
    ELSE Chain(q, [q[1] EXCEPT !.start = t, !.finish = t + Duration(q[1].amount, l)], l)

\* sync_shipyard/defense/troop_queue_finish_times: the head keeps its start
\* when it looks as if it was scheduled at this level, and begins now if not.
SyncHead(head, l, t) ==
    IF Matches(head, l)
    THEN [head EXCEPT !.finish = t + LiveRemaining(head, l, t)]
    ELSE [head EXCEPT !.start = t, !.finish = t + Duration(head.amount, l)]

Sync(q, l, t) == IF q = <<>> THEN q ELSE Chain(q, SyncHead(q[1], l, t), l)

\* Mutant of RescheduledAfter: the rows behind a removed one stay as they are.
RescheduledAfterNot(q, l, t) == q

\* What follows a removal: the barracks synchronise, the yard recalculates.
RescheduledAfter(q, l, t) ==
    IF kind = "barracks" THEN Sync(q, l, t) ELSE Recalculate(q, l, t)

-----------------------------------------------------------------------------
(* The finish pass. *)

\* What is left of the queue after its first n orders are complete: the
\* barracks reschedule after each, the yard does not.
Rest(q, l, t) ==
    LET rest[n \in 0..Len(q)] ==
            IF n = 0 THEN q
            ELSE IF kind = "barracks" THEN Sync(Tail(rest[n - 1]), l, t)
            ELSE Tail(rest[n - 1])
    IN rest

\* How many orders at the front are complete.
Completed(rest, l, t) ==
    Max({n \in DOMAIN rest :
           \A i \in 0..n - 1 : ToDeliver(rest[i][1], l, t) = rest[i][1].amount})

Ids(q) == {q[i].id : i \in DOMAIN q}

\* Mutant of Left: the units delivered stay in the order.
LeftAll(job, units) == job

\* The row of an order of which some units were delivered.
Left(job, units) == [job EXCEPT !.amount = @ - units]

\* The queue when the first of what is left, q, has delivered some units.
Progressed(q, units, l, t) ==
    IF units = 0 THEN q ELSE Sync([q EXCEPT ![1] = Left(q[1], units)], l, t)

\* What a pass leaves that has completed the orders gone: the yard
\* recalculates after that.
Deliver(gone, q, units, l, t) ==
    [queue |-> IF kind = "yard" /\ gone # <<>> THEN Recalculate(Progressed(q, units, l, t), l, t)
               ELSE Progressed(q, units, l, t),
     units |-> [o \in DOMAIN book |->
                  IF o \in Ids(gone) THEN gone[CHOOSE i \in DOMAIN gone : gone[i].id = o].amount
                  ELSE IF q # <<>> /\ q[1].id = o THEN units ELSE 0]]

DeliverFirst(gone, q, l, t) ==
    Deliver(gone, q, IF q = <<>> THEN 0 ELSE ToDeliver(q[1], l, t), l, t)

DeliverAfter(n, q, rest, l, t) == DeliverFirst(SubSeq(q, 1, n), rest[n], l, t)

FinishFrom(rest, q, l, t) == DeliverAfter(Completed(rest, l, t), q, rest, l, t)

\* _finish_due_..._jobs_impl: complete orders, then the batches of the next
\* one. The result: the queue, and the units delivered of each order.
Finish(q, l, t) == FinishFrom(Rest(q, l, t), q, l, t)

\* The book after a finish pass.
Delivered(done) ==
    [o \in DOMAIN book |->
        [book[o] EXCEPT !.given = @ + done.units[o],
                        !.fate = IF @ = "open" /\ o \notin Ids(done.queue)
                                 THEN "built" ELSE @]]

\* Nothing is finished when the code does not ask for it.
Unfinished == [queue |-> queue, units |-> [o \in DOMAIN book |-> 0]]

\* Mutant of BeforeMutation: no queue is finished before it is changed.
BeforeMutationNot == Unfinished

\* The barracks finish what is due before an order is taken or cancelled,
\* the yard does not.
BeforeMutation ==
    IF kind = "barracks" THEN Finish(queue, level, now) ELSE Unfinished

-----------------------------------------------------------------------------
Tick ==
    /\ now < Horizon
    /\ now' = now + 1
    /\ UNCHANGED <<kind, level, queue, book, stock, boosted>>

\* finish_due_work, perhaps with an upgrade of the building, and a page that
\* shows the yard. An upgrade of the yard reschedules it before it is finished.
Page ==
    \E upgrade, view \in BOOLEAN :
      LET l == IF upgrade THEN level + 1 ELSE level IN
      /\ l <= MaxLevel
      /\ \E done \in {Finish(IF upgrade /\ kind = "yard" THEN Sync(queue, l, now) ELSE queue,
                             l, now)} :
           /\ level' = l
           /\ queue' = IF view /\ kind = "yard" THEN Sync(done.queue, l, now) ELSE done.queue
           /\ book' = Delivered(done)
      /\ UNCHANGED <<kind, now, stock, boosted>>

Paid(amount) == 2 * amount

\* Mutant of Affordable: the debit does not look at what the planet has.
AffordableAny(amount) == TRUE

\* _try_spend_build_resources
Affordable(amount) == Paid(amount) <= stock

\* build_ships, build_defense, enqueue_troop_train
Enqueue(amount) ==
    \E before \in {BeforeMutation} :
      LET id == Len(book) + 1
          job == [id |-> id, amount |-> amount, start |-> now,
                  finish |-> now + Duration(amount, level)] IN
      /\ id <= MaxOrders
      /\ Len(before.queue) < QueueLimit
      /\ Affordable(amount)
      /\ stock' = stock - Paid(amount)
      /\ queue' = RescheduledAfter(Append(before.queue, job), level, now)
      /\ book' = Append(Delivered(before),
                        [size |-> amount, given |-> 0, back |-> 0, fate |-> "open"])
      /\ UNCHANGED <<kind, now, level, boosted>>

\* Mutant of Share: what does not stand first counts as not started.
ShareWhole(q, i) == 2

\* Halves of the price that a cancelled order gives back: the yard looks at
\* its times (refund_ratio_for_job), the barracks at its place.
Share(q, i) ==
    IF kind = "barracks" THEN (IF i = 1 THEN 1 ELSE 2)
    ELSE IF q[i].finish <= now THEN 0
    ELSE IF q[i].start > now THEN 2
    ELSE 1

\* cancel_queue_job, cancel_defense_job, cancel_troop_job
Cancel(id) ==
    \E before \in {BeforeMutation} : \E i \in DOMAIN before.queue :
      LET back == book[id].size * Share(before.queue, i) IN
      /\ before.queue[i].id = id
      /\ stock' = stock + back
      /\ queue' = RescheduledAfter(RemoveAt(before.queue, i), level, now)
      /\ book' = [Delivered(before) EXCEPT ![id].back = back, ![id].fate = "cancelled"]
      /\ UNCHANGED <<kind, now, level, boosted>>

\* move_queue_job, of ships only: two neighbours change places.
Move(i) ==
    /\ kind = "yard"
    /\ i + 1 \in DOMAIN queue
    /\ queue' = Recalculate([queue EXCEPT ![i] = queue[i + 1], ![i + 1] = queue[i]],
                            level, now)
    /\ UNCHANGED <<kind, now, level, book, stock, boosted>>

Shifted(q, seconds) ==
    [i \in DOMAIN q |-> [q[i] EXCEPT !.start = @ - seconds, !.finish = @ - seconds]]

\* apply_timekeeper: finish, synchronise, shift the whole queue by at most
\* what the head still needs, finish again, synchronise again.
Boost(b) ==
    \E before \in {Finish(queue, level, now)} : \E q \in {Sync(before.queue, level, now)} :
      /\ q # <<>>
      /\ \E shift \in {Min({b, q[1].finish - now})} :
           \E done \in {Finish(Shifted(q, shift), level, now)} :
             /\ shift > 0
             /\ boosted + shift <= MaxBoost
             /\ boosted' = boosted + shift
             /\ queue' = Sync(done.queue, level, now)
             /\ book' = Delivered([done EXCEPT !.units =
                                      [o \in DOMAIN book |-> @[o] + before.units[o]]])
      /\ UNCHANGED <<kind, now, level, stock>>

Next ==
    \/ Tick \/ Page
    \/ \E amount \in Amounts : Enqueue(amount)
    \/ \E id \in DOMAIN book : Cancel(id)
    \/ \E i \in DOMAIN queue : Move(i)
    \/ \E b \in Boosts : Boost(b)

Spec == Init /\ [][Next]_vars

-----------------------------------------------------------------------------
Job == [id : 1..MaxOrders, amount : Nat \ {0}, start : Int, finish : Int]

(* Every variable has its type; the planet never owes resources.             *)
TypeOK ==
    /\ kind \in Kinds
    /\ now \in 0..Horizon
    /\ level \in 1..MaxLevel
    /\ queue \in Seq(Job)
    /\ book \in Seq([size : Nat, given : Nat, back : Nat,
                     fate : {"open", "built", "cancelled"}])
    /\ {stock, boosted} \subseteq Nat

(* shipyard_queue.py:113 "Original order size (stable while amount tracks    *)
(* remaining units)": through batches, moves, boosts and upgrades an order   *)
(* delivers and keeps together what was paid for, and all of it in the end.  *)
UnitsAccounted ==
    \A o \in DOMAIN book :
        LET open == {i \in DOMAIN queue : queue[i].id = o} IN
        CASE book[o].fate = "open" ->
                \E i \in open : open = {i} /\ book[o].given + queue[i].amount = book[o].size
          [] book[o].fate = "built" -> open = {} /\ book[o].given = book[o].size
          [] OTHER -> open = {} /\ book[o].given <= book[o].size

SumOver(set, value) == MapThenSumSet(LAMBDA x : value[x], set)

Given == [o \in DOMAIN book |-> book[o].given]

(* DEFENSE_SYSTEM.md:124, QUEUE_STATE_RULES.md:95: units come in batches of  *)
(* the capacity of the building, a batch per cycle, and no faster: however   *)
(* orders are added, moved, cancelled and rescheduled, and whatever is       *)
(* inferred of their past, all that was ever delivered fits in the time that *)
(* has passed or was bought from the Timekeeper. (At the capacity of today:  *)
(* an order that needs as many batches after an upgrade as before keeps its  *)
(* start, and the batches since then count at the new level.)                *)
Throughput == SumOver(DOMAIN book, Given) * Unit <= (now + boosted) * level

(* QUEUE_STATE_RULES.md:38-44, Reschedule After Cancel: the yard is never    *)
(* idle while an order waits: the head has started, and each order starts    *)
(* when the one before it ends. (The barracks are idle after their head is   *)
(* cancelled: the next order keeps its start.)                               *)
NoGaps ==
    kind = "yard" => \A i \in DOMAIN queue :
        IF i = 1 THEN queue[1].start <= now
        ELSE queue[i].start = queue[i - 1].finish

(* queue_refund.py:5 "Pending (not started): 100%": in the barracks an order *)
(* whose price came back whole had delivered nothing. (Ships can be moved.)  *)
WholeRefundUnstarted ==
    kind = "barracks" => \A o \in DOMAIN book :
        book[o].back = 2 * book[o].size => book[o].given = 0

(* A head whose time is over is neither scheduled anew nor thrown away.      *)
KeepsDue ==
    \A i \in {1} \cap DOMAIN queue :
        LET id == queue[i].id IN
        queue[i].finish <= now =>
            \/ book'[id].given = book[id].size
            \/ queue' # <<>> /\ queue'[1] = queue[1]

(* troops.py:442 "Finish-before-mutate", QUEUE_STATE_RULES.md:24: an order   *)
(* of the barracks that is due is delivered by whatever happens next.        *)
TroopsKeepDue == [][kind = "barracks" => KeepsDue]_vars

(* QUEUE_STATE_RULES.md:182 "Cancel handlers must call `finish_due_work`     *)
(* first": so for the yard too.                                              *)
AllKeepDue == [][KeepsDue]_vars
=============================================================================
