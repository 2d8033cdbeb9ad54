----------------------------- MODULE BuildQueue -----------------------------
(***************************************************************************)
(* The build queue of one planet (game/buildings.py, the build step of     *)
(* game/queue_engine.py, game/queue_refund.py) and the requests that       *)
(* change it: enqueue one level or as many as fit, cancel, a finish pass   *)
(* of a worker or of a page, a Timekeeper boost, and vacation mode, which  *)
(* freezes the finish pass.                                                *)
(*                                                                         *)
(* Every request runs in a write transaction on `work', its uncommitted    *)
(* copy of the rows in `db'.  Transactions on one planet do not overlap    *)
(* (BEGIN IMMEDIATE on SQLite, the planet row lock on PostgreSQL); the     *)
(* finishers that take no planet lock on PostgreSQL are in QueueFinish.    *)
(* Each loop of a handler is an action that does one iteration, so a       *)
(* failure or a crash can come between any two of them.                    *)
(***************************************************************************)
EXTENDS Integers, Sequences, FiniteSets, FiniteSetsExt

CONSTANTS
    Buildings,      \* building types
    Nanofactory,    \* the building whose level shortens build times
    MaxLevel,       \* level cap of each building
    BaseCost,       \* cost of level n is BaseCost * n
    BaseTime,       \* time of level n is BaseTime * n, before the speed-up
    Requires,       \* Requires[b][c]: level of c needed to order b
    QueueLimit,     \* game setting queue_limit
    MaxBatch,       \* the 64 orders one "max" request places at most
    Floor,          \* shortest build time (10 s in the code)
    Grace,          \* a job is due Grace before its finish (1 s in the code)
    VacationMin,    \* shortest vacation
    Postgres,       \* TRUE on the PostgreSQL backend, FALSE on SQLite
    InitialMetal,   \* resources at the start
    InitialTk,      \* Timekeeper seconds at the start
    BoostAsks,      \* seconds a boost may ask for
    Horizon,        \* bound: the clock stops here
    MaxJobs         \* bound: orders ever placed

ASSUME BuildingsAssumption ==
    /\ Nanofactory \in Buildings
    /\ MaxLevel \in [Buildings -> Nat]
    /\ BaseCost \in [Buildings -> Nat]
    /\ BaseTime \in [Buildings -> Nat]
    /\ Requires \in [Buildings -> [Buildings -> Nat]]

ASSUME LimitsAssumption ==
    /\ QueueLimit \in Nat \ {0}
    /\ MaxBatch \in Nat \ {0}
    /\ InitialMetal \in Nat
    /\ InitialTk \in Nat
    /\ BoostAsks \subseteq Nat
    /\ Horizon \in Nat
    /\ MaxJobs \in Nat

ASSUME TimesAssumption ==
    /\ Grace \in Nat
    /\ Floor \in Nat
    /\ Grace < Floor
    /\ VacationMin \in Nat

ASSUME BackendAssumption == Postgres \in BOOLEAN

VARIABLES
    clock,          \* wall clock, in units of the due window
    vacation,       \* players.vacation_mode_active
    lockedUntil,    \* players.vacation_locked_until
    vacationStep,   \* how far a request to enable vacation has come
    admitted,       \* enqueue requests past the vacation check, before BEGIN
    db,             \* committed rows
    phase,          \* where the open transaction is, "idle" when none is
    req,            \* the request the open transaction serves
    now,            \* time.time() as the transaction read it
    frozen,         \* the vacation flag as its finish pass read it
    work,           \* uncommitted rows
    idx,            \* row the reschedule loop is at
    at,             \* schedule_at of the reschedule loop
    left,           \* iterations left of the enqueue loop
    owed            \* Timekeeper seconds shifted and not yet debited

vars == <<clock, vacation, lockedUntil, vacationStep, admitted, db, phase,
          req, now, frozen, work, idx, at, left, owed>>

txVars == <<phase, req, now, frozen, work, idx, at, left, owed>>
accountVars == <<vacation, lockedUntil, vacationStep, admitted>>

-----------------------------------------------------------------------------
(* Rows. A job is a row of build_queue; `orders' is a history of every job *)
(* ever inserted, indexed by its id: what was paid for it, what came back, *)
(* the length of the window it was delivered in, and how it ended.         *)

Job == [id : Nat, building : Buildings, start : Int, finish : Int, cost : Nat]

Order == [building : Buildings, paid : Nat, back : Nat, took : Int,
          state : {"open", "delivered", "cancelled", "lost"}]

Rows == [metal : Nat, tk : Nat, level : [Buildings -> Nat],
         queue : Seq(Job), orders : Seq(Order)]

EnqueueRequest == [kind : {"enqueue"}, building : Buildings, max : BOOLEAN]

Request ==
    [kind : {"none", "finish", "vacation"}]
        \cup EnqueueRequest
        \cup [kind : {"cancel"}, job : Nat]
        \cup [kind : {"boost"}, seconds : Nat]

NoRequest == [kind |-> "none"]

Phases == {"idle", "finish", "reschedule", "place", "refund", "shift",
           "deliver", "debit", "commit"}

-----------------------------------------------------------------------------
(* Operators of the code. *)

Larger(a, b) == IF a >= b THEN a ELSE b

Smaller(a, b) == IF a <= b THEN a ELSE b

Smallest(a, b, c) == Smaller(a, Smaller(b, c))

\* Rows of the same building among the first n of the queue.
QueuedSame(queue, b, n) == Cardinality({i \in 1..n : queue[i].building = b})

\* Mutant of DueCutoff: the early-finish window is applied twice.
DueCutoffTwice(t) == t + 2 * Grace

\* due_cutoff_ts: a job is due when its finish is at or below this.
DueCutoff(t) == t + Grace

CostOf(b, target) == BaseCost[b] * target

Duration(b, target, speed) ==
    Larger(Floor, (BaseTime[b] * target) \div (1 + speed))

\* refund_ratio_for_job and scaled_refund_amount: nothing for a completed
\* job, all of it for one not started, half for one in progress.
Refund(job, t) ==
    IF job.finish <= t THEN 0
    ELSE IF job.start > t THEN job.cost
    ELSE job.cost \div 2

HasRequirements(level, b) == \A c \in Buildings : level[c] >= Requires[b][c]

\* Mutant of Drop: off by one, the row behind k goes.
DropBehind(queue, k) ==
    [i \in 1..(Len(queue) - 1) |-> IF i <= k THEN queue[i] ELSE queue[i + 1]]

\* delete_build_job: the other rows keep their order.
Drop(queue, k) ==
    [i \in 1..(Len(queue) - 1) |-> IF i < k THEN queue[i] ELSE queue[i + 1]]

PositionOf(queue, id) == {i \in 1..Len(queue) : queue[i].id = id}

-----------------------------------------------------------------------------
Init ==
    /\ clock = 0
    /\ vacation = FALSE
    /\ lockedUntil = 0
    /\ vacationStep = "idle"
    /\ admitted = {}
    /\ db = [metal |-> InitialMetal, tk |-> InitialTk,
             level |-> [b \in Buildings |-> 0],
             queue |-> << >>, orders |-> << >>]
    /\ phase = "idle"
    /\ req = NoRequest
    /\ now = 0
    /\ frozen = FALSE
    /\ work = db
    /\ idx = 1
    /\ at = 0
    /\ left = 0
    /\ owed = 0

Tick ==
    /\ clock < Horizon
    /\ clock' = clock + 1
    /\ UNCHANGED <<accountVars, db, txVars>>

-----------------------------------------------------------------------------
(* Opening and closing the transaction. *)

\* The end of every transaction: its local variables are forgotten.
Close(rows) ==
    /\ phase' = "idle"
    /\ req' = NoRequest
    /\ work' = rows
    /\ now' = 0
    /\ frozen' = FALSE
    /\ idx' = 1
    /\ at' = 0
    /\ left' = 0
    /\ owed' = 0

\* Mutant of Open: the finish pass does not look at vacation mode.
OpenUnfrozen(r) ==
    /\ phase = "idle"
    /\ phase' = "finish"
    /\ req' = r
    /\ now' = clock
    /\ frozen' = FALSE
    /\ at' = clock
    /\ UNCHANGED <<work, idx, left, owed>>

\* begin_write_transaction, lock_planet_for_update, now = time.time().
Open(r) ==
    /\ phase = "idle"
    /\ phase' = "finish"
    /\ req' = r
    /\ now' = clock
    /\ frozen' = vacation
    /\ at' = clock
    /\ UNCHANGED <<work, idx, left, owed>>

\* queue_build_for_planet up to the vacation check: it reads the flag before
\* its transaction begins. Bound: one request is between the two.
AdmitEnqueue(r) ==
    /\ ~vacation
    /\ admitted = {}
    /\ admitted' = {r}
    /\ UNCHANGED <<clock, vacation, lockedUntil, vacationStep, db, txVars>>

BeginEnqueue(r) ==
    /\ r \in admitted
    /\ Len(db.orders) + (IF r.max THEN MaxBatch ELSE 1) <= MaxJobs
    /\ Open(r)
    /\ admitted' = admitted \ {r}
    /\ UNCHANGED <<clock, vacation, lockedUntil, vacationStep, db>>

BeginCancel(id) ==
    /\ Open([kind |-> "cancel", job |-> id])
    /\ UNCHANGED <<clock, accountVars, db>>

\* A worker tick, a page or a poll that finishes due work.
BeginFinish ==
    /\ Open([kind |-> "finish"])
    /\ UNCHANGED <<clock, accountVars, db>>

BeginBoost(s) ==
    /\ db.tk > 0
    /\ Open([kind |-> "boost", seconds |-> s])
    /\ UNCHANGED <<clock, accountVars, db>>

Commit ==
    /\ phase = "commit"
    /\ db' = work
    /\ vacationStep' = IF req.kind = "vacation" THEN "finished" ELSE vacationStep
    /\ Close(work)
    /\ UNCHANGED <<clock, vacation, lockedUntil, admitted>>

\* An exception in the handler, a lost connection or a dead process: the
\* transaction is rolled back.
Abort ==
    /\ phase # "idle"
    /\ vacationStep' = IF req.kind = "vacation" THEN "idle" ELSE vacationStep
    /\ Close(db)
    /\ UNCHANGED <<clock, vacation, lockedUntil, admitted, db>>

-----------------------------------------------------------------------------
(* The finish pass (finish_due_work, finish_planet_build_jobs). *)

HeadIsDue == work.queue # << >> /\ work.queue[1].finish <= DueCutoff(now)

\* Where the handler goes on after its finish pass.
AfterFinish ==
    IF phase = "deliver" THEN "debit"
    ELSE CASE req.kind = "enqueue"  -> "reschedule"
           [] req.kind = "cancel"   -> "refund"
           [] req.kind = "boost"    -> "shift"
           [] OTHER                 -> "commit"

\* One iteration of the loop: the head is deleted and its level granted. An
\* exception between the two statements is FinishLosesHead.
FinishHead ==
    /\ phase \in {"finish", "deliver"}
    /\ ~frozen
    /\ HeadIsDue
    /\ LET job == work.queue[1] IN
         work' = [work EXCEPT
                    !.level[job.building] = @ + 1,
                    !.queue = Tail(@),
                    !.orders[job.id] = [@ EXCEPT !.state = "delivered",
                                                 !.took = job.finish - job.start]]
    /\ UNCHANGED <<clock, accountVars, db, phase, req, now, frozen, idx, at,
                   left, owed>>

\* The loop ends at a head that is not due; a frozen account skips it.
FinishEnd ==
    /\ phase \in {"finish", "deliver"}
    /\ frozen \/ ~HeadIsDue
    /\ phase' = AfterFinish
    /\ UNCHANGED <<clock, accountVars, db, req, now, frozen, work, idx, at, left, owed>>

\* Mutant of FinishFails: the rows stay deleted and the levels are lost.
FinishLosesLevels ==
    /\ phase = "finish"
    /\ req.kind # "boost"
    /\ ~frozen
    /\ HeadIsDue
    /\ phase' = AfterFinish
    /\ work' = [work EXCEPT !.level = db.level]
    /\ UNCHANGED <<clock, accountVars, db, req, now, frozen, idx, at, left, owed>>

\* An exception inside the build step is swallowed by finish_due_work, which
\* goes on. PostgreSQL rolls the step back to its savepoint; SQLite has none
\* and keeps what was done so far, here whole iterations. A boost checks the
\* result and gives up (Abort).
FinishFails ==
    /\ phase = "finish"
    /\ req.kind # "boost"
    /\ ~frozen
    /\ HeadIsDue
    /\ phase' = AfterFinish
    /\ work' = IF Postgres THEN db ELSE work
    /\ UNCHANGED <<clock, accountVars, db, req, now, frozen, idx, at, left, owed>>

\* On SQLite the exception may also come after delete_build_job and before
\* the UPDATE of the levels: the head is gone, its level is not granted.
FinishLosesHead ==
    /\ ~Postgres
    /\ phase = "finish"
    /\ req.kind # "boost"
    /\ ~frozen
    /\ HeadIsDue
    /\ phase' = AfterFinish
    /\ work' = [work EXCEPT !.queue = Tail(@),
                            !.orders[work.queue[1].id] = [@ EXCEPT !.state = "lost"]]
    /\ UNCHANGED <<clock, accountVars, db, req, now, frozen, idx, at, left, owed>>

-----------------------------------------------------------------------------
(* recalculate_build_queue_finish_times, one row at a time. *)

TargetAt(queue, level, i) ==
    level[queue[i].building] + QueuedSame(queue, queue[i].building, i - 1) + 1

\* Mutant of KeepsWindow: an overdue head gets its full duration again.
KeepsWindowUntilDue ==
    /\ idx = 1
    /\ work.queue[1].start <= now /\ now < work.queue[1].finish

\* The head keeps its window when it is due or in progress.
KeepsWindow ==
    /\ idx = 1
    /\ \/ work.queue[1].finish <= DueCutoff(now)
       \/ work.queue[1].start <= now /\ now < work.queue[1].finish

\* Mutant of KeepHead: the next row starts now, whatever the head has left.
KeepHeadFromNow ==
    /\ phase = "reschedule"
    /\ idx <= Len(work.queue)
    /\ KeepsWindow
    /\ at' = now
    /\ idx' = idx + 1
    /\ UNCHANGED <<clock, accountVars, db, phase, req, now, frozen, work, left, owed>>

KeepHead ==
    /\ phase = "reschedule"
    /\ idx <= Len(work.queue)
    /\ KeepsWindow
    /\ at' = IF work.queue[1].finish <= DueCutoff(now)
             THEN now
             ELSE work.queue[1].finish
    /\ idx' = idx + 1
    /\ UNCHANGED <<clock, accountVars, db, phase, req, now, frozen, work, left, owed>>

RescheduleRow ==
    /\ phase = "reschedule"
    /\ idx <= Len(work.queue)
    /\ ~KeepsWindow
    /\ LET finish == at + Duration(work.queue[idx].building,
                                   TargetAt(work.queue, work.level, idx),
                                   work.level[Nanofactory]) IN
         /\ work' = [work EXCEPT !.queue[idx] =
                        [@ EXCEPT !.start = at, !.finish = finish]]
         /\ at' = finish
    /\ idx' = idx + 1
    /\ UNCHANGED <<clock, accountVars, db, phase, req, now, frozen, left, owed>>

\* Attempts of the enqueue loop: 1, or what fits for a "max" request.
Attempts ==
    LET b == req.building
        n == Len(work.queue)
        headroom == MaxLevel[b] - (work.level[b] + QueuedSame(work.queue, b, n))
    IN IF req.max THEN Larger(0, Smallest(MaxBatch, QueueLimit - n, headroom)) ELSE 1

RescheduleEnd ==
    /\ phase = "reschedule"
    /\ idx > Len(work.queue)
    /\ \/ req.kind = "enqueue" /\ phase' = "place" /\ left' = Attempts
       \/ req.kind = "cancel" /\ phase' = "commit" /\ left' = left
    /\ UNCHANGED <<clock, accountVars, db, req, now, frozen, work, idx, at, owed>>

-----------------------------------------------------------------------------
(* The enqueue loop of queue_build_for_planet. *)

\* Mutant of NextTarget: orders in the queue are not counted.
NextTargetOfLevel == work.level[req.building] + 1

\* The level an order placed now will deliver.
NextTarget ==
    work.level[req.building]
        + QueuedSame(work.queue, req.building, Len(work.queue)) + 1

CanPlace ==
    /\ left > 0
    /\ NextTarget <= MaxLevel[req.building]
    /\ HasRequirements(work.level, req.building)
    /\ work.metal >= CostOf(req.building, NextTarget)
    /\ Len(work.queue) < QueueLimit

PlaceOrder ==
    /\ phase = "place"
    /\ CanPlace
    /\ LET n == Len(work.queue)
           cost == CostOf(req.building, NextTarget)
           start == IF n = 0 THEN now ELSE Larger(now, work.queue[n].finish)
           finish == start + Duration(req.building, NextTarget,
                                      work.level[Nanofactory])
           job == [id |-> Len(work.orders) + 1, building |-> req.building,
                   start |-> start, finish |-> finish, cost |-> cost]
           order == [building |-> req.building, paid |-> cost, back |-> 0,
                     took |-> 0, state |-> "open"]
       IN work' = [work EXCEPT !.metal = @ - cost,
                               !.queue = Append(@, job),
                               !.orders = Append(@, order)]
    /\ left' = left - 1
    /\ UNCHANGED <<clock, accountVars, db, phase, req, now, frozen, idx, at, owed>>

\* The loop stopped after at least one order.
PlaceEnd ==
    /\ phase = "place"
    /\ ~CanPlace
    /\ Len(work.orders) > Len(db.orders)
    /\ phase' = "commit"
    /\ UNCHANGED <<clock, accountVars, db, req, now, frozen, work, idx, at, left, owed>>

\* No order was placed: rollback, which undoes the finish pass as well.
RejectEnqueue ==
    /\ phase = "place"
    /\ ~CanPlace
    /\ Len(work.orders) = Len(db.orders)
    /\ Close(db)
    /\ UNCHANGED <<clock, accountVars, db>>

-----------------------------------------------------------------------------
(* cancel_build_job_for_planet. *)

\* Mutant of CancelJob: the rows behind are not rescheduled.
CancelKeepsTimes ==
    /\ phase = "refund"
    /\ \E k \in PositionOf(work.queue, req.job) :
         LET back == Refund(work.queue[k], now) IN
         work' = [work EXCEPT !.metal = @ + back,
                              !.queue = Drop(@, k),
                              !.orders[req.job] = [@ EXCEPT !.back = back,
                                                            !.state = "cancelled"]]
    /\ phase' = "commit"
    /\ UNCHANGED <<clock, accountVars, db, req, now, frozen, idx, at, left, owed>>

CancelJob ==
    /\ phase = "refund"
    /\ \E k \in PositionOf(work.queue, req.job) :
         LET back == Refund(work.queue[k], now) IN
         work' = [work EXCEPT !.metal = @ + back,
                              !.queue = Drop(@, k),
                              !.orders[req.job] = [@ EXCEPT !.back = back,
                                                            !.state = "cancelled"]]
    /\ phase' = "reschedule"
    /\ UNCHANGED <<clock, accountVars, db, req, now, frozen, idx, at, left, owed>>

CancelNotFound ==
    /\ phase = "refund"
    /\ PositionOf(work.queue, req.job) = {}
    /\ Close(db)
    /\ UNCHANGED <<clock, accountVars, db>>

-----------------------------------------------------------------------------
(* apply_timekeeper for the build domain. *)

\* _resolve_apply_seconds: the balance, the rest of the head and the request
\* bound the boost.
BoostSeconds ==
    IF work.queue = << >> \/ work.queue[1].finish <= now THEN 0
    ELSE Smallest(work.tk, work.queue[1].finish - now, req.seconds)

\* _shift_queue_times moves every row by as much as the head.
Shifted(queue, seconds) ==
    [i \in 1..Len(queue) |-> [queue[i] EXCEPT !.start = @ - seconds,
                                              !.finish = @ - seconds]]

\* The boost moves the queue; a head that becomes due is delivered
\* before the debit, with the time read again.
ShiftQueue ==
    /\ phase = "shift"
    /\ BoostSeconds > 0
    /\ work' = [work EXCEPT !.queue = Shifted(@, BoostSeconds)]
    /\ owed' = BoostSeconds
    /\ phase' = IF work.queue[1].finish - BoostSeconds <= DueCutoff(clock)
                THEN "deliver" ELSE "debit"
    /\ now' = clock
    /\ frozen' = vacation
    /\ UNCHANGED <<clock, accountVars, db, req, idx, at, left>>

\* no_queue, no_effect: the route rolls the request back.
NothingToBoost ==
    /\ phase = "shift"
    /\ BoostSeconds <= 0
    /\ Close(db)
    /\ UNCHANGED <<clock, accountVars, db>>

\* Mutant of Debit: the seconds asked for are charged, not the seconds used.
DebitAsked ==
    /\ phase = "debit"
    /\ work' = [work EXCEPT !.tk = @ - req.seconds]
    /\ phase' = "commit"
    /\ UNCHANGED <<clock, accountVars, db, req, now, frozen, idx, at, left, owed>>

\* debit: the guarded UPDATE of the balance.
Debit ==
    /\ phase = "debit"
    /\ work.tk >= owed
    /\ work' = [work EXCEPT !.tk = @ - owed]
    /\ phase' = "commit"
    /\ UNCHANGED <<clock, accountVars, db, req, now, frozen, idx, at, left, owed>>

-----------------------------------------------------------------------------
(* enable_vacation_mode and disable_vacation_mode. Enabling runs a finish  *)
(* pass in a transaction of its own, then counts the open jobs, then sets  *)
(* the flag in another transaction.                                        *)

BeginVacation ==
    /\ vacationStep = "idle"
    /\ Open([kind |-> "vacation"])
    /\ vacationStep' = "finishing"
    /\ UNCHANGED <<clock, vacation, lockedUntil, admitted, db>>

VacationCheck ==
    /\ vacationStep = "finished"
    /\ vacationStep' = IF db.queue = << >> /\ ~vacation THEN "clear" ELSE "idle"
    /\ UNCHANGED <<clock, vacation, lockedUntil, admitted, db, txVars>>

\* players is not locked by a request on a planet; SQLite has one writer.
PlayerRowFree == Postgres \/ phase = "idle"

VacationEnable ==
    /\ vacationStep = "clear"
    /\ PlayerRowFree
    /\ vacation' = TRUE
    /\ lockedUntil' = clock + VacationMin
    /\ vacationStep' = "idle"
    /\ UNCHANGED <<clock, admitted, db, txVars>>

VacationDisable ==
    /\ vacation
    /\ lockedUntil <= clock
    /\ PlayerRowFree
    /\ vacation' = FALSE
    /\ lockedUntil' = 0
    /\ UNCHANGED <<clock, vacationStep, admitted, db, txVars>>

-----------------------------------------------------------------------------
FinishPass == FinishHead \/ FinishEnd \/ FinishFails \/ FinishLosesHead

Transaction ==
    \/ FinishPass
    \/ KeepHead \/ RescheduleRow \/ RescheduleEnd
    \/ PlaceOrder \/ PlaceEnd \/ RejectEnqueue
    \/ CancelJob \/ CancelNotFound
    \/ ShiftQueue \/ NothingToBoost \/ Debit
    \/ Commit

Requests ==
    \/ \E r \in EnqueueRequest : AdmitEnqueue(r) \/ BeginEnqueue(r)
    \/ \E id \in 1..MaxJobs : BeginCancel(id)
    \/ BeginFinish
    \/ \E s \in BoostAsks : BeginBoost(s)
    \/ BeginVacation \/ VacationCheck \/ VacationEnable \/ VacationDisable

Next == Tick \/ Requests \/ Transaction \/ Abort

Spec == Init /\ [][Next]_vars

(***************************************************************************)
(* Fairness of the liveness property: time passes; a transaction goes on   *)
(* or is rolled back; the queue worker runs again and again                *)
(* (scripts/run_game_worker.py, the internal cron); and whatever makes its *)
(* passes fail or abort ends some day.  The rollback of a pass that has    *)
(* changed nothing is also its commit, and no fault.                       *)
(***************************************************************************)
WorkerFault == req.kind = "finish" /\ (Abort \/ FinishFails \/ FinishLosesHead) /\ ~Commit

Fairness ==
    /\ WF_vars(Tick)
    /\ WF_vars(Transaction)
    /\ SF_vars(BeginFinish)
    /\ <>[][~WorkerFault]_vars

FairSpec == Spec /\ Fairness

-----------------------------------------------------------------------------
(* Properties. *)

(* Every variable has its type. *)
TypeOK ==
    /\ clock \in Nat
    /\ vacation \in BOOLEAN
    /\ lockedUntil \in Nat
    /\ vacationStep \in {"idle", "finishing", "finished", "clear"}
    /\ admitted \in SUBSET EnqueueRequest
    /\ db \in Rows
    /\ phase \in Phases
    /\ req \in Request
    /\ now \in Nat
    /\ frozen \in BOOLEAN
    /\ work \in Rows
    /\ idx \in Nat \ {0}
    /\ at \in Int
    /\ left \in Int
    /\ owed \in Nat

Follows(job, next) ==
    /\ job.finish - Grace <= next.start
    /\ job.finish < next.finish

Serial(queue) == \A i \in 1..(Len(queue) - 1) : Follows(queue[i], queue[i + 1])

(* The planet has one construction slot: a committed job does not start      *)
(* before the one ahead of it is due, and the rows are in finish order, the  *)
(* order get_build_queue_rows reads them in. Reschedules, early finishes,    *)
(* failed finish passes, cancels in the middle and boosts all move windows.  *)
SlotSerial == Serial(db.queue)

(* On PostgreSQL every committed job holds the slot exactly as long as the   *)
(* level it will deliver takes, at a speed the planet has had: a cancel that *)
(* lowers the target of the jobs behind it also shortens their windows. Only *)
(* a head already in progress may keep the longer window of a higher level.  *)
(* On SQLite a lost head lowers the targets behind it as well, and a page    *)
(* commits that without a reschedule.                                        *)
WindowFitsTarget ==
    \A i \in 1..Len(db.queue) :
        LET job == db.queue[i]
            target == TargetAt(db.queue, db.level, i)
        IN \E t \in target..(IF i = 1 THEN MaxLevel[job.building] ELSE target),
              speed \in 0..db.level[Nanofactory] :
             job.finish - job.start = Duration(job.building, t, speed)

(* Orders in the queue count: the queue never exceeds its limit, and no      *)
(* building can come out above its cap, whatever is finished or cancelled    *)
(* between the orders and in whatever order.                                 *)
WithinCaps ==
    /\ Len(db.queue) <= QueueLimit
    /\ \A b \in Buildings :
         db.level[b] + QueuedSame(db.queue, b, Len(db.queue)) <= MaxLevel[b]

OrdersIn(state) == {i \in 1..Len(db.orders) : db.orders[i].state = state}

(* The queue holds exactly the open orders, oldest first, each with the      *)
(* price paid for it, so that a refund is computed from what was paid. An    *)
(* order that is neither open nor delivered nor cancelled has lost its row   *)
(* to a step that failed half way, which PostgreSQL rolls back.              *)
QueueHoldsOpenOrders ==
    /\ {db.queue[i].id : i \in 1..Len(db.queue)} = OrdersIn("open")
    /\ \A i \in 1..Len(db.queue) :
         /\ db.queue[i].cost = db.orders[db.queue[i].id].paid
         /\ i > 1 => db.queue[i - 1].id < db.queue[i].id
    /\ Postgres => OrdersIn("lost") = {}

\* The orders as the player sees them.
Account(orders) ==
    [i \in 1..Len(orders) |->
        [building |-> orders[i].building, paid |-> orders[i].paid,
         back |-> orders[i].back, state |-> orders[i].state]]

(* What the rows mean to the player, whatever requests, failures and         *)
(* rollbacks led to them.                                                    *)
Contract == INSTANCE BuildContract WITH
    orders <- Account(db.orders),
    level <- db.level,
    metal <- db.metal

(* On PostgreSQL every order is paid once, at the price of the level it      *)
(* delivers, and ends once: delivered oldest first, or cancelled with at     *)
(* most its price back.                                                      *)
ImplementsContract == Contract!Spec

SumOver(set, value) == MapThenSumSet(LAMBDA x : value[x], set)

(* The slot delivers no more building time than has passed, beyond the       *)
(* seconds the Timekeeper was charged for and one due window per job: no     *)
(* sequence of reschedules, cancels and boosts builds faster than that.      *)
SlotThroughput ==
    SumOver(OrdersIn("delivered"),
            [i \in 1..Len(db.orders) |-> db.orders[i].took - Grace])
        <= clock + (InitialTk - db.tk)

(* A planet of an account on vacation delivers nothing, although vacation   *)
(* begins while orders are open and a finish pass may be half way through.   *)
FrozenOnVacation == [][vacation /\ vacation' => db'.level = db.level]_vars

IsOpen(id) == id \in {db.queue[i].id : i \in 1..Len(db.queue)}

HeadEndsInTime(id) ==
    /\ db.queue # << >>
    /\ db.queue[1].id = id
    /\ db.queue[1].finish <= Horizon

(* The head of the queue leaves it once the clock reaches its finish, unless *)
(* the account is on vacation: failed passes, aborted transactions, requests *)
(* that roll the finish pass back and reschedules neither keep nor revive    *)
(* it. A head that FinishLosesHead drops has left the queue too.             *)
DueIsDelivered ==
    \A id \in 1..MaxJobs : HeadEndsInTime(id) ~> (~IsOpen(id) \/ vacation)
=============================================================================
