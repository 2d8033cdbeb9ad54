# Genesis Colonies: a verification project

Genesis Colonies is a browser strategy game: a Flask application (`app.py`), a
package of game rules (`game/`), a background worker
(`scripts/run_game_worker.py`) and a database that is SQLite in development and
PostgreSQL in production. Almost everything a player does is an order that
takes time. Nothing runs while an order waits; whoever comes by after its
finish time (the worker, a page load, a poll, the next order) finishes it.
That is the core of the program and of this project: **many finishers, one
result, on two databases with different isolation.**

Paths below are relative to the repository (`src/`). The modules are in this
directory; `PROJECT.json` lists components, runs, mutants, the map from
definitions to source lines, findings, hazards and theorems.

## 1. The system

### 1.1 Components, their state and operations

| Component | State | Operations | What makes it correct |
|---|---|---|---|
| Build queue of a planet (`game/buildings.py`, `game/models.py`) | rows of `build_queue`; levels in `planet_buildings`; resources in `planets` | enqueue one level or as many as fit, cancel, recalculate all finish times | one construction slot; windows of the right length; caps count queued orders; paid once, ends once |
| Queue engine (`game/queue_engine.py`) | none of its own; finishes rows of all queues in one pass | `finish_due_work` with one step per queue, each in a savepoint on PostgreSQL | each due job once; a failing step disturbs no other; frozen accounts are skipped |
| Queue refunds (`game/queue_refund.py`) | none | ratio and amount of a refund | between nothing and the price; nothing for a completed job |
| Timekeeper (`game/timekeeper.py`, `game/inventory_use.py`) | balance of seconds and a ledger | credit, boost of one queue domain (shift, finish, debit in one savepoint) | time is gained only against the balance; order of rows kept |
| Vacation mode (`game/options.py`) | `players.vacation_mode_active`, `vacation_locked_until` | enable after counting blockers, disable after the lock | nothing of a frozen account advances |
| Research queue (`game/research.py`) | `research_queue`, `research_levels` of an account | enqueue and cancel from any planet, finish | as the build queue, but account-wide with several planets |
| Unit queues (`shipyard_queue.py`, `shipyard.py`, `defense.py`, `troops.py`) | queue rows that keep what is left, start and finish | enqueue, cancel, move, progressive delivery | no unit delivered twice, refund only for the undelivered |
| Poll claim (`game/queue_poll.py`, `game/runtime_state.py`) | a dictionary per process; a lease row | try to claim the next finish pass of a player | one winner per window; nobody kept away for good |
| Database layer (`game/db.py`, `game/db_pg.py`, `game/sql_pg_rewrite.py`) | transactions; a process-wide write mutex with a depth per thread; one connection and memos per web request on PostgreSQL | begin, commit, rollback, planet and player row locks | mutual exclusion where it is claimed; nothing survives a rollback |
| Queue worker (`game/tick_runner.py`, `game/internal_cron.py`, `scripts/run_game_worker.py`) | heartbeat rows | batches of finish passes over due scopes | every due scope is reached; never blocks a player |
| Action idempotency (`app.py`, `action_idempotency`) | response per request id | look up before, save after an action | a repeated request acts once |
| Fleets (`game/fleet.py`, `game/fleet_worker.py`, `colonize_planet` in `game/planet_evolution/service.py`) | `fleet_movements`, ships and resources of planets, who owns which position | send, arrive, hold, recall, return, found a colony | ships and cargo conserved; a mission takes effect once; slots; everyone comes home |
| Auction house (`game/auction_house.py`) | listings with their leader, bid rows | bid, raise, complete, rotate | stakes come back or lead; one box per listing; a steady number of listings |
| Shop (`game/shop.py`, `game/shop_recovery.py`, `game/shop_promos.py`, operator scripts) | orders, payment events, repairs, creators' commissions | checkout, payment event, return page, repair, payout | a payment is delivered once, and only a captured one |
| Production (`game/resources.py`) | resource balances and a settlement time | settle production up to a time | no time is credited twice |
| Others | trading, inventory, world boss, games of chance, alliances, rewards, combat, evolution, automatic players, directives, galaxy, ranking, live push, accounts, chat, settings, administration | see `PROJECT.json` | not modelled; the reason is with each |

### 1.2 How they interact

* Every mutation of the queues opens a write transaction, takes the planet row
  (PostgreSQL), runs the finish pass of the planet, and only then looks at the
  rows it wants to change. A rejected request rolls all of it back, the
  finish pass included, and its error response runs another finish pass.
* Pages and polls run a finish pass of their own. On PostgreSQL they do not
  take the planet row first; workers do, and skip a planet they cannot get.
* On SQLite `BEGIN IMMEDIATE` and a process-wide mutex serialise everything
  that writes. On PostgreSQL `BEGIN` takes no lock and each statement sees
  what is committed when it starts (READ COMMITTED).
* Within one web request on PostgreSQL the levels of a planet are answered
  from a memo that writes clear and rollbacks do not.
* A fleet handler claims the next status of its movement with a conditional
  `UPDATE`; colonization calls another component that commits, or rolls back,
  the transaction of its caller.
* PayPal and the buyer report one payment through webhooks, the return page and
  operators, each with an event id of its own.
* A poll must win a claim before it may finish: a dictionary in the process,
  then a lease in the database.

### 1.3 What is hard

Passes of several actors over the same rows (interleaving, atomicity); a step
that fails half way and is swallowed (partial failure); requests that undo the
pass they ran; times that are rewritten by every enqueue and cancel; checks
made before the transaction begins; a due window of a second that could add
up; memos and leases that outlive what they stand for; effects applied before
the claim that entitles to them; sizes inferred from times that other requests
shift. `PROJECT.json` lists 40 such hazards at their lines, with the properties
that watch them, or why none does.

## 2. The modules

| Module | What it models |
|---|---|
| `BuildQueue` | one planet's build queue and every request on it, one iteration of each loop per action, for transactions that do not overlap |
| `BuildContract` | what the player is promised: orders, levels, resources, without rows, times or transactions |
| `MCBuildQueue` | constants of its runs, and a next-state relation without vacation mode |
| `BuildQueueProofs` | proofs of all its safety properties, and that it implements `BuildContract` |
| `QueueFinish` | several transactions finishing one queue, statement by statement, on either database |
| `MCQueueFinish` | constants of its runs |
| `QueueFinishProofs` | proofs of its safety properties |
| `PollClaim` | polls of a player in several processes competing for a lease |
| `MCPollClaim` | constants and symmetries of its runs |
| `PollClaimProofs` | proofs of its safety properties |
| `AuctionHouseProofs`, `ShopOrderProofs`, `UnitQueueProofs`, `FleetProofs` | proofs of the safety properties of the four modules below |
| `SetSums` | sums over finite sets, and induction over numbers, for the proofs |
| `AuctionHouse`, `MCAuctionHouse` | bids, completion and rotation by requests and pages, each transaction in a read and a write step |
| `ShopOrder`, `MCShopOrder` | one shop with PayPal: checkout, every way a payment is reported, delivery, commission and payout |
| `UnitQueue` | the progressive queue of a shipyard (or defense works) or of barracks, with its arithmetic |
| `Fleet`, `MCFleet` | fleets of two players handled by several processes, with exceptions, crashes and repairs |

`BuildQueue` assumes what `QueueFinish` examines (that transactions on one
planet do not overlap): true of SQLite and of workers, enqueues and cancels
among each other on PostgreSQL, not of its pages and polls. `PollClaim` models
the gate in front of the polls' passes, `QueueFinish` the passes. The other
modules have a constant `Postgres`: on SQLite a transaction excludes all others
(`CanBegin`), on PostgreSQL only locks on planets and unique rows do. `UnitQueue`
has none: it is the program on SQLite, where no request overlaps another
(section 2.6 says what overlaps on PostgreSQL).

### 2.1 BuildQueue

`db` is the committed state (resources, Timekeeper balance, levels, rows of
`build_queue`, and a history of all orders); `work` is the uncommitted copy of
the open transaction, `phase` where its handler is. The history of orders is
the only state the program does not have; it is what lets a property say that
an order was paid, refunded and delivered once.

| Code | Actions |
|---|---|
| begin, `lock_planet_for_update`, `now = time.time()` | `Open`, used by `BeginEnqueue`, `BeginCancel`, `BeginFinish`, `BeginBoost`, `BeginVacation` |
| vacation check before the transaction | `AdmitEnqueue` |
| `finish_planet_build_jobs` | `FinishHead` for each due head, `FinishEnd`, `FinishFails` (swallowed exception between two jobs or before the `DELETE`; savepoint on PostgreSQL, none on SQLite), `FinishLosesHead` (on SQLite, after the `DELETE` and before the levels) |
| `recalculate_build_queue_finish_times` | `KeepHead`, `RescheduleRow`, `RescheduleEnd` |
| loop of `queue_build_for_planet` | `PlaceOrder` once per order, `PlaceEnd`, `RejectEnqueue` (rolls back) |
| `cancel_build_job_for_planet` | `CancelJob`, `CancelNotFound` |
| `apply_timekeeper` | `ShiftQueue`, `FinishHead` and `FinishEnd` in phase `"deliver"`, `Debit`, `NothingToBoost` |
| vacation mode | `BeginVacation`, `VacationCheck`, `VacationEnable`, `VacationDisable` |
| commit, crash or exception | `Commit`, `Abort` (between any two actions) |

The exception between `DELETE` and `UPDATE` (`game/queue_engine.py:509-518`) is
swallowed (`:900`) and, without a savepoint, committed: the order is then neither
in the queue nor delivered nor refunded. The history calls it `lost`, and the
properties that cannot hold beside it say so: `QueueHoldsOpenOrders` has no lost
order on PostgreSQL, `WindowFitsTarget` and `ImplementsContract` are of PostgreSQL.

Data are abstracted: one resource for two; the cost of level n is linear (what
matters is that it depends on n); a duration is the larger of the floor and a
linear time divided by one plus the nanofactory level. Time is counted in due
windows (one second in the code), so the floor of ten seconds is `Floor`, with
`Grace < Floor` as an assumption.

### 2.2 QueueFinish

A finisher is a worker, a page, an enqueue or a cancel; each runs again and
again. `tx[f]` is its transaction: the statement it is at, what it has read,
remembered, written, deleted, granted and refunded. `Begin` admits it (one at
a time on SQLite; the planet row on PostgreSQL for those who `Locks`), then
`ReadHead`, `ReadLevels`, `DeleteJob` and `WriteLevels` are the four statements
of one iteration, each visible to others only at `Commit`. `DeriveState` is the
recalculation after a delivery, which takes the planet row late, `DeriveFails`
its swallowed failure, `StepFails` that of the build step: at any statement, with
what was done kept on SQLite (a job deleted and not granted is then in `lost`) and
undone to the savepoint on PostgreSQL. `PlaceOrder`,
`RejectOrder`, `FindJob`, `JobNotFound` and `RemoveJob` are what an enqueue or
cancel does after its pass; a rejected one rolls back and starts the second
pass of its response with the memo it has. `Abort` may strike at any statement:
a lock timeout, a deadlock victim, a dead process. Rows a transaction has
written block other writers (`RowFree`, `LevelsFree`) until it ends.

Times and resources are left to `BuildQueue`: jobs have fixed finish times,
and a new order is not due within the run.

### 2.3 PollClaim

One action per step of `try_claim_poll_due_finish`: the claim in the process,
the read-only peek, the begin, the second look, the write of the lease (which on
PostgreSQL a swallowed lock error may leave out) and failure at any step.
`MaxWait` bounds how long a poll may take. SQLite's busy timeout is 20 s and the
lease 5 s, so the run and the proofs let a poll wait longer than its lease, and
`LeaseExcludes` says what is left then: a poll is admitted by the second look only
when the lease of every other winner is over. It is not what the docstring
promises ("Exactly one winner per player window", `game/queue_poll.py:516`). The
lease counts from the start of a poll, so one that waited writes a lease that has
partly or wholly run out, and a poll that started within that lease wins too. TLC
shows two winners whose windows overlap, on SQLite (section 3.1.1).

### 2.4 AuctionHouse

`actor[a].pc` is where a page or a handler of a bid is. Each transaction is
two actions, what it reads and what it writes, so that on PostgreSQL others
come in between.

| Code | Actions |
|---|---|
| `finish_due_auctions` | `ReadDue`, `GrantAndComplete` (the box first, the row count never looked at) |
| `generate_auction_rotation` | `CountLive`, `InsertListings` |
| `place_bid` | `ReadListing` or `RejectBid`, `WriteBid` (debit, refund of the outbid to the planet of his last bid, listing, bid row) |
| route, `get_idempotent_action`, `save_idempotent_action` | `Receive` (which may repeat a request), `Answer` (saves after the commit) |
| page | `OpenPage` |
| exception, dead process, a refund whose planet is gone (`refund_failed`) | `Fail` |

What a bidder stakes is one resource, each planet an account of its own; boxes
are counted, not opened. A handler is a copy of a request, so that a request
sent twice is two handlers with one id.

### 2.5 ShopOrder

A report is one transaction in two steps, `Read` (resolve the order, look at
its status, capture) and `Write` (`mark_paid`, `fulfill_order`: rewards one
after the other, status, event, commission). `Target` is how the code resolves:
the number that the report carries comes first (`game/shop.py:1806`), then the
PayPal order; a recovery looks for the order the capture is booked on and then
for that of the PayPal order. `ref` is the number a PayPal order carries
(`custom_id`, and `order_id` in the address of the return page). Two checkouts set
it: `Checkout` writes the row here, `CheckoutElsewhere` one on another
installation, or one that did not commit, so that the number means an order made
for another payment, or none. `Deliver` is a webhook for an approval or a capture,
any number of times in any order; `OpenReturn` the page of the buyer with or
without the number (`Shown`), which books an order for a payment it does not find,
and which only continues with an order of the same player; `OpenRepair`
the operator scripts; `MarkByHand` the manual change that the repair script is
there for. `ReadPayout` and `Pay` are the payout of commissions. `RollBack`
may end any of them: the return page commits a failed delivery as `failed`,
everyone else undoes it. PayPal's own state (`created`, `approved`, `captured`)
is external.

### 2.6 UnitQueue

A row keeps the units left, its start and its finish; how many it had, and so
which batches are over, is inferred (`InferTotal`, `ToDeliver`), as in
`shipyard.py`. An action is a whole request: the module is the program on SQLite,
where every pass that is committed and every request begins with `BEGIN
IMMEDIATE`. `Page` is a finish
pass, maybe with an upgrade of the building or the view that synchronises;
`Enqueue`, `Cancel`, `Move` and `Boost` are the requests. `kind` tells the two
variants apart: the barracks finish what is due before they change anything and
reschedule by synchronising, the yard neither. The history `book` has what
each order was, delivered and gave back.

On PostgreSQL requests on these queues do overlap, and none of the properties of
this module is claimed for it. Passes of pages and polls take no planet row
(`game/queue_engine.py:879-884`); two of them read the same row and both write
what is left from their own read (`game/shipyard_queue.py:680-788`,
`game/troops.py:341-384`), so a batch is delivered twice, faster than the building
works. `cancel_troop_job` takes no planet row either (`game/troops.py:527-591`):
it can read an order as waiting while a pass delivers it and pay it back whole.
`enqueue_troop_train` finishes before it locks the planet (`game/troops.py:443-444`):
a head that falls due while it waits is rescheduled and not delivered. Left out on
SQLite too: a pass that raises after units were handed out and before the row is
updated (no savepoint: the units stay and are delivered again); and panels that
run a pass outside a write transaction and are closed without a commit
(`game/live_state.py:1104`, `game/shipyard.py:1117`), whose writes come to nothing.

### 2.7 Fleet

| Code | Actions |
|---|---|
| `validate_fleet_send` before the transaction, `send_fleet` in it | `Validate`, `Launch` |
| `_fleet_due_entries`, `_load_movement_row` | `TakeUp` (the row is read here) |
| `_handle_arrival` and `_handle_attack_arrival` by mission | `Transport`, `Collect`, `Deploy`, `Attack`, `Stay` |
| `_handle_holding_end`, `_handle_expedition_holding_end` | `LeavePost`, `ExpeditionEnds` |
| `colonize_planet`, which commits, and the rest of its handler | `Found`, `UseArk`, `FoundRefused` (which rolls its caller back) |
| `_handle_return`, `recall_fleet_movement` | `Return`, `AskRecall`, `Recall` |
| exceptions, `_fail_outbound_movement`, `_fail_returning_movement` | `AttackBreaks`, `Raise`, `MarkFailed` |
| dead process; `repair_stuck_fleet_arrivals.py` | `Crash`, `RepairStuck` |

`Claims` is the conditional `UPDATE` of a status. There is no clock: any phase
may fall due at any moment, which includes every order of arrival, recall and
return. A battle leaves any number of survivors, may be won by the defenses alone,
and takes any loot that fits if the attacker won. An expedition brings home the
hulls it has left and any it salvaged up to `MaxSalvage`
(`game/expedition_events.py:2090`, `:2268`; `Remaining`); a new colony starts with
a stock of its own (`Founding`, `service.py:845`). Transports go to any player's
planet, since alliances, which allow them, come and go. Histories count how often
a mission took effect, which fleets were recalled or reported, what fights and
arks used up, and what was found: hulls salvaged, finds and founding stocks.

## 3. What the runs show

A run of kind *pass* explores every state of its instance without an error;
each of its properties is shown to depend on the code by a mutant of one
definition (a plausible bug) that violates it under the same constants.

| Run | Question | Instance | Result |
|---|---|---|---|
| `build_queue_safety` | do the rows stay serial, correctly timed, within the caps, equal to the open orders, never faster than time plus boosts, and is every committed request a step of `BuildContract`? | 2 buildings, 3 jobs, queue of 3, batch of 2, boosts of 1 and of all, clock to 4, PostgreSQL savepoints | holds, 678 thousand states |
| `build_queue_liveness` | does every head the clock reaches leave the queue (delivered, or lost by a step that fails half way), do the rows stay the open orders, and does a frozen planet never deliver, with vacation switched on and off? | 2 jobs, clock to 4, SQLite | holds, 232 thousand states |
| `queue_finish_sqlite` | does every job end once (granted, refunded, or lost by a failed step) and every granted level stay? | worker, page, enqueue, cancel on 3 jobs, SQLite | holds, 186 thousand states |
| `poll_claim_sqlite` | does the lease of a winner keep every other poll out, however long polls wait, and is a poll only turned away for a recent other poll? | 5 polls, 4 in one process, lease 3, waits up to 4, clock to 6, SQLite | holds, 3.64 million states up to the order of polls |
| `auction_house_sqlite` | is every stake returned or leading, is one box given, does a repeated request bid once, is the house never overfull? | 2 players with 2 and 1 planets, 3 requests, one of them sent twice, two pages, SQLite | holds, 3.57 million states up to the order of pages |
| `shop_order_sqlite` | are rewards granted once, with the status, for captured money only, is no payment booked on two orders, and is a commission paid once? | 2 payments whose numbers may come from elsewhere, 2 webhooks, a return page, an operator, an admin, one manual mark, SQLite | holds, 1.54 million states up to the order of webhooks |
| `unit_queue` | is what was paid for delivered, no faster than the building works, without gaps, and refunded rightly? | yard and barracks, 3 orders of 1 or 4 units, levels 1 to 3, a stock of 12 at 2 a unit, a boost of 1, clock to 6, SQLite | holds, 141 thousand states |
| `fleet_sqlite` | are ships and cargo conserved, missions effective once, slots and territory right, and does a fleet only move on? | 7 missions, 2 movements, 2 processes, 5 places, a hull salvaged, a founding stock of 1, one exception, crash or repair, SQLite | holds, 2.66 million states up to the order of processes |
| `fleet_ends` | does every fleet come home or fail? | expeditions and colonists, 3 movements, one process, one fault | holds, 175 thousand states |

The properties, and what they are about:

* `SlotSerial`: a committed job does not start before the one ahead is due,
  and finish order is queue order, after every reschedule, early finish,
  failed pass, cancel in the middle and boost.
* `WindowFitsTarget`: the window of a row is that of the level it will deliver
  now, although a cancel ahead of it lowers that level and a nanofactory
  finished ahead of it shortens it. A head in progress may keep a longer one.
  (PostgreSQL: on SQLite a lost head lowers the targets behind it.)
* `WithinCaps`: queued orders count against the caps.
* `QueueHoldsOpenOrders`: the rows are the open orders, in order, at the price
  paid; on PostgreSQL every other order was delivered or cancelled.
* `SlotThroughput`: delivered building time is at most elapsed time plus the
  Timekeeper seconds charged plus one due window per job. This is what keeps
  cancelling, boosting and early finishing from adding up.
* `ImplementsContract`: refinement of `BuildContract` (below), on PostgreSQL.
* `FrozenOnVacation` and `DueIsDelivered`: freeze and liveness.
* `EndsOnce`, `NoLevelLost`: in the queue, or granted once, or refunded once, or
  lost once by a step that failed after its `DELETE`; levels equal grants.
* `LeaseExcludes`, `WinnerNearby`: exclusion, as far as the lease reaches, and its
  converse.
* `StakesConserved`: what a player has on his planets plus what he leads with is
  what he started with: no refund is lost, doubled or sent to a stranger, also
  when he raises his own bid from another planet.
* `BoxForLeader`, `HighestBidLeads`, `RequestBidsOnce`, `TargetKept`: one box for
  the leader of a completed listing, the leader is the highest bidder, a request
  id bids once although its answer is saved later and forgotten, and no more
  live listings than the target although two pages refill at once.
* `RewardsMatchStatus`: `fulfilled` exactly when all rewards were granted once
  (a manual mark excepted), whatever reports come how often in which order.
* `DeliveredIsCaptured`: no delivery for money that was not captured. It is the
  payment booked on the order that counts, which need not be the one the order was
  made for. `OneOrderPerPayment`: the return page's own order does not double that
  of the checkout, and neither id of a payment (its own, that of its capture) is
  booked on two orders. `CommissionPaidOnce`: payouts do not overlap.
* `UnitsAccounted`: delivered and remaining units of an order add up to its size
  although only the remainder is stored. `Throughput`: all units ever delivered
  fit in the time that has passed or was bought, at the capacity of today. `NoGaps`: the yard is never idle while an
  order waits. `WholeRefundUnstarted`: a barracks order that was refunded whole
  has delivered nothing. `TroopsKeepDue`: no request of the barracks throws a
  due head away or starts it again.
* `ShipsConserved`, `CargoConserved`: over hangars or stores, fleets, losses, finds,
  salvage and founding stocks.
  `EffectOnce`: a mission takes effect at most once, and never after its recall.
  `SlotsRespected`, `TerritoryAddsUp`: limits that are checked in one statement
  and used in another. `OnlyOnward`, an action property: a fleet that has ended is
  never touched again, and none goes back to a phase it has left, although stale
  handlers and failure reports name it late, a repair forces fleets home, and an
  ark is used up without a claim (`game/fleet.py:6745`). `EveryFleetEnds`: liveness of all but colonists.

`BuildContract` says that a committed request only: delivers open orders,
oldest first, each raising its building by one; cancels at most one with
nothing, half or all of its price back; places new orders at the price of the
level they will deliver, counting the open ones ahead. The mapping forgets
rows, times and transactions; every other step of `BuildQueue` is a stutter.

### 3.1 Disagreements the runs exhibit

Each of these runs checks one property taken from a document or comment of the
repository, and ends in a counterexample of the code as it is.

| Run | Property | What happens |
|---|---|---|
| `shop_order_postgres` | `RewardsMatchStatus` | PostgreSQL: the webhook and the return page both read the order as pending before either writes; their event ids differ, nothing locks the order, and both grant the rewards |
| `unit_queue_yard` | `AllKeepDue` | an overdue head of the shipyard is given a full new duration by the next enqueue, cancel or move, none of which finishes it first |
| `fleet_colonize` | `ReportedHasArrived` | the refusal inside `colonize_planet` rolls back the claim of its caller, which then commits its failure report: the fleet stays `outbound` and due, holds its slot and is tried again at every pass |

### 3.1.1 Further observations

The passing runs are on SQLite where the code's guarantees differ by database.
Setting `Postgres = TRUE` in the configuration named makes TLC show what the
weaker isolation allows. The documents promise these things of the program and
not of one database, so each row is a disagreement with the text in the last
column, of the same standing as those of section 3.1; three of the kind have runs
of their own there.

| Configuration | Violated on PostgreSQL | How | Promised by |
|---|---|---|---|
| `QueueFinish_sqlite.cfg` | `EndsOnce`, `NoLevelLost` | two pages read the same due head, the second one's `DELETE` finds nothing and it grants the level again (`game/queue_engine.py:509`); a cancel refunds a row that a page has deleted and not committed (`game/buildings.py:2984`); levels remembered before a rollback or before the lock are written back (`game/models.py:1823`, `app.py:12157`) | `docs/QUEUE_STATE_RULES.md` |
| `PollClaim_sqlite.cfg` | `LeaseExcludes` | two polls read the lease before either writes it (`game/queue_poll.py:549`) | `game/queue_poll.py:516` |
| `AuctionHouse_sqlite.cfg` | `StakesConserved`, `BoxForLeader`, `HighestBidLeads`, `RequestBidsOnce`, `TargetKept` | bidders lock their own planets and overwrite each other's bid (`game/auction_house.py:747`); two passes grant the box of one listing (`:533`); two copies of a request look for its id before either saves it; two pages count the live listings before either opens more (`:572`) | `docs/AUCTION_HOUSE.md:45`, `docs/ECONOMY_SYSTEM.md:226-238` |
| `ShopOrder_sqlite.cfg` | `RewardsMatchStatus`, `CommissionPaidOnce` | as in the run `shop_order_postgres`; a webhook delivers and books the commission, and a return page that has read the order before writes "failed" over it; two payouts read the same commissions (`game/shop_promos.py:1117`) | `game/shop.py:1551`, `docs/PAYMENT_SHOP.md` |
| `Fleet_sqlite.cfg` | `EffectOnce`, `ShipsConserved`, `CargoConserved` | an attack is fought on a row that was recalled meanwhile; one whose claim fails keeps its losses and its loot (`game/fleet.py:5010`); the garrison is written back from a stock that another send has changed | `docs/FLEET_SYSTEM.md:394` |
| the same, with one slot for both homes of a player | `SlotsRespected` | two sends count the slots before either launches: each locks only its own planet (`game/fleet.py:569`) | `docs/FLEET_SYSTEM.md` |
| `BuildQueue_liveness.cfg` | `FrozenOnVacation` | an enqueue admitted before vacation begins commits after it; a pass that has read the flag before delivers (`game/buildings.py:2613`) | |

On SQLite, or on both:

* **Two winners of a poll window.** With the constants of `PollClaim_sqlite.cfg`
  TLC violates "two winners start at least a lease apart": a poll that starts at 0
  waits for the write lock and wins at 2 with a lease until 3; one of another
  process that started at 2 passes the second look at 3 and wins. It takes a wait
  of half a lease; with `MaxWait = 1` and a lease of 3 it holds. The busy timeout
  (20 s) is four leases, so `game/queue_poll.py:516` ("Exactly one winner per
  player window") is not kept on SQLite either. `LeaseExcludes` is what is.
* **A job lost half way.** The exception between `game/queue_engine.py:509` and
  `:518` on SQLite (section 2.1): no level, no refund, no row.
* **One captured payment, two orders.** A PayPal order from a checkout elsewhere
  carries the number of an order here. Its approval webhook delivers the order of
  that number and books the PayPal order's own id on it; its return page, opened
  without the number, finds no order of that PayPal order, makes one and delivers
  it with the id of the capture. `OneOrderPerPayment` holds (no id is booked twice),
  and `docs/PAYMENT_SHOP.md:130` ("`fulfill_order` once") does not. It needs two
  installations, or a checkout that did not commit, with overlapping numbers.

Met while reading, and not exhibited by a run:

* `Throughput` counts at the capacity of today, not at that of each second: an
  order of the yard or the barracks that needs as many batches after an upgrade
  as before keeps its start, and the batches since then count at the new
  capacity (`game/shipyard.py:355`). The narrower bound, capacity summed over
  time, holds in small instances and is violated in the one this run uses.
* a job whose finish step failed is overdue; a cancel deletes it with a refund
  of nothing (`game/queue_refund.py:25`). `BuildContract` allows it.
* after the head of the barracks is cancelled the next order keeps its start
  (`game/troops.py:584`), so the building idles; `NoGaps` is stated of the yard.
* an upgrade of the yard reschedules an overdue head before it is finished
  (`game/queue_engine.py:580`).
* a partly delivered ship order that is moved back counts as not started and is
  refunded whole; `WholeRefundUnstarted` is stated of the barracks.
* an expedition of which nothing remains keeps all its ships
  (`game/fleet.py:7053`), and its finds replace its cargo (`:7060`).
* a process that dies between founding a colony and using up the ark leaves
  both (`game/fleet.py:6736`).
* a return handler that raises marks the fleet as failed, and its ships are
  under no planet and no fleet under way; they are counted by `ShipsConserved`
  where the row still has them.
* a commission whose credit raises is lost: the exception is swallowed and the
  order is fulfilled (`game/shop.py:1655`).

### 3.2 Bounds, and why they are enough

The bounds are named. `Horizon` stops the clock, `MaxJobs` the orders ever
placed; `AdmitEnqueue` keeps one request between check and transaction. With
three jobs there is a head, a middle and a tail, so cancels ahead, behind and
in the middle differ. The buildings are a mine of up to three levels, whose
orders raise each other's targets, and a nanofactory that needs the mine and
shortens the rest. Base times 1 and 2 against a floor of 2 make the floor,
the speed-up and the level each matter. Metal of 5 or 6 runs out in some
behaviours. A boost may ask for 1 or for more than there is. Vacation and
liveness need a head, one row behind it and one request in flight, so their run
has two jobs. `QueueFinish` has two jobs of one building with another between
them, two due at once and one a unit later, and a due window of 1: the clock
need move once. `PollClaim` runs
for two leases, with waits longer than one.

In `AuctionHouse` the first player bids twice, once with a request that arrives
twice, and may raise from his other planet, which can pay a raise and not the
whole bid; the second outbids either of his bids. A clock to 1
with listings of length 1 is enough for a listing to end under a bidder who has
read it; `ActiveTarget` 1, `MaxListings` 3 and two pages leave room for an
overfull house: without mutual exclusion two refills meet and overfill it.
`ShopOrder` has a payment with and one without a creator's code, two units per
order so that the second may fail, and room for two orders, which two payments
need and a doubled order would fill; the number of a payment from elsewhere may be
that of the other payment's order, of its own, or of one not yet made. `UnitQueue` has batches of two time
steps, three levels, orders smaller and larger than a batch at every level, and
three orders for two places. `Fleet` needs two movements for a race (two arks to one
position, two sends of the last slot, fleets that attack each other's home) and
one fault, after which the second attempt of the same handler is explored; its
liveness run has three movements so that two fleets that will not come home
stand before one that must.

Polls in one process are interchangeable, which the
symmetry sets use, as are the processes of `Fleet`, the pages of `AuctionHouse` and
the webhooks of `ShopOrder`; no temporal property is
checked under symmetry.

`CHECK_DEADLOCK FALSE` is set where the program may come to rest: all polls
answered, an empty queue, every request answered, every payment delivered, the
clock or the number of movements at its bound.

### 3.3 Fairness

`DueIsDelivered` is checked under `FairSpec`: the clock goes on; an open
transaction takes its next step or is rolled back; a worker's pass begins again
and again, whoever else opens transactions (strong fairness: the worker waits
for the planet with retries, and the internal cron and the heartbeat loop of
`scripts/run_game_worker.py` never stop); and faults of the worker's own passes
(an abort, or a swallowed failure) end some day. Nothing is assumed of players:
they may enqueue, cancel, be rejected, roll back and go on vacation for ever (the
property asks for delivery unless vacation begins, and asks again once it ends). Without the last
assumption the property is false, and rightly: a pass that always fails never
delivers.

`EveryFleetEnds` is checked under `Fleet!FairSpec`. A pass takes the due
movements in the order in which they fell due and leaves what is beyond its
budget to the next pass (`_process_fleet_tick_short_tx`), and the worker runs
pass after pass: every movement is taken up again and again as long as some
process can, which is strong fairness of `TakeUp` for each movement, since
processes come and go. An open transaction goes on (weak fairness); exceptions,
crashes and repairs are bounded in number by `MaxFaults`. Nothing obliges a
player to send or recall. A budget smaller than the number of movements that
never leave the queue (see `fleet_colonize`) would break the first assumption;
the model has no budget.

Safety runs use no fairness.

## 4. What is proved

TLC explores the instances above; the theorems hold for every value of the
constants that satisfies the named assumptions: any number of actors, jobs,
planets, listings, orders, levels and any horizon.

| Module | Theorems (property) | Hypothesis |
|---|---|---|
| `BuildQueueProofs` | `TypeCorrect`, `OneSlot` (`SlotSerial`), `NeverAboveCaps` (`WithinCaps`), `BooksBalance` (`QueueHoldsOpenOrders`), `NoFasterThanTime` (`SlotThroughput`) | |
| | `PostgresWindowsFit` (`WindowFitsTarget`), `PostgresKeepsContract` (`ImplementsContract`: the refinement) | PostgreSQL |
| | `SqliteFrozenOnVacation` (`FrozenOnVacation`) | SQLite |
| `QueueFinishProofs` | `TypeCorrect` | |
| | `SqliteEndsOnce` (`EndsOnce`), `SqliteNoLevelLost` (`NoLevelLost`) | SQLite |
| `PollClaimProofs` | `TypeCorrect`, `LoserHasWinner` (`WinnerNearby`) | |
| | `SqliteLeaseExcludes` (`LeaseExcludes`) | SQLite |
| `AuctionHouseProofs` | `TypeCorrect` | |
| | `SqliteStakesConserved`, `SqliteBoxForLeader`, `SqliteHighestBidLeads`, `SqliteRequestBidsOnce`, `SqliteTargetKept` | SQLite |
| `ShopOrderProofs` | `TypeCorrect`, `DeliveryAfterCapture` (`DeliveredIsCaptured`), `OneOrder` (`OneOrderPerPayment`) | |
| | `SqliteRewardsMatch` (`RewardsMatchStatus`), `SqliteCommissionPaidOnce` | SQLite |
| `UnitQueueProofs` | `TypeCorrect`, `SqliteOrdersDeliverInFull` (`UnitsAccounted`), `SqliteYardNeverIdle` (`NoGaps`), `SqliteNoPaidBackTroops` (`WholeRefundUnstarted`), `SqliteDueTroopsDelivered` (`TroopsKeepDue`), `SqliteNoFasterThanTime` (`Throughput`) | the module is the program on SQLite |
| `FleetProofs` | `TypeCorrect`, `NeverBack` (`OnlyOnward`, an action property) | |
| | `SqliteShipsConserved`, `SqliteCargoConserved`, `SqliteEffectOnce`, `SqliteSlotsRespected`, `SqliteTerritoryAddsUp` | SQLite |
| `SetSums` | `SumAfter`, `SumTakeOut`: lemmas on sums the conservation laws rest on | |

"SQLite" is the hypothesis `~Postgres` ("PostgreSQL" its opposite; what a savepoint
undoes there stays on SQLite). It is not there for convenience: each of
the properties proved for SQLite but one is violated when `Postgres = TRUE` (section
3.1.1; `UnitQueue` has no such constant, section 2.6), since
there a transaction may begin between the read and the write of another. The
exception is `TerritoryAddsUp`: founding is one step of the model, while the limit
of colonies is checked under no lock on PostgreSQL
(`game/planet_evolution/service.py:801`), so a proof for that database would say
more than the code keeps. What the proofs
take from SQLite is one clause, that at most one transaction is open
(`OneWriter`, `OneOpen`, `OneRunner`), from which it follows that what a
transaction has read still holds when it writes.

### 4.1 The inductive invariants

None of the properties is inductive by itself. What each proof adds, and why:

**BuildQueue.** `TypeInv` adds to `TypeOK` that a request fits the phase (an
enqueue in `"place"`, a cancel in `"refund"`), without which `req.job` has no
value. `SerialInv` says that `work` is serial outside the reschedule loop and
that within it the rows before `idx` are serial among themselves and end at
`at`, while those from `idx` on are about to be rewritten. `RowsInv` is `Good(db)
/\ Good(work)`: rows and open orders agree and no cap is exceeded, in the
committed state as well as in the transaction, which a rollback may drop at any
step, whose swallowed failure may have cost an order on SQLite and none on
PostgreSQL (`NoneLost`). `WindowInv` says of which rows the window is already that of their level
(`Passed`). `PaceInv` relates the history to the clock: what is delivered plus
what the head still needs fits in the time up to its finish, with a due window
for every job delivered, in `db` and (with the seconds shifted and not yet
debited) in `work`. `FrozenInv` is that the flag a transaction has read is the
one committed, and that a frozen transaction raises no level.

For the refinement (`PostgresKeepsContract`), `AccountInv` relates `db` and `work`:
`Settles(db, work)` says that the orders the open transaction has placed,
delivered and cancelled so far account for the levels and the metal it has
changed, that it delivered the oldest first, cancelled at most one, and placed
each at the price of the level it will deliver by then. It holds after every
single action of a handler, not only at the end, so a `Commit` at any of them is
a step of the contract and a rollback a stutter. `Stage` says when nothing has
been placed and nothing cancelled yet: deliveries lower no price only because
they come before the placing, and a cancel lowers that of no placed order because
one request does not do both. The lemmas count: the open orders are as many as
the rows (`OpenAreQueued`, a bijection), which gives the queue limit of the
contract, and those of one building ahead of an order are what its price was
computed from. `ContractSums` and `ContractCounts` equate the sums and counts of
the instance with those of `SetSums`; the final `CommitSettles` reads each
conjunct of `Settle` through the mapping `Account`.

`OneSlot` is where `Grace < Floor` is needed: a head that is kept because it is
due may have up to `Grace` left, and the next row starts at once; only a
duration of at least `Floor` keeps their finish times apart.

**QueueFinish.** `FinishInv` says of the open transaction what it has deleted and
granted, paid back or, on a failure between the two, lost at each statement
(`Accounts`), and that the levels it sees, remembered
or read, are those granted so far by itself and before (`LevelsAdd`): that is
what makes a memo harmless on SQLite.

**PollClaim.** `ClaimInv`: the
lease covers every winner whose own has not run out (`LeaseCovers`), whoever is
about to write was admitted after the leases of all winners (`AdmittedAfter`),
and one poll writes at a time (`OneWriter`). Nothing is assumed of the waits, since
the code bounds them by a busy timeout of four leases only; that is why what is proved
is that nobody is admitted within a winner's lease, and not that winners start a
lease apart (section 3.1.1). `NearInv` (both databases): polls in flight are
within their wait (`InTime`), a lease belongs to a winner, an entry of a process's dictionary to a poll that
holds it or answered for it, and a poll was turned away by one or the other. The
chain from a loser to a winner has at most two links, which is why the bound of
`WinnerNearby` is two leases.

**AuctionHouse.** `TypeInv` holds on both databases because a bid pays under the
lock of the planet it pays from. `HouseInv`: what a page or bid has read is
still so when it writes (`AllFresh`); a leader's bid is what his request offered
and tops the others (`AllLed`). `StakesInv` is an equation between sums over the
planets of a player and over the listings he leads.

**ShopOrder.** On both databases `PaymentsInv`: what an order is booked on, and
what stands behind a paid one, is captured (`AllCovered`), and a reporter that
writes has a captured payment (`AllBacked`), though not that of the order it names.
No two orders are made for one PayPal order or booked on one payment
(`OneOfEach`); that is what the two ids of a payment are for, since the number in a
webhook may book a foreign order on the PayPal order's id while its return page
makes an order booked on the capture's. On PostgreSQL nothing keeps two return
pages from both finding no order before either makes one; the second is stopped by
the event of the recovery, which is unique. `RecoveriesMeetSealed` says why it is
enough: an order made by a recovery is fulfilled at once and stays booked on its
capture (`Sealed`), so that whatever a slower recovery meets, it has been there
before. That nothing is granted for orders yet to come (`NothingGrantedYet`) is what
a new order needs. On SQLite `ShopInv`: one transaction is open (`OneWriter`), it
still sees the status it read (`WriterIsFresh`), a repair is still due
(`RepairIsDue`), and grants follow the status (`GrantsMatch`). `CommissionInv`: a
row of the ledger belongs to a delivered order and is marked paid with its one
payout; a payout in progress holds only rows it may pay.

**UnitQueue.** `Inv` is `TypeOK`, `Accounted` and, of the yard, `Busy`.
`Accounted` says what a row tells of its order (`RowsTell`: delivered and left
make the size, no two rows of one order), when something was given back
(`BackTells`), and for the barracks that only the head has delivered anything
(`FirstOnly`), without which a cancelled row further back would be refunded whole
with troops delivered. The rest is about the operators: `ProgressType` (what is
to be delivered of a row never exceeds what is left, whatever its times let the
code infer), `ChainIs`, `RestAre` and `CompletedIs` (the recursive functions
have the values their recursion asks for), and `FinishIs`, which says what a pass
does in terms of the first row it does not complete.

`Throughput` needs a second invariant on top of `Inv`, `OnPace`: what was
delivered so far, `G`, had its time until now (`Enough`); the rows follow each
other with their durations (`Follows`); and of the head (`HeadPace`) some `s`
units were delivered since its start, the rest of `G` having had the time before
it. `s` is where the code's inference comes in (`Since`). Either it is 0 and the
row has all the time its units take; or what is left fits one batch, and `s` is
no more than the batches the code infers from the length of the row. The
inference may be wrong about the order, but it is never below what was delivered
(`KeptBatches`: rescheduling a last batch does not lose batches; `PartIsBatches`:
what is delivered of a row and leaves some is a number of full batches). From it
follows that a head that is complete had its time (`DoneInTime`), that one that
is cancelled leaves its successor in time (`HeadEnds`), and that one that
delivers a part goes on in time (`PartialPace`).

**Fleet.** The types rest on `WellInv` on both databases, which says little of
what a handler has read, since that may be out of date: a row of its fleet as it
once was (`Knows`), whose cargo fits its ships. That no store falls below zero is
the work of the planet lock: a send's origin keeps what the send will take, and no
other send has the same origin (`Stocked`); every step that lowers a store needs
the lock. Hulls are checked again when they are taken, and a garrison is written as
an amount and not as a difference: that loses ships on PostgreSQL (section 3.1.1),
and is why none is ever negative. `Room` counts the sends under way, whose fleets
must fit the bound. `OnlyOnward` holds on both databases too, since a claim compares
the status the row has when it is written and not the one that was read. Two steps
need more, and `LandInv` says what: while an ark is in use its row is on its way
home, before its time, and nobody else uses it (`Ashore`); a handler of a return
is about a fleet past its mission whose ark nobody is using (`Homeward`). Every
step then appends a row or moves one onward (`Shifts`), and every process keeps
its turn (`Turns`). TLC finds no violation of it with `Postgres = TRUE` either
(attacks and colonists only, no salvage and no founding stock: 5.58 million states). On SQLite `FleetInv`: a handler that runs has read its row as it is (`HasRead`), a
send has checked what it will take (`CanSend`), between claim and use of an ark
nobody touches its row (`HasLanded`), a failure report is about a row that may
still be failed (`HasFailed`), and a mission still to come has had no effect
(`Undone`). `Conserved` is about sums over places and fleets.

### 4.2 How sums, loops and recursion are handled

The library's induction theorems cannot be instantiated with the provers at
hand. Induction is done by hand instead: over numbers from the least
counterexample (`LeastNatural`, `Induct` in `SetSums`), over finite sets from
a minimal one (strict inclusion is well founded on a finite set). So the fold
behind the sums is shown to satisfy its recursion (`SumTakeOut`), and a
recursive function of a model is shown to exist before its defining equation is
used (`EndsExist`, `RestExists` in `UnitQueueProofs`).

### 4.3 What the proofs changed

* `Throughput` of `UnitQueue` was stated with the capacity summed over time. The
  attempt to prove it failed at an upgrade, TLC found the counterexample with
  a third level, and the property now says what the code keeps (section 3.1.1).
* `AfterFinish` of `BuildQueue` (where a request goes after its pass) had two
  overlapping cases: TLC takes the first, TLA+ either. They are disjoint now.
* The windows and the contract of `BuildQueue` do not hold on SQLite: there a
  failure between the row and the level is committed, and the job is lost.
* The fleets and auctions need finitely many places and planets, and a home
  within the limit of colonies; these are assumptions of the modules now
  (`FleetAssumption`, `AuctionAssumption`) and evaluated by the runs.

Assumptions are those the modules declare by name (`BuildingsAssumption`,
`LimitsAssumption`, `TimesAssumption`, `BackendAssumption`,
`FinishersAssumption`, `JobsAssumption`, `ConstantsAssumption`,
`AuctionAssumption`, `ShopAssumption`, `UnitAssumption`, `FleetAssumption`).

### 4.4 Only model-checked

Liveness under fairness, which is outside the prover: `DueIsDelivered` and
`EveryFleetEnds`. Every safety property of a passing run, the action properties
and the refinement are stated by a theorem, those marked SQLite above for that
database only; section 3.1.1 lists what TLC finds violated on PostgreSQL.

## 5. What is not modelled, and why

Within the modelled components:

* rounding of boosts to whole seconds, float times, the exact-integer columns;
* the evolution ruleset's caps and price factors, and the settlement of
  production at a completion time inside the finish pass;
* activity points, directives, scores and notifications written by the pass;
* deduplication of finish scopes within one request;
* vacation mode set on PostgreSQL while a pass that has read the flag is under
  way: `FrozenOnVacation` is checked on SQLite, where the two cannot overlap;
* row locks beyond the planet row, job rows and level row in `QueueFinish`;
  which transaction a deadlock kills (any may abort at any time instead);
* administrators editing a queue by hand; several planets of an account;
* Timekeeper credits and the other queue domains;
* the auction house's log of visits, the contents of its boxes, all but one
  resource, and the removal of a deleted account's bids (`game/options.py`);
* Stripe and the test provider, refunds of payments, carts, the catalogue, who
  qualifies for a commission and when it may be paid out;
* the unit queues on PostgreSQL, where pages, polls and `cancel_troop_job` take no
  planet lock and two passes may overlap (section 2.6); passes that raise after
  they handed out units; panels that finish and do not commit;
* costs and requirements of units, population, planetary effects of defenses,
  live parameters of a batch other than the level of the building;
* what the defenses of a target take from an attacker, other than that a battle may
  be lost;
* fuel, travel time, cargo limits by hull, batch sends; recycling, asteroids and
  debris, espionage, troops and vault raids, world keys, pirate bases and the
  world boss as targets; the bounce of targets on vacation; deletion of planets;
  the variant of the pass that keeps one transaction with savepoints.

Components without a module are listed in `PROJECT.json` with the reason:
planned (section 6), pure simulation or formatting, or external services.

## 6. Plan

Done: `BuildQueue` with its contract and proofs, `QueueFinish`, `PollClaim` with
proofs, `AuctionHouse` (with the look-up and save of request ids), `ShopOrder`,
`UnitQueue`, `Fleet`. Left, most important behaviour first:

1. `WriteMutex`: the process mutex with its depth per thread against
   connections that begin, fail to begin, and roll back without having begun.
   Promise: `Lock`, at most one holder and no release by another.
2. `ResearchQueue`: an account-wide queue fed from several planets, whose
   finish step has no player lock on PostgreSQL; includes the scope dedup.
3. World boss: hit points shared by all players and claims of its rewards.

Theorems next: those of the three modules above, each placed beside the proofs of
the component it is closest to; and, of the laws of conservation proved for SQLite,
which parts survive on PostgreSQL (of fleets that no battle meets, say). The types
of every module, and payments, orders and captures, are proved there already.
