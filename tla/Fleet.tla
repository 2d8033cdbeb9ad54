------------------------------- MODULE Fleet -------------------------------
(***************************************************************************)
(* Fleet movements (game/fleet.py): sending, recall, arrival, stay and     *)
(* return, handled by any of several processes: the fleet worker and the   *)
(* requests of players who are online.                                     *)
(*                                                                         *)
(* A movement is a row whose status only moves outbound -> holding ->      *)
(* returning -> completed, or to failed. Each handler is a transaction of  *)
(* its own that reads the row, applies the mission, and claims the next    *)
(* status by a conditional UPDATE; some apply first and claim afterwards.  *)
(* SQLite: BEGIN IMMEDIATE, one transaction at a time.  PostgreSQL: no     *)
(* lock but those on planet rows, so the row that was read may be stale.   *)
(*                                                                         *)
(* There is no clock: any phase may fall due at any moment. One hull, one  *)
(* resource, no fuel.                                                      *)
(***************************************************************************)
EXTENDS Integers, Sequences, FiniteSets, FiniteSetsExt

CONSTANTS
    Players,
    Nobody,         \* the owner of a free position
    Places,         \* coordinates that have a planet or may get one
    Space,          \* where expeditions go
    Home,           \* who owns which place at the start
    Ships0, Stock0, \* what is there at the start
    Procs,          \* processes that handle movements and requests
    Missions,       \* the missions players choose
    MaxSlots,       \* fleets each player may have under way
    MaxColonies,    \* planets a player may own
    MaxLoot,        \* what an expedition loads at most
    MaxSalvage,     \* hulls an expedition finds at most
    Founding,       \* what a new colony has in store
    Postgres,       \* TRUE on PostgreSQL, FALSE on SQLite
    MaxSends,       \* bound: movements
    MaxFaults       \* bound: exceptions, crashes and repairs

Ids == 1..MaxSends

ASSUME FleetAssumption ==
    /\ Nobody \notin Players /\ Space \notin Places /\ IsFiniteSet(Places)
    /\ Home \in [Places -> Players \cup {Nobody}]
    /\ \A u \in Players : Cardinality({q \in Places : Home[q] = u}) <= MaxColonies
    /\ Ships0 \in [Places -> Nat] /\ Stock0 \in [Places -> Nat]
    /\ \A q \in Places : Home[q] = Nobody => Stock0[q] = 0
    /\ MaxSlots \in [Players -> Nat]
    /\ {MaxColonies, MaxLoot, MaxSalvage, Founding, MaxSends, MaxFaults} \subseteq Nat
    /\ Missions \subseteq {"transport", "collect", "deploy", "attack",
                           "hold", "expedition", "colonize"}
    /\ Postgres \in BOOLEAN

VARIABLES
    owner,          \* committed planets: whose each place is
    ships,          \* committed planet_ships
    stock,          \* committed resources
    mv,             \* committed fleet_movements, by id
    tx,             \* of each process: what it is doing
    acted,          \* history: how often each mission took effect
    reported,       \* history: the fleets whose arrival was reported
    recalled,       \* history: the fleets called back
    gone,           \* history: ships and cargo that fights and arks used up
    found,          \* history: what expeditions and new colonies brought in
    faults

vars == <<owner, ships, stock, mv, tx, acted, reported, recalled, gone, found, faults>>

Planets == <<owner, ships, stock>>
Counts == <<acted, reported, recalled, gone, found>>

NoMove == [player |-> Nobody, from |-> Space, to |-> Space, mission |-> "none",
           status |-> "none", ships |-> 0, cargo |-> 0]

NoTx == [pc |-> "idle",
         kind |-> "none",   \* "send", "recall", or the status it resolves
         id |-> 0,          \* the movement
         row |-> NoMove,    \* the row it read
         seen |-> 0]        \* the ships it read at the target

Init ==
    /\ owner = Home /\ ships = Ships0 /\ stock = Stock0
    /\ mv = <<>>
    /\ tx = [p \in Procs |-> NoTx]
    /\ acted = [m \in Ids |-> 0]
    /\ reported = {} /\ recalled = {}
    /\ gone = [ships |-> 0, cargo |-> 0]
    /\ found = [ships |-> 0, cargo |-> 0]
    /\ faults = 0

-----------------------------------------------------------------------------
Active == {"outbound", "holding", "returning"}

\* count_active_fleet_slots
UnderWay(u) == Cardinality({m \in DOMAIN mv : mv[m].player = u /\ mv[m].status \in Active})

Owned(u) == Cardinality({q \in Places : owner[q] = u})

\* begin_write_transaction
CanBegin == Postgres \/ \A q \in Procs : tx[q].pc # "run"

\* lock_planet_for_update: a send holds its origin until it commits.
Unlocked(place) ==
    \A q \in Procs : tx[q].pc = "run" /\ tx[q].kind = "send" => tx[q].row.from # place

Idle(p) == tx[p].pc = "idle" /\ CanBegin

Begins(p, kind, id, row, seen) ==
    tx' = [tx EXCEPT ![p] = [pc |-> "run", kind |-> kind, id |-> id, row |-> row, seen |-> seen]]

\* What follows the transaction of a handler.
Continues(p, pc) ==
    tx' = [tx EXCEPT ![p] = [pc |-> pc, kind |-> @.kind, id |-> @.id, row |-> @.row, seen |-> @.seen]]

Quit(p) == tx' = [tx EXCEPT ![p] = NoTx]

\* Mutant of Claims: the UPDATE has no condition on the status.
ClaimsAny(m, from) == m \in DOMAIN mv

\* _claim_movement_status: whether the row still has a status to move from.
Claims(m, from) == mv[m].status \in from

\* What a completed fleet carried is not read again.
Moved(m, status, n, c) ==
    [mv EXCEPT ![m] = [player |-> @.player, from |-> @.from, to |-> @.to,
                       mission |-> @.mission, status |-> status, ships |-> n, cargo |-> c]]

Turned(m, status) == Moved(m, status, mv[m].ships, mv[m].cargo)

Bump(f, m) == [f EXCEPT ![m] = @ + 1]

UseUp(n, c) == gone' = [ships |-> gone.ships + n, cargo |-> gone.cargo + c]

BringIn(n, c) == found' = [ships |-> found.ships + n, cargo |-> found.cargo + c]

Min2(a, b) == IF a < b THEN a ELSE b

-----------------------------------------------------------------------------
(* Sending. *)

\* evaluate_fleet_mission_target, _colonize_fleet_target. Alliances come and
\* go: another's planet may be an ally's at one send and not at the next.
Targets(u, mission) ==
    CASE mission \in {"collect", "deploy"} -> {q \in Places : owner[q] = u}
      [] mission = "transport" -> {q \in Places : owner[q] \in Players}
      [] mission \in {"attack", "hold"} -> {q \in Places : owner[q] \in Players \ {u}}
      [] mission = "expedition" -> {Space}
      [] mission = "colonize" ->
            {q \in Places : owner[q] = Nobody /\ Owned(u) < MaxColonies}

\* Mutant of SlotFree: the new fleet is not counted.
SlotFreeOneMore(u) == UnderWay(u) <= MaxSlots[u]

\* get_fleet_slot_status
SlotFree(u) == UnderWay(u) < MaxSlots[u]

\* validate_fleet_send: each ship carries one unit; an ark carries nothing.
Validate(p) ==
    /\ Idle(p)
    /\ Len(mv) + Cardinality({q \in Procs : tx[q].kind = "send"}) < MaxSends
    /\ \E from \in Places, mission \in Missions :
         LET u == owner[from] IN
         /\ u # Nobody /\ Unlocked(from)
         /\ SlotFree(u)
         /\ \E to \in Targets(u, mission) \ {from}, n \in 1..ships[from], c \in 0..stock[from] :
              /\ c <= n
              /\ mission = "colonize" => c = 0
              /\ Begins(p, "send", 0,
                        [player |-> u, from |-> from, to |-> to, mission |-> mission,
                         status |-> "outbound", ships |-> n, cargo |-> c], 0)
    /\ UNCHANGED <<Planets, mv, Counts, faults>>

\* deduct_planet_ships
Debited(row) == ships' = [ships EXCEPT ![row.from] = @ - row.ships]

\* send_fleet
Launch(p) ==
    /\ tx[p].pc = "run" /\ tx[p].kind = "send"
    /\ LET row == tx[p].row IN
       IF ships[row.from] < row.ships
       THEN UNCHANGED <<ships, stock, mv>>
       ELSE /\ Debited(row)
            /\ stock' = [stock EXCEPT ![row.from] = @ - row.cargo]
            /\ mv' = Append(mv, row)
    /\ Quit(p)
    /\ UNCHANGED <<owner, Counts, faults>>

-----------------------------------------------------------------------------
(* The passes over due movements. *)

\* An ark that was just used is not home before its handler goes on.
Landing(m) == \E q \in Procs : tx[q].pc = "ark" /\ tx[q].id = m

\* Mutant of TakeUp: the pass has no batch of fleets that hold.
TakeUpMoving(p, m) ==
    /\ Idle(p)
    /\ mv[m].status \in {"outbound", "returning"} /\ ~Landing(m)
    /\ Begins(p, mv[m].status, m, mv[m], 0)
    /\ UNCHANGED <<Planets, mv, Counts, faults>>

\* _load_movement_row, and the target of an attack (_target_planet_snapshot)
TakeUp(p, m) ==
    /\ Idle(p)
    /\ mv[m].status \in Active /\ ~Landing(m)
    /\ Begins(p, mv[m].status, m, mv[m],
              IF mv[m].mission = "attack" THEN ships[mv[m].to] ELSE 0)
    /\ UNCHANGED <<Planets, mv, Counts, faults>>

Resolves(p, status, missions) ==
    tx[p].pc = "run" /\ tx[p].kind = status /\ tx[p].row.mission \in missions

\* Mutant of Delivered: what was delivered stays aboard.
DeliveredKeeps(row) == row.cargo

\* The cargo left after delivery (resources_json = {}).
Delivered(row) == 0

\* _handle_arrival, transport: credit, claim, and debit again if that fails.
Transport(p) ==
    LET row == tx[p].row  m == tx[p].id IN
    /\ Resolves(p, "outbound", {"transport"})
    /\ Unlocked(row.to)
    /\ IF Claims(m, {"outbound"})
       THEN /\ stock' = [stock EXCEPT ![row.to] = @ + row.cargo]
            /\ mv' = Moved(m, "returning", row.ships, Delivered(row))
            /\ acted' = Bump(acted, m) /\ reported' = reported \cup {m}
       ELSE UNCHANGED <<stock, mv, acted, reported>>
    /\ Quit(p)
    /\ UNCHANGED <<owner, ships, recalled, gone, found, faults>>

\* Mutant of Load: the fleet is filled whatever is there.
LoadFull(row) == row.ships - row.cargo

\* _calculate_collect_load: only from a planet that is still the player's own.
Load(row) ==
    IF owner[row.to] = row.player THEN Min2(stock[row.to], row.ships - row.cargo) ELSE 0

\* _handle_arrival, collect: debit, claim, and credit again if that fails.
Collect(p) ==
    LET row == tx[p].row  m == tx[p].id IN
    /\ Resolves(p, "outbound", {"collect"})
    /\ Unlocked(row.to)
    /\ IF Claims(m, {"outbound"})
       THEN /\ stock' = [stock EXCEPT ![row.to] = @ - Load(row)]
            /\ mv' = Moved(m, "returning", row.ships, row.cargo + Load(row))
            /\ acted' = Bump(acted, m) /\ reported' = reported \cup {m}
       ELSE UNCHANGED <<stock, mv, acted, reported>>
    /\ Quit(p)
    /\ UNCHANGED <<owner, ships, recalled, gone, found, faults>>

\* _handle_arrival, deploy
Deploy(p) ==
    LET row == tx[p].row  m == tx[p].id IN
    /\ Resolves(p, "outbound", {"deploy"})
    /\ Unlocked(row.to)
    /\ IF Claims(m, {"outbound"})
       THEN /\ mv' = Moved(m, "completed", 0, 0)
            /\ stock' = [stock EXCEPT ![row.to] = @ + row.cargo]
            /\ ships' = [ships EXCEPT ![row.to] = @ + row.ships]
            /\ acted' = Bump(acted, m) /\ reported' = reported \cup {m}
       ELSE UNCHANGED <<ships, stock, mv, acted, reported>>
    /\ Quit(p)
    /\ UNCHANGED <<owner, recalled, gone, found, faults>>

\* What is left of n attackers and of d ships that defend. The defenses of a
\* planet, which are not modelled, may win without a ship.
Battles(n, d) ==
    {b \in [left : 0..n, held : 0..d, won : BOOLEAN] : b.won => b.left > 0 /\ b.held = 0}

\* apply_combat_loot: half of the stock, as far as the survivors can carry it.
Loot(row, b) ==
    IF b.won
    THEN Max({0, Min2(stock[row.to] \div 2, b.left - row.cargo)}) ELSE 0

\* Mutant of Garrison: the fleet writes the defenders it met.
GarrisonUntouched(row, seen, b) == [ships EXCEPT ![row.to] = seen]

\* _apply_attack_combat_to_planet: an absolute amount, from what was read.
Garrison(row, seen, b) == [ships EXCEPT ![row.to] = b.held]

\* _handle_attack_arrival: the fight and the loot come before the claim, and
\* are committed when it fails too.
Attack(p) ==
    LET row == tx[p].row  m == tx[p].id IN
    /\ Resolves(p, "outbound", {"attack"})
    /\ Unlocked(row.to)
    /\ \E b \in Battles(row.ships, tx[p].seen) :
         LET loot == Loot(row, b)  claimed == Claims(m, {"outbound"}) IN
         /\ ships' = Garrison(row, tx[p].seen, b)
         /\ stock' = [stock EXCEPT ![row.to] = @ - loot]
         /\ acted' = Bump(acted, m)
         /\ UseUp(tx[p].seen - b.held + (IF claimed THEN row.ships - b.left ELSE 0), 0)
         /\ IF claimed
            THEN /\ mv' = Moved(m, "returning", b.left, row.cargo + loot)
                 /\ reported' = reported \cup {m}
            ELSE UNCHANGED <<mv, reported>>
    /\ Quit(p)
    /\ UNCHANGED <<owner, recalled, found, faults>>

\* Mutant of Broken: the fleet stays where it is, for the next pass.
BrokenRetries(m) == mv' = mv

\* _fail_outbound_movement, called by the attack's own exception handler.
Broken(m) == mv' = Turned(m, "failed")

\* An exception in between: what was done is committed, the fleet fails.
AttackBreaks(p) ==
    LET row == tx[p].row  m == tx[p].id IN
    /\ Resolves(p, "outbound", {"attack"})
    /\ faults < MaxFaults
    /\ Unlocked(row.to)
    /\ Claims(m, {"outbound"})
    /\ \E b \in Battles(row.ships, tx[p].seen) :
         \E loot \in {0, Loot(row, b)} :
            /\ ships' = Garrison(row, tx[p].seen, b)
            /\ stock' = [stock EXCEPT ![row.to] = @ - loot]
            /\ UseUp(tx[p].seen - b.held, loot)
    /\ Broken(m)
    /\ acted' = Bump(acted, m)
    /\ faults' = faults + 1
    /\ Quit(p)
    /\ UNCHANGED <<owner, reported, recalled, found>>

\* _handle_arrival, expedition and hold
Stay(p) ==
    LET m == tx[p].id IN
    /\ Resolves(p, "outbound", {"expedition", "hold"})
    /\ IF Claims(m, {"outbound"})
       THEN /\ mv' = Turned(m, "holding")
            /\ reported' = IF tx[p].row.mission = "hold" THEN reported \cup {m} ELSE reported
       ELSE UNCHANGED <<mv, reported>>
    /\ Quit(p)
    /\ UNCHANGED <<Planets, acted, recalled, gone, found, faults>>

\* _handle_holding_end of a hold (_start_return)
LeavePost(p) ==
    LET row == tx[p].row  m == tx[p].id IN
    /\ Resolves(p, "holding", {"hold"})
    /\ mv' = IF Claims(m, {"outbound", "holding"})
             THEN Moved(m, "returning", row.ships, row.cargo) ELSE mv
    /\ Quit(p)
    /\ UNCHANGED <<Planets, Counts, faults>>

\* What an expedition brings home: the hulls left and those it found; one of
\* which nothing remains keeps its ships (if remaining_ships).
Remaining(row, left, salvage) ==
    IF left + salvage > 0 THEN left + salvage ELSE row.ships

\* _handle_expedition_holding_end: the row is locked and its status read again
\* before anything happens. The finds replace the cargo.
ExpeditionEnds(p) ==
    LET row == tx[p].row  m == tx[p].id IN
    /\ Resolves(p, "holding", {"expedition"})
    /\ IF Claims(m, {"holding"})
       THEN \E left \in 0..row.ships, salvage \in 0..MaxSalvage,
               loot \in 0..Min2(MaxLoot, row.ships) :
              /\ mv' = Moved(m, "returning", Remaining(row, left, salvage), loot)
              /\ UseUp(IF left + salvage > 0 THEN row.ships - left ELSE 0, row.cargo)
              /\ BringIn(salvage, loot)
              /\ acted' = Bump(acted, m) /\ reported' = reported \cup {m}
       ELSE UNCHANGED <<mv, gone, found, acted, reported>>
    /\ Quit(p)
    /\ UNCHANGED <<Planets, recalled, faults>>

\* Mutant of MayFound: the position is only looked at when the fleet departs.
MayFoundUnseen(row) == Owned(row.player) < MaxColonies

\* check_planet_cap_available, assert_coordinate_available
MayFound(row) == owner[row.to] = Nobody /\ Owned(row.player) < MaxColonies

\* _handle_arrival, colonize, when colonize_planet founds the colony: it
\* commits the claim and the planet, the handler goes on afterwards.
Found(p) ==
    LET row == tx[p].row  m == tx[p].id IN
    /\ Resolves(p, "outbound", {"colonize"})
    /\ Claims(m, {"outbound"}) /\ MayFound(row)
    /\ mv' = Moved(m, "returning", row.ships, 0)
    /\ owner' = [owner EXCEPT ![row.to] = row.player]
    /\ stock' = [stock EXCEPT ![row.to] = @ + Founding]
    /\ BringIn(0, Founding)
    /\ acted' = Bump(acted, m)
    /\ Continues(p, "ark")
    /\ UNCHANGED <<ships, reported, recalled, gone, faults>>

\* The rest of it, in a transaction of its own.
UseArk(p) ==
    LET row == tx[p].row  m == tx[p].id IN
    /\ tx[p].pc = "ark" /\ CanBegin
    /\ mv' = IF row.ships > 1 THEN Moved(m, mv[m].status, row.ships - 1, mv[m].cargo)
             ELSE Moved(m, "completed", 0, 0)
    /\ UseUp(1, 0)
    /\ reported' = reported \cup {m}
    /\ Quit(p)
    /\ UNCHANGED <<Planets, acted, recalled, found, faults>>

\* When colonize_planet refuses it rolls back, and the claim with it; the
\* report is committed (_notify_player_idempotent_fleet: the first time only).
FoundRefused(p) ==
    LET row == tx[p].row  m == tx[p].id IN
    /\ Resolves(p, "outbound", {"colonize"})
    /\ ~Claims(m, {"outbound"}) \/ ~MayFound(row)
    /\ reported' = IF Claims(m, {"outbound"}) THEN reported \cup {m} ELSE reported
    /\ Quit(p)
    /\ UNCHANGED <<Planets, mv, acted, recalled, gone, found, faults>>

\* _handle_return
Return(p) ==
    LET row == tx[p].row  m == tx[p].id IN
    /\ tx[p].pc = "run" /\ tx[p].kind = "returning"
    /\ Unlocked(row.from)
    /\ IF Claims(m, {"returning"})
       THEN /\ mv' = Moved(m, "completed", 0, 0)
            /\ ships' = [ships EXCEPT ![row.from] = @ + row.ships]
            /\ stock' = [stock EXCEPT ![row.from] = @ + row.cargo]
       ELSE UNCHANGED <<mv, ships, stock>>
    /\ Quit(p)
    /\ UNCHANGED <<owner, Counts, faults>>

-----------------------------------------------------------------------------
(* Recall. *)

\* recall_fleet_movement reads the row.
AskRecall(p, m) ==
    /\ Idle(p)
    /\ mv[m].status \in {"outbound", "holding"}
    /\ Begins(p, "recall", m, mv[m], 0)
    /\ UNCHANGED <<Planets, mv, Counts, faults>>

\* _start_return. The pass over due fleets after a lost claim is a pass like
\* any other, and is left to it.
Recall(p) ==
    LET row == tx[p].row  m == tx[p].id IN
    /\ tx[p].pc = "run" /\ tx[p].kind = "recall"
    /\ IF Claims(m, {"outbound", "holding"})
       THEN /\ mv' = Moved(m, "returning", mv[m].ships, row.cargo)
            /\ recalled' = recalled \cup {m}
       ELSE UNCHANGED <<mv, recalled>>
    /\ Quit(p)
    /\ UNCHANGED <<Planets, acted, reported, gone, found, faults>>

-----------------------------------------------------------------------------
(* Faults. *)

\* An exception in a handler: rolled back, and for some movements followed by
\* a transaction that marks them as failed.
Raise(p) ==
    LET t == tx[p] IN
    /\ t.pc = "run" /\ faults < MaxFaults
    /\ faults' = faults + 1
    /\ IF t.kind = "returning" \/ (t.kind = "outbound" /\ t.row.mission \in {"attack", "expedition"})
       THEN Continues(p, "fail")
       ELSE Quit(p)
    /\ UNCHANGED <<Planets, mv, Counts>>

\* _fail_outbound_movement, _fail_returning_movement
MarkFailed(p) ==
    LET m == tx[p].id IN
    /\ tx[p].pc = "fail" /\ CanBegin
    /\ mv' = IF Claims(m, {tx[p].kind}) THEN Turned(m, "failed") ELSE mv
    /\ Quit(p)
    /\ UNCHANGED <<Planets, Counts, faults>>

\* The process dies; or the handler of a colony raises after the commit.
Crash(p) ==
    /\ tx[p].pc # "idle" /\ faults < MaxFaults
    /\ faults' = faults + 1
    /\ Quit(p)
    /\ UNCHANGED <<Planets, mv, Counts>>

\* scripts/repair_stuck_fleet_arrivals.py, on overdue attacks and returns.
RepairStuck(m) ==
    /\ CanBegin /\ faults < MaxFaults
    /\ \/ mv[m].status = "outbound" /\ mv[m].mission = "attack"
       \/ mv[m].status = "returning" /\ ~Landing(m)
    /\ mv' = Turned(m, "failed")
    /\ faults' = faults + 1
    /\ UNCHANGED <<Planets, tx, Counts>>

-----------------------------------------------------------------------------
Resolve(p) ==
    \/ Transport(p) \/ Collect(p) \/ Deploy(p) \/ Attack(p) \/ Stay(p)
    \/ LeavePost(p) \/ ExpeditionEnds(p) \/ Found(p) \/ FoundRefused(p)
    \/ UseArk(p) \/ Return(p)

Next ==
    \/ \E p \in Procs :
         \/ Validate(p) \/ Launch(p) \/ Resolve(p) \/ Recall(p)
         \/ AttackBreaks(p) \/ Raise(p) \/ MarkFailed(p) \/ Crash(p)
         \/ \E m \in DOMAIN mv : TakeUp(p, m) \/ AskRecall(p, m)
    \/ \E m \in DOMAIN mv : RepairStuck(m)

Spec == Init /\ [][Next]_vars

\* Every pass takes up what is due, in the order in which it fell due, and
\* leaves what is beyond its budget to the next; a transaction goes on.
FairSpec ==
    /\ Spec
    /\ \A m \in Ids : SF_vars(m \in DOMAIN mv /\ \E p \in Procs : TakeUp(p, m))
    /\ \A p \in Procs : WF_vars(Launch(p) \/ Resolve(p) \/ Recall(p) \/ MarkFailed(p))

-----------------------------------------------------------------------------
Status == Active \cup {"completed", "failed"}

Rows(statuses) == [player : Players, from : Places, to : Places \cup {Space},
                   mission : Missions, status : statuses, ships : Nat, cargo : Nat]

Total(f) == MapThenSumSet(LAMBDA x : f[x], DOMAIN f)

(* Every variable has its type.                                              *)
TypeOK ==
    /\ owner \in [Places -> Players \cup {Nobody}]
    /\ ships \in [Places -> Nat] /\ stock \in [Places -> Nat]
    /\ mv \in Seq(Rows(Status)) /\ Len(mv) <= MaxSends
    /\ tx \in [Procs ->
         [pc : {"idle", "run", "ark", "fail"},
          kind : {"none", "send", "recall"} \cup Active,
          id : Ids \cup {0}, row : Rows(Active) \cup {NoMove}, seen : Nat]]
    /\ acted \in [Ids -> Nat]
    /\ reported \subseteq DOMAIN mv /\ recalled \subseteq DOMAIN mv
    /\ gone \in [ships : Nat, cargo : Nat]
    /\ found \in [ships : Nat, cargo : Nat] /\ faults \in 0..MaxFaults

(* FLEET_SYSTEM.md:394 (Idempotenz, "keine doppelten ... Ressourcen"): no    *)
(* ship is lost or doubled between hangars and fleets, whatever handlers,    *)
(* recalls, exceptions and repairs come in between.                          *)
ShipsConserved ==
    Total(ships) + Total([m \in DOMAIN mv |-> mv[m].ships]) + gone.ships
        = Total(Ships0) + found.ships

(* ALPHA_TESTPLAN.md:233 ("Origin erhält geladene Ressourcen einmal"): nor   *)
(* is cargo, loot or what was collected.                                     *)
CargoConserved ==
    Total(stock) + Total([m \in DOMAIN mv |-> mv[m].cargo]) + gone.cargo
        = Total(Stock0) + found.cargo

(* FLEET_SYSTEM.md:394: "wiederholter Tick = No-Op (keine doppelten          *)
(* Nachrichten/Ressourcen/Kolonien/Loot)": a mission takes effect at most    *)
(* once, and never after its fleet was called back.                          *)
EffectOnce ==
    \A m \in Ids : acted[m] <= (IF m \in recalled THEN 0 ELSE 1)

(* get_fleet_slot_status: a player never has more fleets under way than      *)
(* slots, though slots are counted long before they are given back.          *)
SlotsRespected ==
    \A u \in Players : UnderWay(u) <= MaxSlots[u]

(* FLEET_SYSTEM.md:394 ("Statuswechsel nur über _claim_movement_status()"):  *)
(* a fleet never goes back, and the row of one that has ended is left alone, *)
(* whatever late handler, report of a failure or used ark still names it.    *)
OnlyOnward ==
    [][\A m \in DOMAIN mv :
         /\ mv[m].status \notin Active => mv'[m] = mv[m]
         /\ mv[m].status = "returning" => mv'[m].status \notin {"outbound", "holding"}
         /\ mv[m].status = "holding" => mv'[m].status # "outbound"]_mv

(* Several arks may be on the way to one position or to the last colony a    *)
(* player may found: every planet is a home or the work of exactly one ark,  *)
(* none changes hands, and the limit holds.                                  *)
TerritoryAddsUp ==
    \A u \in Players :
        /\ Owned(u) = Cardinality({q \in Places : Home[q] = u})
                      + Cardinality({m \in DOMAIN mv : /\ mv[m].player = u
                                                       /\ mv[m].mission = "colonize"
                                                       /\ acted[m] > 0})
        /\ Owned(u) <= MaxColonies

(* ALPHA_TESTPLAN.md:185, Ziel-Ankunft: the report is made when the fleet    *)
(* leaves "outbound": one whose arrival was reported is not under way to its *)
(* target any more.                                                          *)
ReportedHasArrived ==
    \A m \in reported : mv[m].status # "outbound"

(* ALPHA_TESTPLAN.md:264: every fleet but a colonist's comes to its end.     *)
EveryFleetEnds ==
    \A m \in Ids :
        (m \in DOMAIN mv /\ mv[m].mission # "colonize")
            ~> (m \in DOMAIN mv /\ mv[m].status \in {"completed", "failed"})
=============================================================================
