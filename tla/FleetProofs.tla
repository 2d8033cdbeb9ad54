----------------------------- MODULE FleetProofs -----------------------------
(***************************************************************************)
(* Proofs about the fleet movements, for any number of players, places,    *)
(* processes and fleets. On both databases nothing falls below zero and a  *)
(* fleet only moves on; on SQLite no ship and no cargo is lost or doubled, *)
(* a mission takes effect at most once and never after a recall, no player *)
(* has more fleets under way than slots, and the territory adds up.        *)
(***************************************************************************)
EXTENDS Fleet, SetSums

-----------------------------------------------------------------------------
(* The inductive invariant. *)

(* One transaction at a time.                                                *)
OneRunner == \A p, q \in Procs : tx[p].pc = "run" /\ tx[q].pc = "run" => p = q

(* What a fleet still on its way out carries, and where it goes.             *)
Seaworthy(row) ==
    /\ row.mission # "expedition" => row.to \in Places
    /\ row.status = "outbound" => row.cargo <= row.ships
    /\ row.status = "outbound" /\ row.mission = "colonize" => row.ships > 0 /\ row.cargo = 0

AllSeaworthy == \A m \in DOMAIN mv : Seaworthy(mv[m])

(* A send holds what it read until it commits.                               *)
CanSend(row) ==
    /\ row \in Rows({"outbound"}) /\ Seaworthy(row)
    /\ row.ships <= ships[row.from] /\ row.cargo <= stock[row.from]
    /\ UnderWay(row.player) < MaxSlots[row.player]
    /\ Len(mv) < MaxSends

(* A handler that runs has read the row as it is.                            *)
HasRead(p) ==
    /\ tx[p].id \in DOMAIN mv /\ tx[p].row = mv[tx[p].id] /\ ~Landing(tx[p].id)
    /\ tx[p].kind = "recall" => mv[tx[p].id].status \in {"outbound", "holding"}
    /\ tx[p].kind # "recall" => mv[tx[p].id].status = tx[p].kind
    /\ tx[p].row.mission = "attack" /\ tx[p].kind = "outbound" =>
         tx[p].seen = ships[tx[p].row.to]

(* Between the claim and the use of an ark its row stays as the claim left   *)
(* it: no pass, repair or failed handler may touch it.                       *)
HasLanded(p) ==
    /\ tx[p].id \in DOMAIN mv
    /\ mv[tx[p].id].status = "returning" /\ mv[tx[p].id].cargo = 0
    /\ mv[tx[p].id].ships = tx[p].row.ships /\ tx[p].row.ships > 0
    /\ \A q \in Procs : tx[q].pc = "ark" /\ tx[q].id = tx[p].id => q = p

HasFailed(p) ==
    /\ tx[p].id \in DOMAIN mv
    /\ tx[p].kind \in {"outbound", "returning"}
    /\ tx[p].kind = "returning" =>
         mv[tx[p].id].status \notin {"outbound", "holding"} /\ ~Landing(tx[p].id)
    /\ tx[p].kind = "outbound" => mv[tx[p].id].mission \in {"attack", "expedition"}

Handler(p) ==
    /\ tx[p].pc = "idle" => tx[p] = NoTx
    /\ tx[p].kind = "send" => tx[p].pc = "run"
    /\ tx[p].pc = "run" => IF tx[p].kind = "send" THEN CanSend(tx[p].row) ELSE HasRead(p)
    /\ tx[p].pc = "ark" => HasLanded(p) /\ mv[tx[p].id].mission = "colonize"
    /\ tx[p].pc = "fail" => HasFailed(p)

AllHandlers == \A p \in Procs : Handler(p)

(* A mission that may still take effect has not, nor was its fleet recalled. *)
Undone ==
    \A m \in Ids :
        /\ m \notin DOMAIN mv \/ mv[m].status \in {"outbound", "holding"}
             => acted[m] = 0 /\ m \notin recalled
        /\ m \in recalled => acted[m] = 0
        /\ acted[m] <= 1

FleetInv ==
    /\ TypeOK /\ OneRunner /\ AllSeaworthy /\ AllHandlers /\ Undone

-----------------------------------------------------------------------------
(* The types, in the words of the lemmas. *)

TxType ==
    [pc : {"idle", "run", "ark", "fail"}, kind : {"none", "send", "recall"} \cup Active,
     id : Ids \cup {0}, row : Rows(Active) \cup {NoMove}, seen : Nat]

Tally == [ships : Nat, cargo : Nat]

(* The parts of TypeOK, in the words of the lemmas. *)
LEMMA TypeFacts ==
    ASSUME TypeOK
    PROVE  /\ owner \in [Places -> Players \cup {Nobody}]
           /\ ships \in [Places -> Nat] /\ stock \in [Places -> Nat]
           /\ mv \in Seq(Rows(Status)) /\ Len(mv) \in Nat /\ Len(mv) <= MaxSends
           /\ DOMAIN mv = 1..Len(mv) /\ DOMAIN mv \subseteq Ids /\ MaxSends \in Nat
           /\ tx \in [Procs -> TxType]
           /\ acted \in [Ids -> Nat]
           /\ reported \subseteq DOMAIN mv /\ recalled \subseteq DOMAIN mv
           /\ gone \in Tally /\ gone.ships \in Nat /\ gone.cargo \in Nat
           /\ found \in Tally /\ found.ships \in Nat /\ found.cargo \in Nat
           /\ faults \in 0..MaxFaults
  BY SMTT(20), FleetAssumption DEF TypeOK, TxType, Tally, Ids

(* The row of a fleet. *)
LEMMA RowFacts ==
    ASSUME TypeOK, NEW m \in DOMAIN mv
    PROVE  /\ mv[m] \in Rows(Status)
           /\ mv[m].player \in Players /\ mv[m].from \in Places
           /\ mv[m].to \in Places \cup {Space} /\ mv[m].mission \in Missions
           /\ mv[m].status \in Status /\ mv[m].ships \in Nat /\ mv[m].cargo \in Nat
<1>1. mv[m] \in Rows(Status)
  BY TypeFacts
<1> QED
  BY <1>1 DEF Rows

(* What moving a fleet changes of its row, and that it changes no other. *)
LEMMA MovedEffect ==
    ASSUME TypeOK, NEW m \in DOMAIN mv, NEW status \in Status, NEW n \in Nat, NEW c \in Nat,
           mv' = Moved(m, status, n, c)
    PROVE  /\ mv' \in Seq(Rows(Status)) /\ Len(mv') = Len(mv) /\ DOMAIN mv' = DOMAIN mv
           /\ mv'[m].status = status /\ mv'[m].ships = n /\ mv'[m].cargo = c
           /\ mv'[m].player = mv[m].player /\ mv'[m].from = mv[m].from
           /\ mv'[m].to = mv[m].to /\ mv'[m].mission = mv[m].mission
           /\ \A k \in DOMAIN mv : k # m => mv'[k] = mv[k]
<1> DEFINE old == mv[m]
           row == [player |-> old.player, from |-> old.from, to |-> old.to,
                   mission |-> old.mission, status |-> status, ships |-> n, cargo |-> c]
<1>1. /\ row \in Rows(Status) /\ row.status = status /\ row.ships = n /\ row.cargo = c
      /\ row.player = old.player /\ row.from = old.from
      /\ row.to = old.to /\ row.mission = old.mission
  BY RowFacts DEF Rows
<1>2. mv' = [mv EXCEPT ![m] = row]
  BY DEF Moved
<1> HIDE DEF row
<1> QED
  BY <1>1, <1>2, TypeFacts

-----------------------------------------------------------------------------
(* What every move of a fleet has in common: the fleet, the place at which   *)
(* it meets a planet, and what it puts there.                                *)

Effects(m, status) ==
    LET ends == mv[m].status \in {"outbound", "holding"}
                /\ status \notin {"outbound", "holding"} IN
    \/ acted' = acted /\ recalled' = recalled
    \/ acted' = acted /\ recalled' = recalled \cup {m} /\ ends
    \/ acted' = Bump(acted, m) /\ recalled' = recalled /\ ends

Settlement(m) ==
    \/ owner' = owner /\ (acted' = acted \/ mv[m].mission # "colonize")
    \/ /\ mv[m].mission = "colonize" /\ MayFound(mv[m])
       /\ owner' = [owner EXCEPT ![mv[m].to] = mv[m].player]
       /\ mv[m].status = "outbound" /\ acted' = Bump(acted, m)

Books(m, n, c, s, k) ==
    /\ gone' \in Tally /\ found' \in Tally
    /\ n + s + gone'.ships + found.ships = mv[m].ships + gone.ships + found'.ships
    /\ c + k + gone'.cargo + found.cargo = mv[m].cargo + gone.cargo + found'.cargo

Gains(f, g, x, d) == g = [f EXCEPT ![x] = @ + d] /\ f[x] + d \in Nat

Change(m, status, n, c, x, s, k) ==
    /\ m \in DOMAIN mv /\ mv[m].status \in Active
    /\ status \in Status \ {"outbound"} /\ (status = "holding" => mv[m].status = "outbound")
    /\ n \in Nat /\ c \in Nat /\ x \in Places /\ s \in Int /\ k \in Int
    /\ mv' = Moved(m, status, n, c)
    /\ Gains(ships, ships', x, s) /\ Gains(stock, stock', x, k)
    /\ Books(m, n, c, s, k)
    /\ faults' \in 0..MaxFaults
    /\ reported' \subseteq reported \cup {m}
    /\ Effects(m, status)
    /\ Settlement(m)

(* Such a step keeps what does not depend on who handles the fleet. *)
LEMMA ChangeKeeps ==
    ASSUME TypeOK, AllSeaworthy, Undone, tx' \in [Procs -> TxType],
           NEW m, NEW status, NEW n, NEW c, NEW x, NEW s, NEW k,
           Change(m, status, n, c, x, s, k)
    PROVE  TypeOK' /\ AllSeaworthy' /\ Undone'
<1>1. /\ m \in DOMAIN mv /\ status \in Status \ {"outbound"} /\ n \in Nat /\ c \in Nat
      /\ x \in Places /\ s \in Int /\ k \in Int
      /\ mv' = Moved(m, status, n, c)
      /\ ships' = [ships EXCEPT ![x] = @ + s] /\ ships[x] + s \in Nat
      /\ stock' = [stock EXCEPT ![x] = @ + k] /\ stock[x] + k \in Nat
      /\ gone' \in Tally /\ found' \in Tally /\ faults' \in 0..MaxFaults
      /\ reported' \subseteq reported \cup {m}
      /\ Effects(m, status) /\ Settlement(m)
      /\ status = "holding" => mv[m].status = "outbound"
  BY DEF Change, Books, Gains
<1>2. /\ mv' \in Seq(Rows(Status)) /\ Len(mv') = Len(mv) /\ DOMAIN mv' = DOMAIN mv
      /\ mv'[m].status = status /\ mv'[m].mission = mv[m].mission /\ mv'[m].to = mv[m].to
      /\ \A j \in DOMAIN mv : j # m => mv'[j] = mv[j]
  BY <1>1, MovedEffect
<1>3. m \in Ids /\ acted \in [Ids -> Nat] /\ DOMAIN mv \subseteq Ids
  BY <1>1, TypeFacts
<1>4. ships' \in [Places -> Nat] /\ stock' \in [Places -> Nat]
  BY <1>1, TypeFacts
<1>5. owner' \in [Places -> Players \cup {Nobody}]
  <2>1. mv[m].player \in Players
    BY <1>1, RowFacts
  <2> QED
    BY <1>1, <2>1, TypeFacts DEF Settlement
<1>6. acted' \in [Ids -> Nat] /\ recalled' \subseteq recalled \cup {m}
  BY <1>1, <1>3 DEF Effects, Bump
<1>7. TypeOK'
  BY <1>1, <1>2, <1>4, <1>5, <1>6, TypeFacts DEF TypeOK, TxType, Tally
<1>8. AllSeaworthy'
  <2>1. Seaworthy(mv[m])
    BY <1>1 DEF AllSeaworthy
  <2>2. Seaworthy(mv'[m])
    BY <1>1, <1>2, <2>1 DEF Seaworthy
  <2> QED
    BY <1>2, <2>2 DEF AllSeaworthy, Seaworthy
<1>9. Undone'
  <2>1. ASSUME NEW j \in Ids
        PROVE  /\ j \notin DOMAIN mv' \/ mv'[j].status \in {"outbound", "holding"}
                    => acted'[j] = 0 /\ j \notin recalled'
               /\ j \in recalled' => acted'[j] = 0
               /\ acted'[j] <= 1
    <3>1. /\ j \notin DOMAIN mv \/ mv[j].status \in {"outbound", "holding"}
               => acted[j] = 0 /\ j \notin recalled
          /\ j \in recalled => acted[j] = 0
          /\ acted[j] <= 1 /\ acted[j] \in Nat
      BY <1>3 DEF Undone
    <3>2. CASE j # m
      BY <1>1, <1>2, <1>3, <3>1, <3>2 DEF Effects, Bump
    <3>3. CASE j = m
      <4>1. status \in {"outbound", "holding"} => mv[m].status \in {"outbound", "holding"}
        BY <1>1
      <4> QED
        BY <1>1, <1>2, <1>3, <3>1, <3>3, <4>1 DEF Effects, Bump
    <3> QED
      BY <3>2, <3>3
  <2> QED
    BY <2>1 DEF Undone
<1> QED
  BY <1>7, <1>8, <1>9

-----------------------------------------------------------------------------
(* The handlers, when a fleet moves. *)

(* An ark that is new has just been claimed on the way out. *)
NewArks(m) ==
    \A x \in Procs : tx'[x].pc = "ark" =>
        \/ tx[x].pc = "ark" /\ tx'[x].id = tx[x].id
        \/ tx'[x].id = m /\ mv[m].status = "outbound"

(* Who does not run, and is not using the ark of this fleet, is not disturbed. *)
LEMMA HandlerStays ==
    ASSUME TypeOK, NEW m, NEW status, NEW n, NEW c, NEW x, NEW s, NEW k,
           Change(m, status, n, c, x, s, k), NewArks(m),
           NEW q \in Procs, Handler(q), tx'[q] = tx[q],
           tx[q].pc # "run", tx[q].pc = "ark" => tx[q].id # m
    PROVE  Handler(q)'
<1>1. m \in DOMAIN mv /\ (status \in {"outbound", "holding"} => mv[m].status = "outbound")
      /\ status \in Status /\ n \in Nat /\ c \in Nat /\ mv' = Moved(m, status, n, c)
  BY DEF Change
<1>2. /\ DOMAIN mv' = DOMAIN mv
      /\ mv'[m].status = status /\ mv'[m].mission = mv[m].mission
      /\ \A j \in DOMAIN mv : j # m => mv'[j] = mv[j]
  BY <1>1, MovedEffect
<1>3. CASE tx[q].pc = "ark"
  <2>1. HasLanded(q) /\ mv[tx[q].id].mission = "colonize" /\ tx[q].id # m
    BY <1>3 DEF Handler
  <2>2. mv'[tx[q].id] = mv[tx[q].id] /\ tx[q].id \in DOMAIN mv'
    BY <1>2, <2>1 DEF HasLanded
  <2>3. \A y \in Procs : tx'[y].pc = "ark" /\ tx'[y].id = tx'[q].id => y = q
    BY <2>1 DEF HasLanded, NewArks
  <2>4. HasLanded(q)'
    BY <2>1, <2>2, <2>3 DEF HasLanded
  <2> QED
    BY <1>3, <2>1, <2>2, <2>4 DEF Handler
<1>4. CASE tx[q].pc = "fail"
  <2>1. HasFailed(q)
    BY <1>4 DEF Handler
  <2>2. tx[q].id \in DOMAIN mv' /\ mv'[tx[q].id].mission = mv[tx[q].id].mission
    BY <1>2, <2>1 DEF HasFailed
  <2>3. ASSUME tx[q].kind = "returning"
        PROVE  mv'[tx[q].id].status \notin {"outbound", "holding"} /\ ~Landing(tx[q].id)'
    <3>1. mv[tx[q].id].status \notin {"outbound", "holding"} /\ ~Landing(tx[q].id)
      BY <2>1, <2>3 DEF HasFailed
    <3>2. mv'[tx[q].id].status \notin {"outbound", "holding"}
      BY <1>1, <1>2, <2>1, <3>1 DEF HasFailed
    <3>3. ~ \E y \in Procs : tx'[y].pc = "ark" /\ tx'[y].id = tx'[q].id
      BY <3>1 DEF Landing, NewArks
    <3> QED
      BY <3>2, <3>3 DEF Landing
  <2>4. HasFailed(q)'
    BY <2>1, <2>2, <2>3 DEF HasFailed
  <2> QED
    BY <1>4, <2>4 DEF Handler
<1>5. CASE tx[q].pc = "idle"
  BY <1>5 DEF Handler
<1> QED
  BY <1>3, <1>4, <1>5, TypeFacts DEF TxType

(* The state of a process that is done. *)
LEMMA NoTxType == NoTx \in TxType /\ NoTx.pc = "idle" /\ NoTx.kind = "none"
  BY DEF NoTx, TxType

(* A process that puts its state in place of another. *)
LEMMA Puts ==
    ASSUME TypeOK, NEW p \in Procs, NEW t \in TxType, tx' = [tx EXCEPT ![p] = t]
    PROVE  /\ tx' \in [Procs -> TxType] /\ tx'[p] = t
           /\ \A q \in Procs : q # p => tx'[q] = tx[q]
  BY TypeFacts

(* No other process runs, or is using the ark of this fleet.                 *)
Alone(p, m) ==
    \A q \in Procs \ {p} : tx[q].pc # "run" /\ (tx[q].pc = "ark" => tx[q].id # m)

(* A process that moves a fleet and is done keeps the invariant. *)
LEMMA MoveAndQuit ==
    ASSUME FleetInv, NEW p \in Procs, NEW m, NEW status, NEW n, NEW c, NEW x, NEW s, NEW k,
           Change(m, status, n, c, x, s, k), Quit(p), Alone(p, m)
    PROVE  FleetInv'
<1>1. TypeOK /\ AllSeaworthy /\ AllHandlers /\ Undone
  BY DEF FleetInv
<1>2. tx' \in [Procs -> TxType] /\ tx'[p] = NoTx /\ \A q \in Procs : q # p => tx'[q] = tx[q]
  BY <1>1, NoTxType, Puts DEF Quit
<1>3. TypeOK' /\ AllSeaworthy' /\ Undone'
  BY <1>1, <1>2, ChangeKeeps
<1>4. NewArks(m)
  BY <1>2, NoTxType DEF NewArks
<1>5. AllHandlers'
  <2>1. ASSUME NEW q \in Procs, q # p PROVE Handler(q)'
    BY <1>1, <1>2, <1>4, <2>1, HandlerStays DEF AllHandlers, Alone
  <2>2. Handler(p)'
    BY <1>2, NoTxType DEF Handler
  <2> QED
    BY <2>1, <2>2 DEF AllHandlers
<1>6. OneRunner'
  BY <1>2, NoTxType DEF OneRunner, Alone
<1> QED
  BY <1>3, <1>5, <1>6 DEF FleetInv

(* A runner is alone: it has read its row while no ark of it was in use. *)
LEMMA RunnerAlone ==
    ASSUME FleetInv, NEW p \in Procs, tx[p].pc = "run", tx[p].kind # "send"
    PROVE  Alone(p, tx[p].id) /\ HasRead(p)
<1>1. HasRead(p)
  BY DEF FleetInv, AllHandlers, Handler
<1> QED
  BY <1>1 DEF FleetInv, OneRunner, Alone, HasRead, Landing

-----------------------------------------------------------------------------
(* The handlers, one by one: each moves its fleet as Change says.            *)

Changes == \E m, status, n, c, x, s, k : Change(m, status, n, c, x, s, k)

(* A handler that changes its fleet and quits keeps the invariant. *)
LEMMA MoveKeeps ==
    ASSUME FleetInv, NEW p \in Procs, NEW m, NEW status, NEW n, NEW c, NEW x, NEW s, NEW k,
           Change(m, status, n, c, x, s, k), Quit(p), Alone(p, m)
    PROVE  FleetInv' /\ Changes
<1>1. FleetInv'
  BY MoveAndQuit
<1>2. Changes
  BY DEF Changes
<1> QED
  BY <1>1, <1>2

(* What a running handler knows of its fleet. *)
LEMMA Running ==
    ASSUME FleetInv, NEW p \in Procs, tx[p].pc = "run", tx[p].kind # "send"
    PROVE  LET m == tx[p].id  row == tx[p].row IN
           /\ m \in DOMAIN mv /\ m \in Ids /\ row = mv[m] /\ Seaworthy(row) /\ Alone(p, m)
           /\ row.player \in Players /\ row.from \in Places /\ row.mission \in Missions
           /\ row.ships \in Nat /\ row.cargo \in Nat /\ tx[p].seen \in Nat
           /\ tx[p].kind # "recall" => mv[m].status = tx[p].kind /\ tx[p].kind \in Active
           /\ tx[p].kind = "recall" => mv[m].status \in {"outbound", "holding"}
<1>1. TypeOK /\ AllSeaworthy /\ HasRead(p) /\ Alone(p, tx[p].id)
  BY RunnerAlone DEF FleetInv
<1>2. tx[p].id \in DOMAIN mv /\ tx[p].row = mv[tx[p].id] /\ tx[p].id \in Ids
  BY <1>1, TypeFacts DEF HasRead
<1>3. tx[p] \in TxType
  BY <1>1, TypeFacts
<1>4. tx[p].seen \in Nat /\ tx[p].kind \in {"none", "send", "recall"} \cup Active
  BY <1>3 DEF TxType
<1>5. mv[tx[p].id].status \in Status
  BY <1>1, <1>2, RowFacts
<1> QED
  BY <1>1, <1>2, <1>4, <1>5, RowFacts DEF HasRead, AllSeaworthy, Status, Active

(* What is put on a planet, what is taken, and what stays. *)
LEMMA GainsAdd ==
    ASSUME NEW f \in [Places -> Nat], NEW x \in Places, NEW d \in Nat,
           NEW g, g = [f EXCEPT ![x] = @ + d]
    PROVE  Gains(f, g, x, d)
  BY DEF Gains

(* Taking away is a gain below zero. *)
LEMMA GainsTake ==
    ASSUME NEW f \in [Places -> Nat], NEW x \in Places, NEW d \in Nat, d <= f[x],
           NEW g, g = [f EXCEPT ![x] = @ - d]
    PROVE  Gains(f, g, x, 0 - d)
<1>1. f[x] \in Nat /\ f[x] - d = f[x] + (0 - d) /\ f[x] + (0 - d) \in Nat
  OBVIOUS
<1>2. g = [f EXCEPT ![x] = f[x] + (0 - d)]
  BY <1>1
<1> QED
  BY <1>1, <1>2 DEF Gains

(* Leaving a planet alone is a gain of nothing. *)
LEMMA GainsNone ==
    ASSUME NEW f \in [Places -> Nat], NEW x \in Places, NEW g, g = f
    PROVE  Gains(f, g, x, 0)
  BY DEF Gains

(* What is only moved between the fleet and a planet. *)
LEMMA NothingLost ==
    ASSUME TypeOK, NEW m \in DOMAIN mv, NEW n \in Nat, NEW c \in Nat, NEW s \in Int, NEW k \in Int,
           n + s = mv[m].ships, c + k = mv[m].cargo, UNCHANGED <<gone, found>>
    PROVE  Books(m, n, c, s, k)
<1>1. gone \in Tally /\ gone.ships \in Nat /\ gone.cargo \in Nat
      /\ found \in Tally /\ found.ships \in Nat /\ found.cargo \in Nat
  BY TypeFacts
<1>2. mv[m].ships \in Nat /\ mv[m].cargo \in Nat
  BY RowFacts
<1> QED
  BY <1>1, <1>2 DEF Books

(* Unloading. *)
LEMMA TransportSafe ==
    ASSUME FleetInv, NEW p \in Procs, Transport(p)
    PROVE  FleetInv' /\ Changes
<1> DEFINE row == tx[p].row
           m == tx[p].id
<1>1. tx[p].pc = "run" /\ tx[p].kind = "outbound" /\ row.mission = "transport" /\ TypeOK
  BY DEF Transport, Resolves, FleetInv
<1>2. /\ m \in DOMAIN mv /\ row = mv[m] /\ Seaworthy(row) /\ Alone(p, m)
      /\ row.from \in Places /\ row.ships \in Nat /\ row.cargo \in Nat
      /\ mv[m].status = "outbound"
  BY <1>1, Running
<1>3. row.to \in Places
  BY <1>1, <1>2 DEF Seaworthy
<1>4. /\ stock' = [stock EXCEPT ![row.to] = @ + row.cargo]
      /\ mv' = Moved(m, "returning", row.ships, 0)
      /\ acted' = Bump(acted, m) /\ reported' = reported \cup {m}
      /\ UNCHANGED <<owner, ships, recalled, gone, found, faults>> /\ Quit(p)
  BY <1>1, <1>2 DEF Transport, Claims, Delivered
<1> HIDE DEF row, m
<1>5. Effects(m, "returning") /\ Settlement(m)
  BY <1>1, <1>2, <1>4 DEF Effects, Settlement
<1>6. Gains(ships, ships', row.to, 0) /\ Gains(stock, stock', row.to, row.cargo)
      /\ faults \in 0..MaxFaults
  BY <1>1, <1>2, <1>3, <1>4, TypeFacts, GainsNone, GainsAdd
<1>7. Books(m, row.ships, 0, 0, row.cargo)
  BY <1>1, <1>2, <1>4, NothingLost
<1>8. Change(m, "returning", row.ships, 0, row.to, 0, row.cargo)
  BY <1>1, <1>2, <1>3, <1>4, <1>5, <1>6, <1>7 DEF Change, Status, Active
<1> QED
  BY <1>2, <1>4, <1>8, MoveKeeps

(* Collecting from a field of debris or resources. *)
LEMMA CollectSafe ==
    ASSUME FleetInv, NEW p \in Procs, Collect(p)
    PROVE  FleetInv' /\ Changes
<1> DEFINE row == tx[p].row
           m == tx[p].id
           load == Load(row)
<1>1. tx[p].pc = "run" /\ tx[p].kind = "outbound" /\ row.mission = "collect" /\ TypeOK
  BY DEF Collect, Resolves, FleetInv
<1>2. /\ m \in DOMAIN mv /\ row = mv[m] /\ Seaworthy(row) /\ Alone(p, m)
      /\ row.from \in Places /\ row.ships \in Nat /\ row.cargo \in Nat
      /\ mv[m].status = "outbound"
  BY <1>1, Running
<1>3. row.to \in Places /\ row.cargo <= row.ships
  BY <1>1, <1>2 DEF Seaworthy
<1>4. load \in Nat /\ load <= stock[row.to]
  <2>1. stock[row.to] \in Nat
    BY <1>1, <1>3, TypeFacts
  <2> QED
    BY <1>2, <1>3, <2>1 DEF Load, Min2
<1>5. /\ stock' = [stock EXCEPT ![row.to] = @ - load]
      /\ mv' = Moved(m, "returning", row.ships, row.cargo + load)
      /\ acted' = Bump(acted, m) /\ reported' = reported \cup {m}
      /\ UNCHANGED <<owner, ships, recalled, gone, found, faults>> /\ Quit(p)
  BY <1>1, <1>2 DEF Collect, Claims
<1> HIDE DEF row, m, load
<1>6. Effects(m, "returning") /\ Settlement(m)
  BY <1>1, <1>2, <1>5 DEF Effects, Settlement
<1>7. Gains(ships, ships', row.to, 0) /\ faults \in 0..MaxFaults
  BY <1>1, <1>3, <1>5, TypeFacts, GainsNone, GainsAdd
<1>11. Gains(stock, stock', row.to, 0 - load)
  <2>1. stock \in [Places -> Nat] /\ stock' = [stock EXCEPT ![row.to] = @ - load]
    BY <1>1, <1>5, TypeFacts
  <2> QED
    BY <1>3, <1>4, <2>1, GainsTake
<1>8. row.cargo + load \in Nat /\ 0 - load \in Int
  BY <1>2, <1>4
<1>9. Books(m, row.ships, row.cargo + load, 0, 0 - load)
  <2>1. (row.cargo + load) + (0 - load) = mv[m].cargo /\ row.ships + 0 = mv[m].ships
    BY <1>2, <1>4
  <2> QED
    BY <1>1, <1>2, <1>5, <1>8, <2>1, NothingLost
<1>10. Change(m, "returning", row.ships, row.cargo + load, row.to, 0, 0 - load)
  BY <1>1, <1>2, <1>3, <1>5, <1>6, <1>7, <1>8, <1>9, <1>11 DEF Change, Status, Active
<1> QED
  BY <1>2, <1>5, <1>10, MoveKeeps

(* Deploying for good. *)
LEMMA DeploySafe ==
    ASSUME FleetInv, NEW p \in Procs, Deploy(p)
    PROVE  FleetInv' /\ Changes
<1> DEFINE row == tx[p].row
           m == tx[p].id
<1>1. tx[p].pc = "run" /\ tx[p].kind = "outbound" /\ row.mission = "deploy" /\ TypeOK
  BY DEF Deploy, Resolves, FleetInv
<1>2. /\ m \in DOMAIN mv /\ row = mv[m] /\ Seaworthy(row) /\ Alone(p, m)
      /\ row.from \in Places /\ row.ships \in Nat /\ row.cargo \in Nat
      /\ mv[m].status = "outbound"
  BY <1>1, Running
<1>3. row.to \in Places
  BY <1>1, <1>2 DEF Seaworthy
<1>4. /\ stock' = [stock EXCEPT ![row.to] = @ + row.cargo]
      /\ ships' = [ships EXCEPT ![row.to] = @ + row.ships]
      /\ mv' = Moved(m, "completed", 0, 0)
      /\ acted' = Bump(acted, m) /\ reported' = reported \cup {m}
      /\ UNCHANGED <<owner, recalled, gone, found, faults>> /\ Quit(p)
  BY <1>1, <1>2 DEF Deploy, Claims
<1> HIDE DEF row, m
<1>5. Effects(m, "completed") /\ Settlement(m)
  BY <1>1, <1>2, <1>4 DEF Effects, Settlement
<1>6. Gains(ships, ships', row.to, row.ships) /\ Gains(stock, stock', row.to, row.cargo)
      /\ faults \in 0..MaxFaults
  BY <1>1, <1>2, <1>3, <1>4, TypeFacts, GainsNone, GainsAdd
<1>7. Books(m, 0, 0, row.ships, row.cargo)
  <2>1. 0 + row.ships = mv[m].ships /\ 0 + row.cargo = mv[m].cargo
    BY <1>2
  <2> QED
    BY <1>1, <1>2, <1>4, <2>1, NothingLost
<1>8. Change(m, "completed", 0, 0, row.to, row.ships, row.cargo)
  BY <1>1, <1>2, <1>3, <1>4, <1>5, <1>6, <1>7 DEF Change, Status, Active
<1> QED
  BY <1>2, <1>4, <1>8, MoveKeeps

(* Staying at the target for a while. *)
LEMMA StaySafe ==
    ASSUME FleetInv, NEW p \in Procs, Stay(p)
    PROVE  FleetInv' /\ Changes
<1> DEFINE row == tx[p].row
           m == tx[p].id
<1>1. tx[p].pc = "run" /\ tx[p].kind = "outbound" /\ TypeOK
  BY DEF Stay, Resolves, FleetInv
<1>2. /\ m \in DOMAIN mv /\ row = mv[m] /\ Alone(p, m)
      /\ row.from \in Places /\ row.ships \in Nat /\ row.cargo \in Nat
      /\ mv[m].status = "outbound"
  BY <1>1, Running
<1>3. /\ mv' = Moved(m, "holding", row.ships, row.cargo)
      /\ reported' \subseteq reported \cup {m}
      /\ UNCHANGED <<owner, ships, stock, acted, recalled, gone, found, faults>> /\ Quit(p)
  BY <1>1, <1>2 DEF Stay, Claims, Turned, Planets
<1> HIDE DEF row, m
<1>4. Effects(m, "holding") /\ Settlement(m)
  BY <1>3 DEF Effects, Settlement
<1>5. Gains(ships, ships', row.from, 0) /\ Gains(stock, stock', row.from, 0)
      /\ faults \in 0..MaxFaults
  BY <1>1, <1>2, <1>3, TypeFacts, GainsNone, GainsAdd
<1>6. Books(m, row.ships, row.cargo, 0, 0)
  BY <1>1, <1>2, <1>3, NothingLost
<1>7. Change(m, "holding", row.ships, row.cargo, row.from, 0, 0)
  BY <1>1, <1>2, <1>3, <1>4, <1>5, <1>6 DEF Change, Status, Active
<1> QED
  BY <1>2, <1>3, <1>7, MoveKeeps

(* Leaving a post for home. *)
LEMMA LeavePostSafe ==
    ASSUME FleetInv, NEW p \in Procs, LeavePost(p)
    PROVE  FleetInv' /\ Changes
<1> DEFINE row == tx[p].row
           m == tx[p].id
<1>1. tx[p].pc = "run" /\ tx[p].kind = "holding" /\ TypeOK
  BY DEF LeavePost, Resolves, FleetInv
<1>2. /\ m \in DOMAIN mv /\ row = mv[m] /\ Alone(p, m)
      /\ row.from \in Places /\ row.ships \in Nat /\ row.cargo \in Nat
      /\ mv[m].status = "holding"
  BY <1>1, Running
<1>3. /\ mv' = Moved(m, "returning", row.ships, row.cargo)
      /\ UNCHANGED <<owner, ships, stock, acted, reported, recalled, gone, found, faults>>
      /\ Quit(p)
  BY <1>1, <1>2 DEF LeavePost, Claims, Planets, Counts
<1> HIDE DEF row, m
<1>4. Effects(m, "returning") /\ Settlement(m)
  BY <1>3 DEF Effects, Settlement
<1>5. Gains(ships, ships', row.from, 0) /\ Gains(stock, stock', row.from, 0)
      /\ faults \in 0..MaxFaults
  BY <1>1, <1>2, <1>3, TypeFacts, GainsNone, GainsAdd
<1>6. Books(m, row.ships, row.cargo, 0, 0)
  BY <1>1, <1>2, <1>3, NothingLost
<1>7. Change(m, "returning", row.ships, row.cargo, row.from, 0, 0)
  BY <1>1, <1>2, <1>3, <1>4, <1>5, <1>6 DEF Change, Status, Active
<1> QED
  BY <1>2, <1>3, <1>7, MoveKeeps

(* A recall. *)
LEMMA RecallSafe ==
    ASSUME FleetInv, NEW p \in Procs, Recall(p)
    PROVE  FleetInv' /\ Changes
<1> DEFINE row == tx[p].row
           m == tx[p].id
<1>1. tx[p].pc = "run" /\ tx[p].kind = "recall" /\ TypeOK
  BY DEF Recall, FleetInv
<1>2. /\ m \in DOMAIN mv /\ row = mv[m] /\ Alone(p, m)
      /\ row.from \in Places /\ row.ships \in Nat /\ row.cargo \in Nat
      /\ mv[m].status \in {"outbound", "holding"}
  BY <1>1, Running
<1>3. /\ mv' = Moved(m, "returning", row.ships, row.cargo) /\ recalled' = recalled \cup {m}
      /\ UNCHANGED <<owner, ships, stock, acted, reported, gone, found, faults>>
      /\ Quit(p)
  BY <1>1, <1>2 DEF Recall, Claims, Planets
<1> HIDE DEF row, m
<1>4. Effects(m, "returning") /\ Settlement(m)
  BY <1>2, <1>3 DEF Effects, Settlement
<1>5. Gains(ships, ships', row.from, 0) /\ Gains(stock, stock', row.from, 0)
      /\ faults \in 0..MaxFaults
  BY <1>1, <1>2, <1>3, TypeFacts, GainsNone, GainsAdd
<1>6. Books(m, row.ships, row.cargo, 0, 0)
  BY <1>1, <1>2, <1>3, NothingLost
<1>7. Change(m, "returning", row.ships, row.cargo, row.from, 0, 0)
  BY <1>1, <1>2, <1>3, <1>4, <1>5, <1>6 DEF Change, Status, Active
<1> QED
  BY <1>2, <1>3, <1>7, MoveKeeps

(* A return, which empties the fleet into its hangar. *)
LEMMA ReturnSafe ==
    ASSUME FleetInv, NEW p \in Procs, Return(p)
    PROVE  FleetInv' /\ Changes
<1> DEFINE row == tx[p].row
           m == tx[p].id
<1>1. tx[p].pc = "run" /\ tx[p].kind = "returning" /\ TypeOK
  BY DEF Return, FleetInv
<1>2. /\ m \in DOMAIN mv /\ row = mv[m] /\ Alone(p, m)
      /\ row.from \in Places /\ row.ships \in Nat /\ row.cargo \in Nat
      /\ mv[m].status = "returning"
  BY <1>1, Running
<1>3. /\ stock' = [stock EXCEPT ![row.from] = @ + row.cargo]
      /\ ships' = [ships EXCEPT ![row.from] = @ + row.ships]
      /\ mv' = Moved(m, "completed", 0, 0)
      /\ UNCHANGED <<owner, acted, reported, recalled, gone, found, faults>> /\ Quit(p)
  BY <1>1, <1>2 DEF Return, Claims, Counts
<1> HIDE DEF row, m
<1>4. Effects(m, "completed") /\ Settlement(m)
  BY <1>3 DEF Effects, Settlement
<1>5. Gains(ships, ships', row.from, row.ships) /\ Gains(stock, stock', row.from, row.cargo)
      /\ faults \in 0..MaxFaults
  BY <1>1, <1>2, <1>3, TypeFacts, GainsNone, GainsAdd
<1>6. Books(m, 0, 0, row.ships, row.cargo)
  <2>1. 0 + row.ships = mv[m].ships /\ 0 + row.cargo = mv[m].cargo
    BY <1>2
  <2> QED
    BY <1>1, <1>2, <1>3, <2>1, NothingLost
<1>7. Change(m, "completed", 0, 0, row.from, row.ships, row.cargo)
  BY <1>1, <1>2, <1>3, <1>4, <1>5, <1>6 DEF Change, Status, Active
<1> QED
  BY <1>2, <1>3, <1>7, MoveKeeps

(* The end of an expedition, with its losses and its finds. *)
LEMMA ExpeditionSafe ==
    ASSUME FleetInv, NEW p \in Procs, ExpeditionEnds(p)
    PROVE  FleetInv' /\ Changes
<1> DEFINE row == tx[p].row
           m == tx[p].id
<1>1. tx[p].pc = "run" /\ tx[p].kind = "holding" /\ row.mission = "expedition" /\ TypeOK
  BY DEF ExpeditionEnds, Resolves, FleetInv
<1>2. /\ m \in DOMAIN mv /\ row = mv[m] /\ Alone(p, m)
      /\ row.from \in Places /\ row.ships \in Nat /\ row.cargo \in Nat
      /\ mv[m].status = "holding"
  BY <1>1, Running
<1>3. PICK left \in 0..row.ships, salvage \in 0..MaxSalvage,
           loot \in 0..Min2(MaxLoot, row.ships) :
        /\ mv' = Moved(m, "returning", Remaining(row, left, salvage), loot)
        /\ UseUp(IF left + salvage > 0 THEN row.ships - left ELSE 0, row.cargo)
        /\ BringIn(salvage, loot)
        /\ acted' = Bump(acted, m) /\ reported' = reported \cup {m}
  BY <1>1, <1>2 DEF ExpeditionEnds, Claims
<1>4. UNCHANGED <<owner, ships, stock, recalled, faults>> /\ Quit(p)
  BY DEF ExpeditionEnds, Planets
<1> DEFINE n == Remaining(row, left, salvage)
           lost == IF left + salvage > 0 THEN row.ships - left ELSE 0
<1>5. /\ n \in Nat /\ lost \in Nat /\ salvage \in Nat /\ loot \in Nat
      /\ n + lost = row.ships + salvage
  <2>1. left \in Nat /\ left <= row.ships /\ salvage \in Nat /\ MaxLoot \in Nat
    BY <1>2, FleetAssumption
  <2> QED
    BY <1>2, <2>1 DEF Min2, Remaining
<1>6. /\ gone' = [ships |-> gone.ships + lost, cargo |-> gone.cargo + row.cargo]
      /\ found' = [ships |-> found.ships + salvage, cargo |-> found.cargo + loot]
  BY <1>3 DEF UseUp, BringIn
<1>7. /\ mv' = Moved(m, "returning", n, loot)
      /\ acted' = Bump(acted, m) /\ reported' = reported \cup {m}
  BY <1>3
<1> HIDE DEF row, m, n, lost
<1>8. Effects(m, "returning") /\ Settlement(m)
  BY <1>1, <1>2, <1>4, <1>7 DEF Effects, Settlement
<1>9. Gains(ships, ships', row.from, 0) /\ Gains(stock, stock', row.from, 0)
      /\ faults \in 0..MaxFaults
  BY <1>1, <1>2, <1>4, TypeFacts, GainsNone, GainsAdd
<1>10. Books(m, n, loot, 0, 0)
  <2>1. gone.ships \in Nat /\ gone.cargo \in Nat
      /\ found \in Tally /\ found.ships \in Nat /\ found.cargo \in Nat
    BY <1>1, TypeFacts
  <2> QED
    BY <1>2, <1>5, <1>6, <1>7, <2>1 DEF Books, Tally
<1>11. Change(m, "returning", n, loot, row.from, 0, 0)
  BY <1>1, <1>2, <1>4, <1>5, <1>7, <1>8, <1>9, <1>10 DEF Change, Status, Active
<1> QED
  BY <1>2, <1>4, <1>11, MoveKeeps

(* Nothing, or what the survivors can carry. *)
LEMMA NoneOrMore ==
    ASSUME NEW n \in Int
    PROVE  Max({0, n}) \in {0, n} /\ Max({0, n}) >= 0
<1>1. \E x \in {0, n} : \A y \in {0, n} : x >= y
  OBVIOUS
<1>2. Max({0, n}) \in {0, n} /\ \A y \in {0, n} : Max({0, n}) >= y
  BY <1>1, Zenon DEF Max
<1> QED
  BY <1>2

(* What a fight leaves and what it yields. *)
LEMMA FightFacts ==
    ASSUME TypeOK, NEW row, row.to \in Places, row.ships \in Nat, row.cargo \in Nat,
           NEW seen \in Nat, NEW b \in Battles(row.ships, seen)
    PROVE  /\ b.left \in Nat /\ b.left <= row.ships /\ b.held \in Nat /\ b.held <= seen
           /\ Loot(row, b) \in Nat /\ Loot(row, b) <= stock[row.to]
<1>1. b.left \in 0..row.ships /\ b.held \in 0..seen
  BY DEF Battles
<1>2. stock[row.to] \in Nat
  BY TypeFacts
<1> DEFINE most == Min2(stock[row.to] \div 2, b.left - row.cargo)
<1>3. most \in Int /\ most <= stock[row.to]
  BY <1>1, <1>2 DEF Min2
<1> HIDE DEF most
<1>4. Max({0, most}) \in Nat /\ Max({0, most}) <= stock[row.to]
  BY <1>2, <1>3, NoneOrMore
<1>5. Loot(row, b) = Max({0, most}) \/ Loot(row, b) = 0
  BY DEF Loot, most
<1> QED
  BY <1>1, <1>2, <1>4, <1>5

(* The garrison after a fight: fewer by the fallen of those that were met. *)
LEMMA GarrisonLoses ==
    ASSUME TypeOK, NEW row, row.to \in Places, NEW b, b.held \in Nat,
           NEW seen \in Nat, seen = ships[row.to], b.held <= seen,
           ships' = Garrison(row, seen, b)
    PROVE  Gains(ships, ships', row.to, 0 - (seen - b.held)) /\ seen - b.held \in Nat
<1> DEFINE fallen == seen - b.held
<1>1. fallen \in Nat /\ ships[row.to] - fallen = b.held /\ fallen <= ships[row.to]
  OBVIOUS
<1>2. ships' = [ships EXCEPT ![row.to] = ships[row.to] - fallen]
  BY <1>1 DEF Garrison
<1>3. ships \in [Places -> Nat]
  BY TypeFacts
<1> HIDE DEF fallen
<1>4. Gains(ships, ships', row.to, 0 - fallen)
  BY <1>1, <1>2, <1>3, GainsTake
<1> QED
  BY <1>1, <1>4 DEF fallen

(* A battle, with its losses on both sides and its loot. *)
LEMMA AttackSafe ==
    ASSUME FleetInv, NEW p \in Procs, Attack(p) \/ AttackBreaks(p)
    PROVE  FleetInv' /\ Changes
<1> DEFINE row == tx[p].row
           m == tx[p].id
           seen == tx[p].seen
<1>1. tx[p].pc = "run" /\ tx[p].kind = "outbound" /\ row.mission = "attack" /\ TypeOK
  BY DEF Attack, AttackBreaks, Resolves, FleetInv
<1>2. /\ m \in DOMAIN mv /\ row = mv[m] /\ Seaworthy(row) /\ Alone(p, m)
      /\ row.from \in Places /\ row.ships \in Nat /\ row.cargo \in Nat
      /\ mv[m].status = "outbound" /\ seen \in Nat
  BY <1>1, Running
<1>3. row.to \in Places /\ row.cargo <= row.ships
  BY <1>1, <1>2 DEF Seaworthy
<1>4. seen = ships[row.to]
  BY <1>1, RunnerAlone DEF HasRead
<1>5. Quit(p) /\ UNCHANGED <<owner, recalled, found>> /\ acted' = Bump(acted, m)
  BY DEF Attack, AttackBreaks
<1>6. gone.ships \in Nat /\ gone.cargo \in Nat
      /\ found \in Tally /\ found.ships \in Nat /\ found.cargo \in Nat
  BY <1>1, TypeFacts
<1>7. CASE Attack(p)
  <2>1. Claims(m, {"outbound"})
    BY <1>2 DEF Claims
  <2>2. PICK b \in Battles(row.ships, seen) :
          /\ ships' = Garrison(row, seen, b)
          /\ stock' = [stock EXCEPT ![row.to] = @ - Loot(row, b)]
          /\ UseUp(seen - b.held + (row.ships - b.left), 0)
          /\ mv' = Moved(m, "returning", b.left, row.cargo + Loot(row, b))
          /\ reported' = reported \cup {m}
    BY <1>7, <2>1 DEF Attack
  <2> DEFINE loot == Loot(row, b)
             fallen == seen - b.held
  <2>3. /\ b.left \in Nat /\ b.left <= row.ships /\ b.held \in Nat /\ b.held <= seen
        /\ loot \in Nat /\ loot <= stock[row.to]
    BY <1>1, <1>2, <1>3, FightFacts
  <2>4. Gains(ships, ships', row.to, 0 - fallen) /\ fallen \in Nat
    BY <1>1, <1>2, <1>3, <1>4, <2>2, <2>3, GarrisonLoses
  <2>5. gone' = [ships |-> gone.ships + (fallen + (row.ships - b.left)), cargo |-> gone.cargo + 0]
    BY <2>2 DEF UseUp
  <2>6. stock' = [stock EXCEPT ![row.to] = @ - loot] /\ faults' = faults
    BY <1>7, <2>2 DEF Attack
  <2> HIDE DEF row, m, seen, loot, fallen
  <2>7. Gains(stock, stock', row.to, 0 - loot)
    <3>1. stock \in [Places -> Nat]
      BY <1>1, TypeFacts
    <3> QED
      BY <1>3, <2>3, <2>6, <3>1, GainsTake
  <2>8. Effects(m, "returning") /\ Settlement(m)
    BY <1>1, <1>2, <1>5 DEF Effects, Settlement
  <2>9. row.cargo + loot \in Nat /\ 0 - loot \in Int /\ 0 - fallen \in Int
    BY <1>2, <2>3, <2>4
  <2>10. Books(m, b.left, row.cargo + loot, 0 - fallen, 0 - loot)
    BY <1>2, <1>5, <1>6, <2>3, <2>4, <2>5 DEF Books, Tally
  <2>11. reported' = reported \cup {m} /\ faults' \in 0..MaxFaults
         /\ mv' = Moved(m, "returning", b.left, row.cargo + loot)
    BY <1>1, <2>2, <2>6, TypeFacts DEF loot
  <2>12. Change(m, "returning", b.left, row.cargo + loot, row.to, 0 - fallen, 0 - loot)
    BY <1>2, <1>3, <2>3, <2>4, <2>7, <2>8, <2>9, <2>10, <2>11 DEF Change, Status, Active
  <2> QED
    BY <1>2, <1>5, <2>12, MoveKeeps
<1>8. CASE AttackBreaks(p)
  <2>0. PICK b \in Battles(row.ships, seen) :
          \E loot \in {0, Loot(row, b)} :
            /\ ships' = Garrison(row, seen, b)
            /\ stock' = [stock EXCEPT ![row.to] = @ - loot]
            /\ UseUp(seen - b.held, loot)
    BY <1>8 DEF AttackBreaks
  <2>1. PICK loot \in {0, Loot(row, b)} :
          /\ ships' = Garrison(row, seen, b)
          /\ stock' = [stock EXCEPT ![row.to] = @ - loot]
          /\ UseUp(seen - b.held, loot)
    BY <2>0
  <2> DEFINE fallen == seen - b.held
  <2>2. b.held \in Nat /\ b.held <= seen /\ Loot(row, b) \in Nat /\ Loot(row, b) <= stock[row.to]
    BY <1>1, <1>2, <1>3, FightFacts
  <2>3. loot \in Nat /\ loot <= stock[row.to]
    <3>1. stock[row.to] \in Nat
      BY <1>1, <1>3, TypeFacts
    <3> QED
      BY <2>2, <3>1
  <2>4. Gains(ships, ships', row.to, 0 - fallen) /\ fallen \in Nat
    BY <1>1, <1>2, <1>3, <1>4, <2>1, <2>2, GarrisonLoses
  <2>5. gone' = [ships |-> gone.ships + fallen, cargo |-> gone.cargo + loot]
    BY <2>1 DEF UseUp
  <2>6. /\ mv' = Moved(m, "failed", row.ships, row.cargo) /\ reported' = reported
        /\ faults' = faults + 1 /\ faults < MaxFaults
    BY <1>2, <1>8 DEF AttackBreaks, Broken, Turned
  <2> HIDE DEF row, m, seen, fallen
  <2>7. Gains(stock, stock', row.to, 0 - loot)
    <3>1. stock \in [Places -> Nat]
      BY <1>1, TypeFacts
    <3> QED
      BY <1>3, <2>1, <2>3, <3>1, GainsTake
  <2>8. Effects(m, "failed") /\ Settlement(m)
    BY <1>1, <1>2, <1>5 DEF Effects, Settlement
  <2>9. 0 - loot \in Int /\ 0 - fallen \in Int
    BY <2>3, <2>4
  <2>10. Books(m, row.ships, row.cargo, 0 - fallen, 0 - loot)
    BY <1>2, <1>5, <1>6, <2>3, <2>4, <2>5 DEF Books, Tally
  <2>11. faults' \in 0..MaxFaults
    <3>1. faults \in 0..MaxFaults /\ MaxFaults \in Nat
      BY <1>1, TypeFacts, FleetAssumption
    <3> QED
      BY <2>6, <3>1
  <2>12. Change(m, "failed", row.ships, row.cargo, row.to, 0 - fallen, 0 - loot)
    BY <1>2, <1>3, <2>4, <2>6, <2>7, <2>8, <2>9, <2>10, <2>11 DEF Change, Status, Active
  <2> QED
    BY <1>2, <1>5, <2>12, MoveKeeps
<1> QED
  BY <1>7, <1>8

(* On SQLite a transaction begins when none runs. *)
LEMMA BeginsAlone ==
    ASSUME ~Postgres, CanBegin, NEW q \in Procs
    PROVE  tx[q].pc # "run"
  BY DEF CanBegin

(* The rest of a colonization: the ark is used up and the colony stocked. *)
LEMMA UseArkSafe ==
    ASSUME ~Postgres, FleetInv, NEW p \in Procs, UseArk(p)
    PROVE  FleetInv' /\ Changes
<1> DEFINE row == tx[p].row
           m == tx[p].id
<1>1. TypeOK /\ HasLanded(p) /\ tx[p].pc = "ark" /\ mv[m].mission = "colonize"
  BY DEF FleetInv, AllHandlers, Handler, UseArk
<1>2. /\ m \in DOMAIN mv /\ mv[m].status = "returning" /\ mv[m].cargo = 0
      /\ mv[m].ships = row.ships /\ row.ships > 0
  BY <1>1 DEF HasLanded
<1>3. /\ mv[m].ships \in Nat /\ mv[m].from \in Places
      /\ gone.ships \in Nat /\ gone.cargo \in Nat
      /\ found \in Tally /\ found.ships \in Nat /\ found.cargo \in Nat
  BY <1>1, <1>2, TypeFacts, RowFacts
<1>4. Alone(p, m)
  BY <1>1, BeginsAlone DEF Alone, HasLanded, UseArk
<1>5. /\ gone' = [ships |-> gone.ships + 1, cargo |-> gone.cargo + 0]
      /\ reported' = reported \cup {m} /\ Quit(p)
      /\ UNCHANGED <<owner, ships, stock, acted, recalled, found, faults>>
  BY DEF UseArk, UseUp, Planets
<1> DEFINE status == IF row.ships > 1 THEN "returning" ELSE "completed"
           n == row.ships - 1
<1>6. mv' = Moved(m, status, n, 0) /\ n \in Nat
  BY <1>2, <1>3 DEF UseArk
<1> HIDE DEF row, m, n
<1>7. Effects(m, status) /\ Settlement(m)
  BY <1>5 DEF Effects, Settlement
<1>8. Gains(ships, ships', mv[m].from, 0) /\ Gains(stock, stock', mv[m].from, 0)
      /\ faults \in 0..MaxFaults
  BY <1>1, <1>3, <1>5, TypeFacts, GainsNone
<1>9. Books(m, n, 0, 0, 0)
  BY <1>2, <1>3, <1>5 DEF Books, Tally, n
<1>10. status \in Status \ {"outbound", "holding"}
  BY DEF Status, Active
<1> HIDE DEF status
<1>11. Change(m, status, n, 0, mv[m].from, 0, 0)
  BY <1>2, <1>3, <1>5, <1>6, <1>7, <1>8, <1>9, <1>10 DEF Change, Status, Active
<1> QED
  BY <1>2, <1>4, <1>5, <1>11, MoveKeeps

(* A fleet that fails keeps what it carries. *)
LEMMA FailChange ==
    ASSUME TypeOK, NEW m \in DOMAIN mv, mv[m].status \in Active, mv' = Turned(m, "failed"),
           UNCHANGED <<owner, ships, stock, acted, reported, recalled, gone, found>>,
           faults' \in 0..MaxFaults
    PROVE  Change(m, "failed", mv[m].ships, mv[m].cargo, mv[m].from, 0, 0)
<1>1. mv[m].ships \in Nat /\ mv[m].cargo \in Nat /\ mv[m].from \in Places
  BY RowFacts
<1>2. Effects(m, "failed") /\ Settlement(m)
  BY DEF Effects, Settlement
<1>3. Gains(ships, ships', mv[m].from, 0) /\ Gains(stock, stock', mv[m].from, 0)
  BY <1>1, TypeFacts, GainsNone
<1>4. Books(m, mv[m].ships, mv[m].cargo, 0, 0)
  BY <1>1, NothingLost
<1> QED
  BY <1>1, <1>2, <1>3, <1>4 DEF Change, Status, Active, Turned

Still == UNCHANGED <<owner, ships, stock, mv, acted, recalled, gone, found>>

(* A process that leaves planets and fleets as they are. *)
LEMMA ProcessMoves ==
    ASSUME FleetInv, NEW p \in Procs, NEW t \in TxType, tx' = [tx EXCEPT ![p] = t],
           t.pc # "ark", t.pc = "run" => \A q \in Procs : q # p => tx[q].pc # "run",
           UNCHANGED <<owner, ships, stock, mv, acted, recalled, gone, found>>,
           reported' \subseteq DOMAIN mv, faults' \in 0..MaxFaults,
           Handler(p)'
    PROVE  FleetInv'
<1>1. TypeOK /\ OneRunner /\ AllSeaworthy /\ AllHandlers /\ Undone
  BY DEF FleetInv
<1>2. tx' \in [Procs -> TxType] /\ tx'[p] = t /\ \A q \in Procs : q # p => tx'[q] = tx[q]
  BY <1>1, Puts
<1>3. TypeOK'
  BY <1>1, <1>2, TypeFacts DEF TypeOK, TxType
<1>4. OneRunner' /\ AllSeaworthy' /\ Undone'
  BY <1>1, <1>2 DEF OneRunner, AllSeaworthy, Seaworthy, Undone
<1>5. ASSUME NEW q \in Procs, q # p PROVE Handler(q)'
  <2>1. Handler(q) /\ tx'[q] = tx[q]
    BY <1>1, <1>2, <1>5 DEF AllHandlers
  <2>2. \A i : ~Landing(i) => ~Landing(i)'
    BY <1>2 DEF Landing
  <2>3. CanSend(tx[q].row) => CanSend(tx[q].row)'
    BY <2>1 DEF CanSend, Seaworthy, UnderWay
  <2>4. tx[q].pc = "run" /\ tx[q].kind # "send" => HasRead(q)'
    BY <2>1, <2>2 DEF Handler, HasRead
  <2>5. tx[q].pc = "ark" => HasLanded(q)'
    BY <1>2, <2>1 DEF Handler, HasLanded
  <2>6. tx[q].pc = "fail" => HasFailed(q)'
    BY <2>1, <2>2 DEF Handler, HasFailed
  <2> QED
    BY <2>1, <2>3, <2>4, <2>5, <2>6 DEF Handler
<1> QED
  BY <1>3, <1>4, <1>5 DEF FleetInv, AllHandlers

(* A process that just stops. *)
LEMMA ProcessQuits ==
    ASSUME FleetInv, NEW p \in Procs, Quit(p),
           UNCHANGED <<owner, ships, stock, mv, acted, recalled, gone, found>>,
           reported' \subseteq DOMAIN mv, faults' \in 0..MaxFaults
    PROVE  FleetInv'
<1>1. tx' = [tx EXCEPT ![p] = NoTx] /\ NoTx \in TxType /\ NoTx.pc = "idle"
      /\ NoTx.kind = "none"
  BY NoTxType DEF Quit, NoTx
<1>2. tx'[p] = NoTx
  BY <1>1, Puts DEF FleetInv
<1>3. Handler(p)'
  BY <1>1, <1>2 DEF Handler
<1> QED
  BY <1>1, <1>3, ProcessMoves

(* A handler that raised marks its fleet. *)
LEMMA MarkFailedSafe ==
    ASSUME ~Postgres, FleetInv, NEW p \in Procs, MarkFailed(p)
    PROVE  FleetInv' /\ (Changes \/ Still)
<1> DEFINE m == tx[p].id
<1>1. TypeOK /\ AllHandlers /\ HasFailed(p) /\ tx[p].pc = "fail" /\ CanBegin
  BY DEF FleetInv, AllHandlers, Handler, MarkFailed
<1>2. m \in DOMAIN mv /\ tx[p].kind \in {"outbound", "returning"}
  BY <1>1 DEF HasFailed
<1>3. /\ UNCHANGED <<owner, ships, stock, acted, reported, recalled, gone, found, faults>>
      /\ Quit(p) /\ faults \in 0..MaxFaults /\ reported \subseteq DOMAIN mv
  BY <1>1, TypeFacts DEF MarkFailed, Planets, Counts
<1>4. CASE mv[m].status = tx[p].kind
  <2>1. Alone(p, m)
    <3>1. ASSUME NEW q \in Procs \ {p}, tx[q].pc = "ark", tx[q].id = m PROVE FALSE
      <4>1. HasLanded(q)
        BY <1>1, <3>1 DEF AllHandlers, Handler
      <4> QED
        BY <1>1, <1>2, <1>4, <3>1, <4>1 DEF HasLanded, HasFailed, Landing
    <3> QED
      BY <1>1, <3>1, BeginsAlone DEF Alone
  <2>2. mv' = Turned(m, "failed") /\ mv[m].status \in Active
    BY <1>2, <1>4 DEF MarkFailed, Claims, Active
  <2> HIDE DEF m
  <2>3. Change(m, "failed", mv[m].ships, mv[m].cargo, mv[m].from, 0, 0)
    BY <1>1, <1>2, <1>3, <2>2, FailChange
  <2> QED
    BY <1>3, <2>1, <2>3, MoveKeeps
<1>5. CASE mv[m].status # tx[p].kind
  <2>1. mv' = mv
    BY <1>5 DEF MarkFailed, Claims
  <2> QED
    BY <1>3, <2>1, ProcessQuits DEF Still
<1> QED
  BY <1>4, <1>5

(* The repair script sends a stuck fleet home. *)
LEMMA RepairSafe ==
    ASSUME ~Postgres, FleetInv, NEW m \in DOMAIN mv, RepairStuck(m)
    PROVE  FleetInv' /\ Changes
<1>1. TypeOK /\ AllSeaworthy /\ AllHandlers /\ Undone /\ OneRunner
  BY DEF FleetInv
<1>2. /\ UNCHANGED <<owner, ships, stock, tx, acted, reported, recalled, gone, found>>
      /\ mv[m].status \in Active /\ mv' = Turned(m, "failed")
      /\ faults' = faults + 1 /\ faults < MaxFaults
      /\ mv[m].status = "outbound" \/ ~Landing(m)
      /\ CanBegin
  BY DEF RepairStuck, Planets, Counts, Active
<1>3. faults' \in 0..MaxFaults
  <2>1. faults \in 0..MaxFaults /\ MaxFaults \in Nat
    BY <1>1, TypeFacts, FleetAssumption
  <2> QED
    BY <1>2, <2>1
<1>4. Change(m, "failed", mv[m].ships, mv[m].cargo, mv[m].from, 0, 0)
  BY <1>1, <1>2, <1>3, FailChange
<1>5. TypeOK' /\ AllSeaworthy' /\ Undone'
  BY <1>1, <1>2, <1>4, TypeFacts, ChangeKeeps
<1>6. NewArks(m)
  BY <1>2 DEF NewArks
<1>7. ASSUME NEW q \in Procs PROVE Handler(q)'
  <2>1. Handler(q) /\ tx'[q] = tx[q] /\ tx[q].pc # "run"
    BY <1>1, <1>2, BeginsAlone DEF AllHandlers
  <2>2. tx[q].pc = "ark" => tx[q].id # m
    BY <1>2, <2>1 DEF Handler, HasLanded, Landing
  <2> QED
    BY <1>1, <1>4, <1>6, <2>1, <2>2, HandlerStays
<1>8. OneRunner'
  BY <1>1, <1>2 DEF OneRunner
<1>9. Changes
  BY <1>4 DEF Changes
<1> QED
  BY <1>5, <1>7, <1>8, <1>9 DEF FleetInv, AllHandlers

(* What a process is left with. *)
Left(t, pc) == [pc |-> pc, kind |-> t.kind, id |-> t.id, row |-> t.row, seen |-> t.seen]

(* What a process is left with when its handler goes on. *)
LEMMA ContinuesEffect ==
    ASSUME TypeOK, NEW p \in Procs, NEW pc \in {"ark", "fail"}, Continues(p, pc)
    PROVE  /\ Left(tx[p], pc) \in TxType /\ tx' = [tx EXCEPT ![p] = Left(tx[p], pc)]
           /\ tx' \in [Procs -> TxType] /\ tx'[p] = Left(tx[p], pc)
           /\ \A q \in Procs : q # p => tx'[q] = tx[q]
<1>1. tx[p] \in TxType
  BY TypeFacts
<1>2. Left(tx[p], pc) \in TxType
  BY <1>1 DEF Left, TxType
<1>3. tx' = [tx EXCEPT ![p] = Left(tx[p], pc)]
  BY DEF Continues, Left
<1> QED
  BY <1>2, <1>3, Puts

Begun(kind, id, row, seen) ==
    [pc |-> "run", kind |-> kind, id |-> id, row |-> row, seen |-> seen]

(* What a process is given when its handler begins. *)
LEMMA BeginsEffect ==
    ASSUME TypeOK, NEW p \in Procs, NEW kind \in {"send", "recall"} \cup Active,
           NEW id \in Ids \cup {0}, NEW row \in Rows(Active), NEW seen \in Nat,
           Begins(p, kind, id, row, seen)
    PROVE  LET t == Begun(kind, id, row, seen) IN
           /\ t \in TxType /\ tx' = [tx EXCEPT ![p] = t] /\ tx'[p] = t
           /\ t.pc = "run" /\ t.kind = kind /\ t.id = id /\ t.row = row /\ t.seen = seen
           /\ \A q \in Procs : q # p => tx'[q] = tx[q]
<1> DEFINE t == Begun(kind, id, row, seen)
<1>1. t \in TxType
  BY DEF Begun, TxType
<1>2. tx' = [tx EXCEPT ![p] = t]
  BY DEF Begins, Begun
<1>3. t.pc = "run" /\ t.kind = kind /\ t.id = id /\ t.row = row /\ t.seen = seen
  BY DEF Begun
<1> HIDE DEF t
<1>4. tx'[p] = t /\ \A q \in Procs : q # p => tx'[q] = tx[q]
  BY <1>1, <1>2, Puts
<1> QED
  BY <1>1, <1>2, <1>3, <1>4 DEF t

(* The founder holds the ark he has claimed. *)
LEMMA FoundSafe ==
    ASSUME FleetInv, NEW p \in Procs, Found(p)
    PROVE  FleetInv' /\ Changes
<1> DEFINE row == tx[p].row
           m == tx[p].id
           t == Left(tx[p], "ark")
<1>1. tx[p].pc = "run" /\ tx[p].kind = "outbound" /\ row.mission = "colonize"
      /\ TypeOK /\ AllSeaworthy /\ AllHandlers /\ Undone
  BY DEF Found, Resolves, FleetInv
<1>2. /\ m \in DOMAIN mv /\ row = mv[m] /\ Seaworthy(row) /\ Alone(p, m)
      /\ row.from \in Places /\ row.ships \in Nat /\ row.cargo \in Nat
      /\ mv[m].status = "outbound"
  BY <1>1, Running
<1>3. row.ships > 0 /\ row.cargo = 0
  BY <1>1, <1>2 DEF Seaworthy
<1>4. /\ mv' = Moved(m, "returning", row.ships, 0)
      /\ owner' = [owner EXCEPT ![row.to] = row.player]
      /\ stock' = [stock EXCEPT ![row.to] = @ + Founding]
      /\ found' = [ships |-> found.ships + 0, cargo |-> found.cargo + Founding]
      /\ acted' = Bump(acted, m) /\ MayFound(row) /\ Continues(p, "ark")
      /\ UNCHANGED <<ships, reported, recalled, gone, faults>>
  BY DEF Found, BringIn
<1>5. /\ tx' \in [Procs -> TxType] /\ tx'[p] = t
      /\ \A q \in Procs : q # p => tx'[q] = tx[q]
  BY <1>1, <1>4, ContinuesEffect
<1>6. t.pc = "ark" /\ t.id = m /\ t.row = row /\ t.kind = "outbound"
  BY <1>1 DEF Left
<1> HIDE DEF row, m, t
<1>7. Effects(m, "returning") /\ Settlement(m)
  BY <1>1, <1>2, <1>4 DEF Effects, Settlement
<1>8. Gains(ships, ships', row.to, 0) /\ Gains(stock, stock', row.to, Founding)
      /\ faults \in 0..MaxFaults /\ row.to \in Places /\ Founding \in Nat
  <2>1. row.to \in Places /\ Founding \in Nat
    BY <1>1, <1>2, FleetAssumption DEF Seaworthy
  <2> QED
    BY <1>1, <1>4, <2>1, TypeFacts, GainsNone, GainsAdd
<1>9. Books(m, row.ships, 0, 0, Founding)
  <2>1. /\ gone' = gone /\ gone \in Tally
        /\ found.ships \in Nat /\ found.cargo \in Nat /\ Founding \in Nat
    BY <1>1, <1>4, <1>8, TypeFacts
  <2>2. /\ found' \in Tally
        /\ found'.ships = found.ships /\ found'.cargo = found.cargo + Founding
    BY <1>4, <2>1 DEF Tally
  <2>3. /\ mv[m].ships = row.ships /\ mv[m].cargo = 0 /\ row.ships \in Nat
        /\ gone.ships \in Nat /\ gone.cargo \in Nat
    BY <1>2, <1>3, <2>1 DEF Tally
  <2> QED
    BY <2>1, <2>2, <2>3 DEF Books
<1>10. Change(m, "returning", row.ships, 0, row.to, 0, Founding)
  BY <1>1, <1>2, <1>4, <1>7, <1>8, <1>9 DEF Change, Status, Active
<1>11. TypeOK' /\ AllSeaworthy' /\ Undone'
  BY <1>1, <1>5, <1>10, ChangeKeeps
<1>12. NewArks(m)
  BY <1>2, <1>5, <1>6 DEF NewArks
<1>13. ASSUME NEW q \in Procs, q # p PROVE Handler(q)'
  BY <1>1, <1>2, <1>5, <1>10, <1>12, <1>13, HandlerStays DEF AllHandlers, Alone
<1>14. Handler(p)'
  <2>1. /\ m \in DOMAIN mv' /\ mv'[m].status = "returning" /\ mv'[m].cargo = 0
        /\ mv'[m].ships = row.ships /\ mv'[m].mission = "colonize"
    BY <1>1, <1>2, <1>4, MovedEffect DEF Status, Active
  <2>2. \A q \in Procs : tx'[q].pc = "ark" /\ tx'[q].id = m => q = p
    BY <1>2, <1>5 DEF Alone
  <2> QED
    BY <1>3, <1>5, <1>6, <2>1, <2>2 DEF Handler, HasLanded
<1>15. OneRunner'
  BY <1>2, <1>5, <1>6 DEF OneRunner, Alone
<1>16. Changes
  BY <1>10 DEF Changes
<1> QED
  BY <1>11, <1>13, <1>14, <1>15, <1>16 DEF FleetInv, AllHandlers

(* A refused colony, an exception, a death: no planet and no fleet changes. *)
LEMMA QuitsSafe ==
    ASSUME FleetInv, NEW p \in Procs, FoundRefused(p) \/ Raise(p) \/ Crash(p)
    PROVE  FleetInv' /\ Still
<1>1. TypeOK /\ Still
  BY DEF FleetInv, FoundRefused, Raise, Crash, Planets, Counts, Still
<1>2. faults' \in 0..MaxFaults
  <2>1. faults \in 0..MaxFaults /\ MaxFaults \in Nat
    BY <1>1, TypeFacts, FleetAssumption
  <2> QED
    BY <2>1 DEF FoundRefused, Raise, Crash
<1>3. CASE FoundRefused(p)
  <2>1. tx[p].pc = "run" /\ tx[p].kind = "outbound"
    BY <1>3 DEF FoundRefused, Resolves
  <2>2. tx[p].id \in DOMAIN mv
    BY <2>1, RunnerAlone DEF HasRead
  <2>3. reported' \subseteq DOMAIN mv /\ Quit(p)
    BY <1>1, <1>3, <2>2, TypeFacts DEF FoundRefused
  <2> QED
    BY <1>1, <1>2, <2>3, ProcessQuits DEF Still
<1>4. reported \subseteq DOMAIN mv
  BY <1>1, TypeFacts
<1>5. CASE Quit(p) /\ (Raise(p) \/ Crash(p))
  <2>1. reported' = reported
    BY <1>5 DEF Raise, Crash, Counts
  <2> QED
    BY <1>1, <1>2, <1>4, <1>5, <2>1, ProcessQuits DEF Still
<1>6. CASE Raise(p) /\ ~Quit(p)
  <2> DEFINE t == Left(tx[p], "fail")
             m == tx[p].id
  <2>1. /\ Continues(p, "fail") /\ reported' = reported /\ tx[p].pc = "run"
        /\ \/ tx[p].kind = "returning"
           \/ tx[p].kind = "outbound" /\ tx[p].row.mission \in {"attack", "expedition"}
    BY <1>6 DEF Raise, Counts
  <2>2. HasRead(p) /\ Alone(p, m)
    BY <2>1, RunnerAlone
  <2>3. t \in TxType /\ tx' = [tx EXCEPT ![p] = t] /\ tx'[p] = t
        /\ \A q \in Procs : q # p => tx'[q] = tx[q]
    BY <1>1, <2>1, ContinuesEffect
  <2>4. t.pc = "fail" /\ t.id = m /\ t.kind = tx[p].kind
    BY DEF Left
  <2> HIDE DEF t, m
  <2>5. HasFailed(p)'
    <3>1. m \in DOMAIN mv /\ tx[p].row = mv[m] /\ ~Landing(m)
          /\ (tx[p].kind = "returning" => mv[m].status = "returning")
      BY <2>1, <2>2 DEF HasRead, m
    <3>2. ~ \E y \in Procs : tx'[y].pc = "ark" /\ tx'[y].id = tx'[p].id
      BY <2>3, <2>4, <3>1 DEF Landing
    <3>3. mv' = mv
      BY <1>1 DEF Still
    <3> QED
      BY <2>1, <2>3, <2>4, <3>1, <3>2, <3>3 DEF HasFailed, Landing
  <2>6. Handler(p)'
    BY <2>1, <2>3, <2>4, <2>5 DEF Handler
  <2> QED
    BY <1>1, <1>2, <1>4, <2>1, <2>3, <2>4, <2>6, ProcessMoves DEF Still
<1> QED
  BY <1>1, <1>3, <1>5, <1>6 DEF Crash

(* A pass or a recall that reads the row of a fleet. *)
LEMMA TakeUpSafe ==
    ASSUME ~Postgres, FleetInv, NEW p \in Procs, NEW m \in DOMAIN mv,
           TakeUp(p, m) \/ AskRecall(p, m)
    PROVE  FleetInv' /\ Still
<1>1. TypeOK /\ AllHandlers /\ AllSeaworthy
  BY DEF FleetInv
<1>2. Still /\ UNCHANGED <<reported, faults>> /\ CanBegin
  BY DEF TakeUp, AskRecall, Idle, Planets, Counts, Still
<1>3. /\ mv[m] \in Rows(Active) /\ mv[m].status \in Active /\ m \in Ids
      /\ faults \in 0..MaxFaults /\ reported \subseteq DOMAIN mv
  <2>1. mv[m].status \in Active
    BY DEF TakeUp, AskRecall, Active
  <2>2. mv[m] \in Rows(Active)
    BY <1>1, <2>1, RowFacts DEF Rows
  <2> QED
    BY <1>1, <2>1, <2>2, TypeFacts
<1>4. ~Landing(m)
  <2>1. CASE AskRecall(p, m)
    BY <1>1, <2>1 DEF AskRecall, Landing, AllHandlers, Handler, HasLanded
  <2> QED
    BY <2>1 DEF TakeUp
<1>5. \E kind \in {"recall"} \cup Active, seen \in Nat :
        /\ Begins(p, kind, m, mv[m], seen)
        /\ kind = "recall" => mv[m].status \in {"outbound", "holding"}
        /\ kind # "recall" => /\ mv[m].status = kind
                              /\ mv[m].mission = "attack" => seen = ships[mv[m].to]
  <2>1. CASE AskRecall(p, m)
    BY <2>1 DEF AskRecall
  <2>2. CASE TakeUp(p, m)
    <3> DEFINE seen == IF mv[m].mission = "attack" THEN ships[mv[m].to] ELSE 0
    <3>1. mv[m].mission = "attack" => mv[m].to \in Places
      BY <1>1 DEF AllSeaworthy, Seaworthy
    <3>2. seen \in Nat
      BY <1>1, <3>1, TypeFacts
    <3>3. Begins(p, mv[m].status, m, mv[m], seen)
      BY <2>2 DEF TakeUp
    <3>4. mv[m].status # "recall"
      BY <1>3 DEF Active
    <3> QED
      BY <1>3, <3>2, <3>3, <3>4
  <2> QED
    BY <2>1, <2>2
<1>6. PICK kind \in {"recall"} \cup Active, seen \in Nat :
        /\ Begins(p, kind, m, mv[m], seen)
        /\ kind = "recall" => mv[m].status \in {"outbound", "holding"}
        /\ kind # "recall" => /\ mv[m].status = kind
                              /\ mv[m].mission = "attack" => seen = ships[mv[m].to]
  BY <1>5
<1> DEFINE t == Begun(kind, m, mv[m], seen)
<1>7. /\ t \in TxType /\ tx' = [tx EXCEPT ![p] = t] /\ tx'[p] = t
      /\ t.pc = "run" /\ t.kind = kind /\ t.id = m /\ t.row = mv[m] /\ t.seen = seen
      /\ \A q \in Procs : q # p => tx'[q] = tx[q]
  BY <1>1, <1>3, <1>6, BeginsEffect
<1> HIDE DEF t
<1>8. ~Landing(m)'
  BY <1>4, <1>7 DEF Landing
<1>9. Handler(p)'
  <2>1. kind # "send" /\ mv' = mv /\ ships' = ships
    BY <1>2 DEF Active, Still
  <2>2. HasRead(p)'
    BY <1>6, <1>7, <1>8, <2>1 DEF HasRead
  <2> QED
    BY <1>7, <2>1, <2>2 DEF Handler
<1>10. \A q \in Procs : q # p => tx[q].pc # "run"
  BY <1>2, BeginsAlone
<1> QED
  BY <1>2, <1>3, <1>7, <1>9, <1>10, ProcessMoves DEF Still

(* A send reads its origin and its slots while no other process runs. *)
LEMMA ValidateSafe ==
    ASSUME ~Postgres, FleetInv, NEW p \in Procs, Validate(p)
    PROVE  FleetInv' /\ Still
<1>1. TypeOK /\ AllHandlers
  BY DEF FleetInv
<1>2. /\ Still /\ UNCHANGED <<reported, faults>> /\ CanBegin
      /\ Len(mv) + Cardinality({q \in Procs : tx[q].kind = "send"}) < MaxSends
  BY DEF Validate, Idle, Planets, Counts, Still
<1>3. \A q \in Procs : tx[q].pc # "run"
  BY <1>2, BeginsAlone
<1>4. Len(mv) < MaxSends
  <2> DEFINE senders == {q \in Procs : tx[q].kind = "send"}
  <2>1. senders = {}
    BY <1>1, <1>3 DEF AllHandlers, Handler
  <2>2. Len(mv) + Cardinality(senders) < MaxSends
    BY <1>2
  <2> HIDE DEF senders
  <2>3. Cardinality(senders) = 0
    BY <2>1, FS_EmptySet
  <2> QED
    BY <1>1, <2>2, <2>3, TypeFacts
<1>5. PICK from \in Places, mission \in Missions :
        LET u == owner[from] IN
        /\ u # Nobody /\ Unlocked(from)
        /\ SlotFree(u)
        /\ \E to \in Targets(u, mission) \ {from}, n \in 1..ships[from], c \in 0..stock[from] :
             /\ c <= n
             /\ mission = "colonize" => c = 0
             /\ Begins(p, "send", 0,
                       [player |-> u, from |-> from, to |-> to, mission |-> mission,
                        status |-> "outbound", ships |-> n, cargo |-> c], 0)
  BY Zenon DEF Validate
<1>6. PICK to \in Targets(owner[from], mission), n \in 1..ships[from], c \in 0..stock[from] :
        /\ c <= n /\ (mission = "colonize" => c = 0)
        /\ Begins(p, "send", 0,
                  [player |-> owner[from], from |-> from, to |-> to, mission |-> mission,
                   status |-> "outbound", ships |-> n, cargo |-> c], 0)
  BY <1>5
<1>7. /\ ships[from] \in Nat /\ stock[from] \in Nat /\ owner[from] \in Players
      /\ n \in Nat /\ c \in Nat /\ n > 0 /\ n <= ships[from] /\ c <= stock[from]
  BY <1>1, <1>5, TypeFacts
<1>8. (mission # "expedition" => to \in Places) /\ to \in Places \cup {Space}
  BY <1>6, FleetAssumption DEF Targets
<1> DEFINE sent == [player |-> owner[from], from |-> from, to |-> to, mission |-> mission,
                    status |-> "outbound", ships |-> n, cargo |-> c]
<1>9. /\ sent \in Rows({"outbound"}) /\ sent \in Rows(Active) /\ Seaworthy(sent)
      /\ sent.from = from /\ sent.player = owner[from] /\ sent.ships = n /\ sent.cargo = c
  BY <1>6, <1>7, <1>8 DEF Rows, Active, Seaworthy
<1>10. Begins(p, "send", 0, sent, 0)
  BY <1>6
<1> HIDE DEF sent
<1>11. PICK row \in Rows({"outbound"}) :
        /\ row \in Rows(Active) /\ Seaworthy(row) /\ Begins(p, "send", 0, row, 0)
        /\ row.ships <= ships[row.from] /\ row.cargo <= stock[row.from]
        /\ UnderWay(row.player) < MaxSlots[row.player]
  BY <1>5, <1>7, <1>9, <1>10 DEF SlotFree
<1> DEFINE t == Begun("send", 0, row, 0)
<1>12. /\ t \in TxType /\ tx' = [tx EXCEPT ![p] = t] /\ tx'[p] = t
       /\ t.pc = "run" /\ t.kind = "send" /\ t.row = row
  BY SMTT(20), <1>1, <1>11, BeginsEffect
<1> HIDE DEF t
<1>13. CanSend(row)'
  BY <1>2, <1>4, <1>11 DEF CanSend, Still, UnderWay, Seaworthy
<1>14. Handler(p)'
  BY <1>12, <1>13 DEF Handler, CanSend
<1> QED
  BY <1>1, <1>2, <1>3, <1>12, <1>14, TypeFacts, ProcessMoves DEF Still

(* A fleet that departs leaves its planet with what it was given. *)
Departure(row) ==
    /\ row \in Rows({"outbound"}) /\ Seaworthy(row)
    /\ UnderWay(row.player) < MaxSlots[row.player]
    /\ Len(mv) < MaxSends /\ mv' = Append(mv, row)
    /\ Gains(ships, ships', row.from, 0 - row.ships)
    /\ Gains(stock, stock', row.from, 0 - row.cargo)
    /\ UNCHANGED <<owner, acted, reported, recalled, gone, found, faults>>

Departs == \E row : Departure(row)

(* The new row is the last one. *)
LEMMA Appended ==
    ASSUME TypeOK, NEW row, Departure(row)
    PROVE  /\ mv' \in Seq(Rows(Status)) /\ Len(mv') = Len(mv) + 1 /\ Len(mv') <= MaxSends
           /\ DOMAIN mv' = DOMAIN mv \cup {Len(mv) + 1} /\ Len(mv) + 1 \notin DOMAIN mv
           /\ mv'[Len(mv) + 1] = row /\ Len(mv) + 1 \in Ids
           /\ \A m \in DOMAIN mv : mv'[m] = mv[m]
<1>1. row \in Rows(Status)
  BY DEF Departure, Rows, Status, Active
<1>2. mv' = Append(mv, row) /\ Len(mv) < MaxSends
  BY DEF Departure
<1> QED
  BY <1>1, <1>2, TypeFacts DEF Ids

(* A send: a new fleet, with ships and cargo from its planet. *)
LEMMA LaunchSafe ==
    ASSUME FleetInv, NEW p \in Procs, Launch(p)
    PROVE  FleetInv' /\ Departs
<1> DEFINE row == tx[p].row
<1>1. /\ TypeOK /\ OneRunner /\ AllSeaworthy /\ AllHandlers /\ Undone
      /\ tx[p].pc = "run" /\ tx[p].kind = "send"
  BY DEF FleetInv, Launch
<1>2. CanSend(row)
  BY <1>1 DEF AllHandlers, Handler
<1>3. row.from \in Places /\ row.ships \in Nat /\ row.cargo \in Nat
  BY <1>2 DEF CanSend, Rows
<1>4. row.ships <= ships[row.from] /\ row.cargo <= stock[row.from] /\ ships[row.from] \in Nat
  BY <1>1, <1>2, <1>3, TypeFacts DEF CanSend
<1>5. /\ ships' = [ships EXCEPT ![row.from] = @ - row.ships]
      /\ stock' = [stock EXCEPT ![row.from] = @ - row.cargo]
      /\ mv' = Append(mv, row) /\ Quit(p)
      /\ UNCHANGED <<owner, acted, reported, recalled, gone, found, faults>>
  BY <1>3, <1>4 DEF Launch, Debited, Counts
<1> HIDE DEF row
<1>6. /\ Gains(ships, ships', row.from, 0 - row.ships)
      /\ Gains(stock, stock', row.from, 0 - row.cargo)
  BY <1>1, <1>3, <1>4, <1>5, TypeFacts, GainsTake
<1>7. Departure(row)
  BY <1>2, <1>5, <1>6 DEF CanSend, Departure
<1>8. /\ mv' \in Seq(Rows(Status)) /\ Len(mv') = Len(mv) + 1 /\ Len(mv') <= MaxSends
      /\ DOMAIN mv' = DOMAIN mv \cup {Len(mv) + 1} /\ Len(mv) + 1 \notin DOMAIN mv
      /\ mv'[Len(mv) + 1] = row
      /\ \A m \in DOMAIN mv : mv'[m] = mv[m]
  BY <1>1, <1>7, Appended
<1>9. tx' \in [Procs -> TxType] /\ tx'[p] = NoTx /\ \A q \in Procs : q # p => tx'[q] = tx[q]
  BY <1>1, <1>5, NoTxType, Puts DEF Quit
<1>10. TypeOK'
  <2>1. ships' \in [Places -> Nat] /\ stock' \in [Places -> Nat]
    BY <1>1, <1>3, <1>6, TypeFacts DEF Gains
  <2> QED
    BY <1>1, <1>5, <1>8, <1>9, <2>1, TypeFacts DEF TypeOK, TxType, Tally
<1>11. AllSeaworthy'
  BY <1>1, <1>2, <1>8 DEF AllSeaworthy, CanSend, Seaworthy
<1>12. Undone'
  BY <1>1, <1>5, <1>8 DEF Undone
<1>13. OneRunner'
  BY <1>1, <1>9, NoTxType DEF OneRunner
<1>14. Handler(p)'
  BY <1>9, NoTxType DEF Handler
<1>15. ASSUME NEW q \in Procs, q # p PROVE Handler(q)'
  <2>1. Handler(q) /\ tx[q].pc # "run" /\ tx'[q] = tx[q]
    BY <1>1, <1>9, <1>15 DEF AllHandlers, OneRunner
  <2>2. \A i : ~Landing(i) => ~Landing(i)'
    BY <1>9, NoTxType DEF Landing
  <2>3. tx[q].pc = "ark" => HasLanded(q)'
    BY <1>8, <1>9, <2>1, NoTxType DEF Handler, HasLanded
  <2>4. tx[q].pc = "fail" => HasFailed(q)'
    BY <1>8, <2>1, <2>2 DEF Handler, HasFailed
  <2>5. tx[q].pc = "ark" => tx[q].id \in DOMAIN mv
    BY <2>1 DEF Handler, HasLanded
  <2> QED
    BY <1>8, <2>1, <2>3, <2>4, <2>5 DEF Handler
<1>16. Departs
  BY <1>7 DEF Departs
<1> QED
  BY <1>10, <1>11, <1>12, <1>13, <1>14, <1>15, <1>16 DEF FleetInv, AllHandlers

-----------------------------------------------------------------------------
(* The invariant. *)

(* The invariant holds before the first fleet. *)
LEMMA InitSafe == Init => FleetInv
<1> SUFFICES ASSUME Init PROVE FleetInv
  OBVIOUS
<1>1. mv = <<>> /\ DOMAIN mv = {} /\ Len(mv) = 0 /\ mv \in Seq(Rows(Status))
  BY DEF Init
<1>2. TypeOK
  <2>1. gone \in [ships : Nat, cargo : Nat]
    BY DEF Init
  <2>2. tx \in [Procs -> TxType]
    BY NoTxType DEF Init
  <2> QED
    BY <1>1, <2>1, <2>2, FleetAssumption DEF Init, TypeOK, TxType
<1>3. \A p \in Procs : tx[p] = NoTx
  BY DEF Init
<1> QED
  BY <1>1, <1>2, <1>3, NoTxType
  DEF Init, FleetInv, OneRunner, AllSeaworthy, AllHandlers, Handler, Undone

(* Every step keeps it; and it moves one fleet, lets one depart, or leaves   *)
(* planets and fleets alone.                                                 *)
LEMMA StepSafe ==
    ASSUME ~Postgres, FleetInv, [Next]_vars
    PROVE  FleetInv' /\ (Changes \/ Departs \/ Still)
<1>1. CASE UNCHANGED vars
  <2>1. /\ UNCHANGED <<owner, ships, stock, mv, tx>>
        /\ UNCHANGED <<acted, reported, recalled, gone, found, faults>>
    BY <1>1 DEF vars
  <2>2. TypeOK' /\ OneRunner' /\ AllSeaworthy' /\ Undone'
    BY <2>1 DEF FleetInv, TypeOK, OneRunner, AllSeaworthy, Seaworthy, Undone
  <2>3. ASSUME NEW p \in Procs PROVE Handler(p)'
    <3>1. Handler(p)
      BY DEF FleetInv, AllHandlers
    <3>2. CanSend(tx[p].row) => CanSend(tx[p].row)'
      BY <2>1 DEF CanSend, UnderWay, Seaworthy
    <3>3. HasRead(p) => HasRead(p)'
      BY <2>1 DEF HasRead, Landing
    <3>4. (HasLanded(p) => HasLanded(p)') /\ (HasFailed(p) => HasFailed(p)')
      BY <2>1 DEF HasLanded, HasFailed, Landing
    <3> QED
      BY <2>1, <3>1, <3>2, <3>3, <3>4 DEF Handler
  <2> QED
    BY <2>1, <2>2, <2>3 DEF FleetInv, AllHandlers, Still
<1>2. ASSUME NEW m \in DOMAIN mv, RepairStuck(m) PROVE FleetInv' /\ Changes
  BY <1>2, RepairSafe
<1>3. ASSUME NEW p \in Procs, NEW m \in DOMAIN mv, TakeUp(p, m) \/ AskRecall(p, m)
      PROVE  FleetInv' /\ Still
  BY <1>3, TakeUpSafe
<1>4. ASSUME NEW p \in Procs, Resolve(p) PROVE FleetInv' /\ (Changes \/ Still)
  <2>1. CASE Transport(p)
    BY <2>1, TransportSafe
  <2>2. CASE Collect(p)
    BY <2>2, CollectSafe
  <2>3. CASE Deploy(p)
    BY <2>3, DeploySafe
  <2>4. CASE Attack(p)
    BY <2>4, AttackSafe
  <2>5. CASE Stay(p)
    BY <2>5, StaySafe
  <2>6. CASE LeavePost(p)
    BY <2>6, LeavePostSafe
  <2>7. CASE ExpeditionEnds(p)
    BY <2>7, ExpeditionSafe
  <2>8. CASE Found(p)
    BY <2>8, FoundSafe
  <2>9. CASE FoundRefused(p)
    BY <2>9, QuitsSafe
  <2>10. CASE UseArk(p)
    BY <2>10, UseArkSafe
  <2>11. CASE Return(p)
    BY <2>11, ReturnSafe
  <2> QED
    BY <1>4, <2>1, <2>2, <2>3, <2>4, <2>5, <2>6, <2>7, <2>8, <2>9, <2>10, <2>11 DEF Resolve
<1>5. ASSUME NEW p \in Procs, Validate(p) \/ Launch(p)
      PROVE  FleetInv' /\ (Departs \/ Still)
  BY <1>5, ValidateSafe, LaunchSafe
<1>6. ASSUME NEW p \in Procs,
             Recall(p) \/ AttackBreaks(p) \/ Raise(p) \/ MarkFailed(p) \/ Crash(p)
      PROVE  FleetInv' /\ (Changes \/ Still)
  BY <1>6, RecallSafe, AttackSafe, QuitsSafe, MarkFailedSafe
<1> QED
  BY <1>1, <1>2, <1>3, <1>4, <1>5, <1>6 DEF Next

-----------------------------------------------------------------------------
(* Ships and cargo. *)

Aboard(rows) == [m \in DOMAIN rows |-> rows[m].ships]
Loaded(rows) == [m \in DOMAIN rows |-> rows[m].cargo]

(* A total is a sum over the domain. *)
LEMMA TotalIs ==
    ASSUME NEW S, NEW f, DOMAIN f = S
    PROVE  Total(f) = SumOf(S, f)
<1>1. Total(f) = SumOf(DOMAIN f, f)
  BY DEF Total, SumOf
<1> QED
  BY <1>1

(* The total of what the planets have grows by what one of them gains.       *)
LEMMA GainsTotal ==
    ASSUME NEW f \in [Places -> Nat], NEW x \in Places, NEW d \in Int,
           NEW g, Gains(f, g, x, d)
    PROVE  Total(f) \in Int /\ Total(g) = Total(f) + d
<1>1. Integral(Places, f)
  BY FleetAssumption DEF Integral
<1>2. DOMAIN f = Places /\ DOMAIN g = Places /\ g[x] = f[x] + d
      /\ \A y \in Places \ {x} : g[y] = f[y]
  BY DEF Gains
<1>3. SumOf(Places, g) = SumOf(Places, f) + d /\ SumOf(Places, f) \in Int
  BY <1>1, <1>2, SumAfter, SumType
<1> QED
  BY <1>2, <1>3, TotalIs

(* What the fleets carry can be added up. *)
LEMMA FleetsAddUp ==
    ASSUME TypeOK
    PROVE  /\ Integral(DOMAIN mv, Aboard(mv)) /\ Integral(DOMAIN mv, Loaded(mv))
           /\ Total(Aboard(mv)) = SumOf(DOMAIN mv, Aboard(mv))
           /\ Total(Loaded(mv)) = SumOf(DOMAIN mv, Loaded(mv))
           /\ Total(Aboard(mv)) \in Int /\ Total(Loaded(mv)) \in Int
<1>1. IsFiniteSet(DOMAIN mv)
  BY TypeFacts, FS_Interval
<1>2. Integral(DOMAIN mv, Aboard(mv)) /\ Integral(DOMAIN mv, Loaded(mv))
  BY <1>1, RowFacts DEF Integral, Aboard, Loaded
<1>3. DOMAIN Aboard(mv) = DOMAIN mv /\ DOMAIN Loaded(mv) = DOMAIN mv
  BY DEF Aboard, Loaded
<1> QED
  BY <1>2, <1>3, TotalIs, SumType

(* One fleet moves: the total changes by what it changes. *)
LEMMA MovedTotal ==
    ASSUME TypeOK, NEW m, NEW status, NEW n, NEW c, NEW x, NEW s, NEW k,
           Change(m, status, n, c, x, s, k)
    PROVE  /\ Total(Aboard(mv')) = Total(Aboard(mv)) + (n - mv[m].ships)
           /\ Total(Loaded(mv')) = Total(Loaded(mv)) + (c - mv[m].cargo)
<1>1. m \in DOMAIN mv /\ status \in Status /\ n \in Nat /\ c \in Nat
      /\ mv' = Moved(m, status, n, c)
  BY DEF Change
<1>2. /\ DOMAIN mv' = DOMAIN mv /\ mv'[m].ships = n /\ mv'[m].cargo = c
      /\ \A j \in DOMAIN mv : j # m => mv'[j] = mv[j]
  BY <1>1, MovedEffect
<1>3. mv[m].ships \in Nat /\ mv[m].cargo \in Nat
  BY <1>1, RowFacts
<1>4. /\ Aboard(mv')[m] = Aboard(mv)[m] + (n - mv[m].ships)
      /\ Loaded(mv')[m] = Loaded(mv)[m] + (c - mv[m].cargo)
      /\ n - mv[m].ships \in Int /\ c - mv[m].cargo \in Int
  BY <1>1, <1>2, <1>3 DEF Aboard, Loaded
<1>5. \A j \in DOMAIN mv \ {m} :
         Aboard(mv')[j] = Aboard(mv)[j] /\ Loaded(mv')[j] = Loaded(mv)[j]
  BY <1>2 DEF Aboard, Loaded
<1>6. /\ SumOf(DOMAIN mv, Aboard(mv')) = SumOf(DOMAIN mv, Aboard(mv)) + (n - mv[m].ships)
      /\ SumOf(DOMAIN mv, Loaded(mv')) = SumOf(DOMAIN mv, Loaded(mv)) + (c - mv[m].cargo)
  BY <1>1, <1>4, <1>5, FleetsAddUp, SumAfter
<1>7. DOMAIN Aboard(mv') = DOMAIN mv /\ DOMAIN Loaded(mv') = DOMAIN mv
  BY <1>2 DEF Aboard, Loaded
<1> QED
  BY <1>6, <1>7, FleetsAddUp, TotalIs

(* One fleet departs: the total grows by what it takes along. *)
LEMMA DepartedTotal ==
    ASSUME TypeOK, NEW row, Departure(row)
    PROVE  /\ Total(Aboard(mv')) = Total(Aboard(mv)) + row.ships
           /\ Total(Loaded(mv')) = Total(Loaded(mv)) + row.cargo
<1> DEFINE m == Len(mv) + 1
<1>1. /\ DOMAIN mv' = DOMAIN mv \cup {m} /\ m \notin DOMAIN mv /\ mv'[m] = row
      /\ \A j \in DOMAIN mv : mv'[j] = mv[j]
  BY Appended
<1>2. row.ships \in Nat /\ row.cargo \in Nat
  BY DEF Departure, Rows
<1> HIDE DEF m
<1>3. /\ Aboard(mv')[m] = row.ships /\ Loaded(mv')[m] = row.cargo
      /\ \A j \in DOMAIN mv : Aboard(mv')[j] = Aboard(mv)[j] /\ Loaded(mv')[j] = Loaded(mv)[j]
  BY <1>1 DEF Aboard, Loaded
<1>4. /\ SumOf(DOMAIN mv', Aboard(mv')) = SumOf(DOMAIN mv, Aboard(mv)) + row.ships
      /\ SumOf(DOMAIN mv', Loaded(mv')) = SumOf(DOMAIN mv, Loaded(mv)) + row.cargo
  BY <1>1, <1>2, <1>3, FleetsAddUp, SumAdd
<1>5. DOMAIN Aboard(mv') = DOMAIN mv' /\ DOMAIN Loaded(mv') = DOMAIN mv'
  BY DEF Aboard, Loaded
<1> QED
  BY <1>4, <1>5, FleetsAddUp, TotalIs

Conserved == ShipsConserved /\ CargoConserved

(* The same in terms of what the fleets carry. *)
Balanced(some, cargo, rows, used, finds) ==
    /\ Total(some) + Total(Aboard(rows)) + used.ships = Total(Ships0) + finds.ships
    /\ Total(cargo) + Total(Loaded(rows)) + used.cargo = Total(Stock0) + finds.cargo

(* At the start everything is on the planets. *)
LEMMA InitConserved == Init => Conserved
<1> SUFFICES ASSUME Init PROVE Conserved
  OBVIOUS
<1>1. ships = Ships0 /\ stock = Stock0 /\ gone.ships = 0 /\ gone.cargo = 0
      /\ found.ships = 0 /\ found.cargo = 0
      /\ DOMAIN mv = {} /\ TypeOK
  BY InitSafe DEF Init, FleetInv
<1>2. Total(ships) \in Int /\ Total(stock) \in Int
  <2>2. Integral(Places, ships) /\ Integral(Places, stock)
        /\ DOMAIN ships = Places /\ DOMAIN stock = Places
    BY <1>1, TypeFacts, FleetAssumption DEF Integral
  <2> QED
    BY <2>2, TotalIs, SumType
<1>3. Total(Aboard(mv)) = 0 /\ Total(Loaded(mv)) = 0
  BY <1>1, FleetsAddUp, SumEmpty
<1>4. Balanced(ships, stock, mv, gone, found)
  BY <1>1, <1>2, <1>3 DEF Balanced
<1> QED
  BY <1>4 DEF Balanced, Conserved, ShipsConserved, CargoConserved, Aboard, Loaded

(* Every step keeps the sums of ships and of cargo. *)
LEMMA StepConserved ==
    ASSUME TypeOK, Conserved, Changes \/ Departs \/ Still
    PROVE  Conserved'
<1>1. Balanced(ships, stock, mv, gone, found)
  BY DEF Conserved, ShipsConserved, CargoConserved, Balanced, Aboard, Loaded
<1>2. /\ ships \in [Places -> Nat] /\ stock \in [Places -> Nat]
      /\ gone.ships \in Nat /\ gone.cargo \in Nat
      /\ found \in Tally /\ found.ships \in Nat /\ found.cargo \in Nat
      /\ Total(Aboard(mv)) \in Int /\ Total(Loaded(mv)) \in Int
  BY TypeFacts, FleetsAddUp
<1>3. Total(Ships0) \in Int /\ Total(Stock0) \in Int
  <2>1. /\ Integral(Places, Ships0) /\ Integral(Places, Stock0)
        /\ DOMAIN Ships0 = Places /\ DOMAIN Stock0 = Places
    BY FleetAssumption DEF Integral
  <2> QED
    BY <2>1, TotalIs, SumType
<1>4. CASE Changes
  <2>1. PICK m, status, n, c, x, s, k : Change(m, status, n, c, x, s, k)
    BY <1>4 DEF Changes
  <2>2. /\ m \in DOMAIN mv /\ n \in Nat /\ c \in Nat /\ x \in Places /\ s \in Int /\ k \in Int
        /\ Gains(ships, ships', x, s) /\ Gains(stock, stock', x, k)
        /\ Books(m, n, c, s, k)
    BY <2>1 DEF Change
  <2>3. /\ Total(ships) \in Int /\ Total(ships') = Total(ships) + s
        /\ Total(stock) \in Int /\ Total(stock') = Total(stock) + k
    BY <1>2, <2>2, GainsTotal
  <2>4. /\ Total(Aboard(mv')) = Total(Aboard(mv)) + (n - mv[m].ships)
        /\ Total(Loaded(mv')) = Total(Loaded(mv)) + (c - mv[m].cargo)
    BY <2>1, MovedTotal
  <2>5. mv[m].ships \in Nat /\ mv[m].cargo \in Nat
    BY <2>2, RowFacts
  <2>6. /\ gone'.ships \in Nat /\ gone'.cargo \in Nat
        /\ found'.ships \in Nat /\ found'.cargo \in Nat
        /\ n + s + gone'.ships + found.ships = mv[m].ships + gone.ships + found'.ships
        /\ c + k + gone'.cargo + found.cargo = mv[m].cargo + gone.cargo + found'.cargo
    BY <2>2 DEF Books, Tally
  <2>7. Total(ships') + Total(Aboard(mv')) + gone'.ships
            = Total(Ships0) + found'.ships
    <3>1. Total(ships) + Total(Aboard(mv)) + gone.ships = Total(Ships0) + found.ships
      BY <1>1 DEF Balanced
    <3> QED
      BY <1>2, <1>3, <2>2, <2>3, <2>4, <2>5, <2>6, <3>1
  <2>8. Total(stock') + Total(Loaded(mv')) + gone'.cargo
            = Total(Stock0) + found'.cargo
    <3>1. Total(stock) + Total(Loaded(mv)) + gone.cargo = Total(Stock0) + found.cargo
      BY <1>1 DEF Balanced
    <3> QED
      BY <1>2, <1>3, <2>2, <2>3, <2>4, <2>5, <2>6, <3>1
  <2> QED
    BY <2>7, <2>8 DEF Conserved, ShipsConserved, CargoConserved, Aboard, Loaded
<1>5. CASE Departs
  <2>1. PICK row : Departure(row)
    BY <1>5 DEF Departs
  <2>2. /\ row.from \in Places /\ row.ships \in Nat /\ row.cargo \in Nat
        /\ Gains(ships, ships', row.from, 0 - row.ships)
        /\ Gains(stock, stock', row.from, 0 - row.cargo)
        /\ gone' = gone /\ found' = found
    BY <2>1 DEF Departure, Rows
  <2>3. 0 - row.ships \in Int /\ 0 - row.cargo \in Int
    BY <2>2
  <2>4. /\ Total(ships) \in Int /\ Total(ships') = Total(ships) + (0 - row.ships)
        /\ Total(stock) \in Int /\ Total(stock') = Total(stock) + (0 - row.cargo)
    BY <1>2, <2>2, <2>3, GainsTotal
  <2>5. /\ Total(Aboard(mv')) = Total(Aboard(mv)) + row.ships
        /\ Total(Loaded(mv')) = Total(Loaded(mv)) + row.cargo
    BY <2>1, DepartedTotal
  <2>6. Balanced(ships', stock', mv', gone', found')
    BY <1>1, <1>2, <1>3, <2>2, <2>4, <2>5 DEF Balanced
  <2> QED
    BY <2>6 DEF Balanced, Conserved, ShipsConserved, CargoConserved, Aboard, Loaded
<1>6. CASE Still
  <2>1. Balanced(ships', stock', mv', gone', found')
    BY <1>1, <1>6 DEF Still
  <2> QED
    BY <2>1 DEF Balanced, Conserved, ShipsConserved, CargoConserved, Aboard, Loaded
<1> QED
  BY <1>4, <1>5, <1>6

-----------------------------------------------------------------------------
(* Slots. *)

Fleets(u) == {m \in DOMAIN mv : mv[m].player = u /\ mv[m].status \in Active}

(* A fleet that ends frees a slot; one that departs found one free. *)
LEMMA StepSlots ==
    ASSUME TypeOK, SlotsRespected, Changes \/ Departs \/ Still
    PROVE  SlotsRespected'
<1> SUFFICES ASSUME NEW u \in Players PROVE UnderWay(u)' <= MaxSlots[u]
  BY DEF SlotsRespected
<1>1. /\ IsFiniteSet(DOMAIN mv) /\ IsFiniteSet(Fleets(u)) /\ MaxSlots[u] \in Nat
      /\ Cardinality(Fleets(u)) \in Nat
  <2>1. IsFiniteSet(DOMAIN mv)
    BY TypeFacts, FS_Interval
  <2>2. IsFiniteSet(Fleets(u))
    BY <2>1, FS_Subset DEF Fleets
  <2> QED
    BY <2>1, <2>2, FS_CardinalityType, FleetAssumption
<1>2. UnderWay(u) = Cardinality(Fleets(u)) /\ Cardinality(Fleets(u)) <= MaxSlots[u]
  BY DEF UnderWay, Fleets, SlotsRespected
<1>3. UnderWay(u)' = Cardinality(Fleets(u)')
  BY DEF UnderWay, Fleets
<1>4. CASE Fleets(u)' \subseteq Fleets(u)
  <2>1. PICK T : T = Fleets(u)'
    OBVIOUS
  <2>2. Cardinality(T) <= Cardinality(Fleets(u)) /\ Cardinality(T) \in Nat
    BY <1>1, <1>4, <2>1, FS_Subset, FS_CardinalityType
  <2> QED
    BY <1>1, <1>2, <1>3, <2>1, <2>2
<1>5. CASE Changes
  <2>1. PICK m, status, n, c, x, s, k : Change(m, status, n, c, x, s, k)
    BY <1>5 DEF Changes
  <2>2. m \in DOMAIN mv /\ mv[m].status \in Active /\ status \in Status /\ n \in Nat /\ c \in Nat
        /\ mv' = Moved(m, status, n, c)
    BY <2>1 DEF Change
  <2>3. /\ DOMAIN mv' = DOMAIN mv /\ mv'[m].player = mv[m].player
        /\ \A j \in DOMAIN mv : j # m => mv'[j] = mv[j]
    BY <2>2, MovedEffect
  <2> QED
    BY <1>4, <2>2, <2>3 DEF Fleets
<1>6. CASE Departs
  <2>1. PICK row : Departure(row)
    BY <1>6 DEF Departs
  <2> DEFINE m == Len(mv) + 1
  <2>2. /\ DOMAIN mv' = DOMAIN mv \cup {m} /\ m \notin DOMAIN mv /\ mv'[m] = row
        /\ \A j \in DOMAIN mv : mv'[j] = mv[j]
    BY <2>1, Appended
  <2> HIDE DEF m
  <2>3. CASE row.player # u
    BY <1>4, <2>2, <2>3 DEF Fleets
  <2>4. CASE row.player = u
    <3>1. Fleets(u)' \subseteq Fleets(u) \cup {m} /\ m \notin Fleets(u)
      BY <2>2 DEF Fleets
    <3>2. PICK T : T = Fleets(u)'
      OBVIOUS
    <3>3. PICK U : U = Fleets(u) \cup {m}
      OBVIOUS
    <3>4. IsFiniteSet(U) /\ Cardinality(U) = Cardinality(Fleets(u)) + 1
      BY <1>1, <3>1, <3>3, FS_AddElement
    <3>5. Cardinality(T) <= Cardinality(U) /\ Cardinality(T) \in Nat
      BY <3>1, <3>2, <3>3, <3>4, FS_Subset, FS_CardinalityType
    <3>6. UnderWay(u) < MaxSlots[u]
      BY <2>1, <2>4 DEF Departure
    <3> QED
      BY <1>1, <1>2, <1>3, <3>2, <3>4, <3>5, <3>6
  <2> QED
    BY <2>3, <2>4
<1>7. CASE Still
  BY <1>4, <1>7 DEF Still, Fleets
<1> QED
  BY <1>5, <1>6, <1>7

(* Nobody has a fleet at the start. *)
LEMMA InitSlots == Init => SlotsRespected
<1> SUFFICES ASSUME Init, NEW u \in Players PROVE UnderWay(u) <= MaxSlots[u]
  BY DEF SlotsRespected
<1>1. Fleets(u) = {} /\ UnderWay(u) = Cardinality(Fleets(u))
  BY DEF Init, Fleets, UnderWay
<1>2. Cardinality(Fleets(u)) = 0 /\ MaxSlots[u] \in Nat
  BY <1>1, FS_EmptySet, FleetAssumption
<1> QED
  BY <1>1, <1>2

-----------------------------------------------------------------------------
(* Territory. *)

Colonies(u) == {q \in Places : owner[q] = u}
Homes(u) == {q \in Places : Home[q] = u}
Arks(u) == {m \in DOMAIN mv : mv[m].player = u /\ mv[m].mission = "colonize" /\ acted[m] > 0}

Settled(u, colonies, arks) ==
    /\ Cardinality(colonies) = Cardinality(Homes(u)) + Cardinality(arks)
    /\ Cardinality(colonies) <= MaxColonies

(* The territory adds up when that of every player does. *)
LEMMA TerritoryIs ==
    TerritoryAddsUp <=> \A u \in Players : Settled(u, Colonies(u), Arks(u))
  BY DEF TerritoryAddsUp, Owned, Settled, Colonies, Homes, Arks

(* At the start a player owns his home. *)
LEMMA InitTerritory == Init => TerritoryAddsUp
<1> SUFFICES ASSUME Init, NEW u \in Players PROVE Settled(u, Colonies(u), Arks(u))
  BY TerritoryIs
<1>1. Colonies(u) = Homes(u) /\ Arks(u) = {}
  BY DEF Init, Colonies, Homes, Arks
<1>2. Cardinality(Homes(u)) <= MaxColonies /\ IsFiniteSet(Homes(u))
  BY FleetAssumption, FS_Subset DEF Homes
<1>3. Cardinality(Arks(u)) = 0 /\ Cardinality(Homes(u)) \in Nat
  BY <1>1, <1>2, FS_EmptySet, FS_CardinalityType
<1> QED
  BY <1>1, <1>2, <1>3 DEF Settled

(* A step that founds nothing. *)
LEMMA SameTerritory ==
    ASSUME TerritoryAddsUp,
           \A u \in Players : Colonies(u)' = Colonies(u) /\ Arks(u)' = Arks(u)
    PROVE  TerritoryAddsUp'
<1>1. ASSUME NEW u \in Players PROVE Settled(u, Colonies(u)', Arks(u)')
  <2>1. Settled(u, Colonies(u), Arks(u))
    BY TerritoryIs
  <2> QED
    BY <2>1
<1> QED
  BY <1>1 DEF TerritoryAddsUp, Owned, Settled, Colonies, Homes, Arks

(* An ark founds one colony, of its own player, where there is none. *)
LEMMA StepTerritory ==
    ASSUME TypeOK, AllSeaworthy, Undone, TerritoryAddsUp, Changes \/ Departs \/ Still
    PROVE  TerritoryAddsUp'
<1>1. CASE Still
  <2>1. \A u \in Players : Colonies(u)' = Colonies(u) /\ Arks(u)' = Arks(u)
    BY <1>1 DEF Still, Colonies, Arks
  <2> QED
    BY <2>1, SameTerritory
<1>2. CASE Departs
  <2>1. PICK row : Departure(row)
    BY <1>2 DEF Departs
  <2> DEFINE m == Len(mv) + 1
  <2>2. /\ DOMAIN mv' = DOMAIN mv \cup {m} /\ m \notin DOMAIN mv /\ m \in Ids
        /\ \A j \in DOMAIN mv : mv'[j] = mv[j]
    BY <2>1, Appended
  <2>3. owner' = owner /\ acted' = acted
    BY <2>1 DEF Departure
  <2>4. acted[m] = 0
    BY <2>2 DEF Undone
  <2> HIDE DEF m
  <2>5. \A u \in Players : Colonies(u)' = Colonies(u) /\ Arks(u)' = Arks(u)
    BY <2>2, <2>3, <2>4 DEF Colonies, Arks
  <2> QED
    BY <2>5, SameTerritory
<1>3. CASE Changes
  <2>1. PICK m, status, n, c, x, s, k : Change(m, status, n, c, x, s, k)
    BY <1>3 DEF Changes
  <2>2. m \in DOMAIN mv /\ m \in Ids /\ status \in Status /\ n \in Nat /\ c \in Nat
        /\ mv' = Moved(m, status, n, c) /\ Effects(m, status) /\ Settlement(m)
        /\ acted \in [Ids -> Nat] /\ DOMAIN mv \subseteq Ids
    BY <2>1, TypeFacts DEF Change
  <2>3. /\ DOMAIN mv' = DOMAIN mv /\ mv'[m].player = mv[m].player
        /\ mv'[m].mission = mv[m].mission
        /\ \A j \in DOMAIN mv : j # m => mv'[j] = mv[j]
    BY <2>2, MovedEffect
  <2>4. \A j \in DOMAIN mv : mv'[j].player = mv[j].player /\ mv'[j].mission = mv[j].mission
    BY <2>3
  <2>5. CASE owner' = owner /\ (acted' = acted \/ mv[m].mission # "colonize")
    <3>1. \A j \in Ids : j # m => acted'[j] = acted[j]
      BY <2>2 DEF Effects, Bump
    <3>2. \A j \in DOMAIN mv : mv[j].mission = "colonize" => acted'[j] = acted[j]
      BY <2>2, <2>5, <3>1
    <3>3. \A u \in Players : Colonies(u)' = Colonies(u) /\ Arks(u)' = Arks(u)
      BY <2>3, <2>4, <2>5, <3>2 DEF Colonies, Arks
    <3> QED
      BY <3>3, SameTerritory
  <2>6. CASE /\ mv[m].mission = "colonize" /\ MayFound(mv[m])
             /\ owner' = [owner EXCEPT ![mv[m].to] = mv[m].player]
             /\ mv[m].status = "outbound" /\ acted' = Bump(acted, m)
    <3>1. PICK u \in Players, to \in Places :
             u = mv[m].player /\ to = mv[m].to /\ owner[to] = Nobody
             /\ Cardinality(Colonies(u)) < MaxColonies
      <4>1. mv[m].to \in Places /\ mv[m].player \in Players
        BY <2>2, <2>6, RowFacts DEF AllSeaworthy, Seaworthy
      <4> QED
        BY <2>6, <4>1 DEF MayFound, Owned, Colonies
    <3>2. acted[m] = 0 /\ acted'[m] = 1 /\ \A j \in Ids : j # m => acted'[j] = acted[j]
      BY <2>2, <2>6 DEF Undone, Bump
    <3>3. owner \in [Places -> Players \cup {Nobody}] /\ owner'[to] = u
          /\ \A q \in Places : q # to => owner'[q] = owner[q]
      BY <2>6, <3>1, TypeFacts
    <3>4. \A v \in Players : v # u => Colonies(v)' = Colonies(v) /\ Arks(v)' = Arks(v)
      <4>1. ASSUME NEW v \in Players, v # u PROVE Colonies(v)' = Colonies(v)
        BY <3>1, <3>3, <4>1, FleetAssumption DEF Colonies
      <4>2. ASSUME NEW v \in Players, v # u PROVE Arks(v)' = Arks(v)
        BY <2>2, <2>3, <2>4, <3>1, <3>2, <4>2 DEF Arks
      <4> QED
        BY <4>1, <4>2
    <3>5. Colonies(u)' = Colonies(u) \cup {to} /\ to \notin Colonies(u)
      BY <3>1, <3>3, FleetAssumption DEF Colonies
    <3>6. Arks(u)' = Arks(u) \cup {m} /\ m \notin Arks(u)
      BY <2>2, <2>3, <2>4, <2>6, <3>1, <3>2 DEF Arks
    <3>7. PICK C, A : C = Colonies(u)' /\ A = Arks(u)'
      OBVIOUS
    <3>8. IsFiniteSet(Colonies(u)) /\ IsFiniteSet(Arks(u)) /\ IsFiniteSet(Homes(u))
      <4>1. IsFiniteSet(DOMAIN mv)
        BY TypeFacts, FS_Interval
      <4> QED
        BY <4>1, FleetAssumption, FS_Subset DEF Colonies, Homes, Arks
    <3>9. Cardinality(C) = Cardinality(Colonies(u)) + 1 /\ Cardinality(A) = Cardinality(Arks(u)) + 1
      BY <3>5, <3>6, <3>7, <3>8, FS_AddElement
    <3>10. /\ Cardinality(Colonies(u)) \in Nat /\ Cardinality(Arks(u)) \in Nat
           /\ Cardinality(Homes(u)) \in Nat /\ MaxColonies \in Nat
      BY <3>8, FS_CardinalityType, FleetAssumption
    <3>11. Settled(u, C, A)
      BY <3>1, <3>9, <3>10, TerritoryIs DEF Settled
    <3>12. \A v \in Players : Settled(v, Colonies(v)', Arks(v)')
      <4>1. ASSUME NEW v \in Players, v # u PROVE Settled(v, Colonies(v)', Arks(v)')
        BY <3>4, <4>1, TerritoryIs
      <4> QED
        BY <3>7, <3>11, <4>1
    <3> QED
      BY <3>12 DEF TerritoryAddsUp, Owned, Settled, Colonies, Homes, Arks
  <2> QED
    BY <2>2, <2>5, <2>6 DEF Settlement
<1> QED
  BY <1>1, <1>2, <1>3

-----------------------------------------------------------------------------
(* The types, on both databases. On PostgreSQL what a handler has read may   *)
(* be out of date, so the types rest on less than the invariant above: a     *)
(* store is only lowered under the lock of its planet, which a send holds    *)
(* from its check to its commit; hulls and holds are as the row said.        *)

Sends(p) == tx[p].kind = "send"
Senders == {q \in Procs : Sends(q)}

(* What a send wants to take is still there, and no other send takes it.     *)
Stocked(p) ==
    /\ tx[p].pc = "run" /\ tx[p].row \in Rows({"outbound"}) /\ Seaworthy(tx[p].row)
    /\ tx[p].row.cargo <= stock[tx[p].row.from]
    /\ \A q \in Procs : Sends(q) /\ tx[q].row.from = tx[p].row.from => q = p

(* A handler has read some row of its fleet.                                 *)
Knows(p) ==
    /\ tx[p].id \in DOMAIN mv /\ tx[p].row \in Rows(Active) /\ Seaworthy(tx[p].row)
    /\ tx[p].kind \in Active => tx[p].row.status = tx[p].kind
    /\ tx[p].pc = "ark" => mv[tx[p].id].status # "outbound"

Ready(p) ==
    /\ tx[p].pc = "idle" => tx[p] = NoTx
    /\ Sends(p) => Stocked(p)
    /\ tx[p].pc # "idle" /\ ~Sends(p) => Knows(p)

(* The sends under way have room for their fleets.                           *)
Room == IsFiniteSet(Senders) /\ Len(mv) + Cardinality(Senders) <= MaxSends

WellInv == TypeOK /\ AllSeaworthy /\ (\A p \in Procs : Ready(p)) /\ Room

(* No movement, or one that leaves "outbound" behind.                        *)
MovesOn ==
    \/ mv' = mv
    \/ \E m \in DOMAIN mv, status \in Status \ {"outbound"}, n \in Nat, c \in Nat :
         mv' = Moved(m, status, n, c)

(* What a send wants to take is left there.                                  *)
Leaves(q) ==
    tx[q].row.cargo <= stock[tx[q].row.from] => tx[q].row.cargo <= stock'[tx[q].row.from]

(* A process goes on with its own state, is done, or begins to handle.       *)
Goes(q) ==
    \/ tx'[q] = tx[q] /\ (Sends(q) => Leaves(q))
    \/ tx'[q] = NoTx
    \/ tx'[q].kind # "send" /\ tx'[q].pc # "idle" /\ Knows(q)'

(* What moving on keeps of the rows. *)
LEMMA MovesOnKeeps ==
    ASSUME TypeOK, AllSeaworthy, MovesOn
    PROVE  /\ mv' \in Seq(Rows(Status)) /\ Len(mv') = Len(mv) /\ DOMAIN mv' = DOMAIN mv
           /\ AllSeaworthy'
           /\ \A k \in DOMAIN mv : mv[k].status # "outbound" => mv'[k].status # "outbound"
<1>1. CASE mv' = mv
  BY <1>1, TypeFacts DEF AllSeaworthy, Seaworthy
<1>2. ASSUME NEW m \in DOMAIN mv, NEW status \in Status \ {"outbound"}, NEW n \in Nat,
             NEW c \in Nat, mv' = Moved(m, status, n, c)
      PROVE  /\ mv' \in Seq(Rows(Status)) /\ Len(mv') = Len(mv) /\ DOMAIN mv' = DOMAIN mv
             /\ AllSeaworthy'
             /\ \A k \in DOMAIN mv : mv[k].status # "outbound" => mv'[k].status # "outbound"
  <2>1. /\ mv' \in Seq(Rows(Status)) /\ Len(mv') = Len(mv) /\ DOMAIN mv' = DOMAIN mv
        /\ mv'[m].status = status /\ mv'[m].to = mv[m].to /\ mv'[m].mission = mv[m].mission
        /\ \A k \in DOMAIN mv : k # m => mv'[k] = mv[k]
    BY <1>2, MovedEffect
  <2>2. ASSUME NEW k \in DOMAIN mv PROVE Seaworthy(mv'[k])
    <3>1. Seaworthy(mv[k])
      BY DEF AllSeaworthy
    <3> QED
      BY <1>2, <2>1, <3>1 DEF Seaworthy
  <2>3. AllSeaworthy'
    BY <2>1, <2>2 DEF AllSeaworthy, Seaworthy
  <2> QED
    BY <1>2, <2>1, <2>3
<1> QED
  BY <1>1, <1>2 DEF MovesOn

(* The typed parts of a step that are not the rows and the processes.        *)
TypedRest ==
    /\ owner' \in [Places -> Players \cup {Nobody}]
    /\ ships' \in [Places -> Nat] /\ stock' \in [Places -> Nat]
    /\ acted' \in [Ids -> Nat]
    /\ reported' \subseteq DOMAIN mv /\ recalled' \subseteq DOMAIN mv
    /\ gone' \in Tally /\ found' \in Tally /\ faults' \in 0..MaxFaults

(* A step in which no send begins or is carried out keeps the types right. *)
LEMMA GoesKeeps ==
    ASSUME WellInv, MovesOn, TypedRest, tx' \in [Procs -> TxType],
           \A q \in Procs : Goes(q)
    PROVE  WellInv'
<1>1. TypeOK /\ AllSeaworthy /\ (\A p \in Procs : Ready(p)) /\ Room
  BY DEF WellInv
<1>2. /\ mv' \in Seq(Rows(Status)) /\ Len(mv') = Len(mv) /\ DOMAIN mv' = DOMAIN mv
      /\ AllSeaworthy'
      /\ \A k \in DOMAIN mv : mv[k].status # "outbound" => mv'[k].status # "outbound"
  BY <1>1, MovesOnKeeps
<1>3. TypeOK'
  BY <1>1, <1>2, TypeFacts DEF TypeOK, TypedRest, TxType, Tally
<1>4. \A q \in Procs : tx'[q].kind = "send" => tx'[q] = tx[q] /\ Sends(q) /\ Leaves(q)
  BY NoTxType DEF Goes, Sends, Leaves
<1>5. Room'
  <2>1. Senders' \subseteq Senders
    BY <1>4 DEF Senders, Sends
  <2>2. /\ IsFiniteSet(Senders') /\ Cardinality(Senders') <= Cardinality(Senders)
    BY <1>1, <2>1, FS_Subset DEF Room
  <2>3. Cardinality(Senders') \in Nat /\ Cardinality(Senders) \in Nat
    BY <1>1, <2>2, FS_CardinalityType DEF Room
  <2>4. Len(mv) + Cardinality(Senders') <= MaxSends
    BY <1>1, <2>2, <2>3, TypeFacts DEF Room
  <2> QED
    BY <1>2, <2>2, <2>4 DEF Room
<1>6. ASSUME NEW p \in Procs PROVE Ready(p)'
  <2>1. CASE tx'[p] = tx[p] /\ Sends(p)
    <3>1. Stocked(p)
      BY <1>1, <2>1 DEF Ready
    <3>2. \A q \in Procs : tx'[q].kind = "send" /\ tx'[q].row.from = tx'[p].row.from => q = p
      BY <1>4, <2>1, <3>1 DEF Stocked
    <3>3. tx[p].row.cargo <= stock'[tx[p].row.from]
      BY <1>4, <2>1, <3>1 DEF Sends, Leaves, Stocked
    <3>4. Stocked(p)'
      BY <2>1, <3>1, <3>2, <3>3 DEF Stocked, Sends, Seaworthy
    <3> QED
      BY <2>1, <3>1, <3>4 DEF Ready, Sends, Stocked
  <2>2. CASE tx'[p] = tx[p] /\ ~Sends(p) /\ tx[p].pc # "idle"
    <3>1. Knows(p)
      BY <1>1, <2>2 DEF Ready
    <3>2. Knows(p)'
      BY <1>2, <2>2, <3>1 DEF Knows, Seaworthy
    <3> QED
      BY <2>2, <3>2 DEF Ready, Sends
  <2>3. CASE tx'[p] = tx[p] /\ ~Sends(p) /\ tx[p].pc = "idle"
    BY <1>1, <2>3 DEF Ready, Sends
  <2>4. CASE tx'[p] = NoTx
    BY <2>4, NoTxType DEF Ready, Sends
  <2>5. CASE tx'[p].kind # "send" /\ tx'[p].pc # "idle" /\ Knows(p)'
    BY <2>5 DEF Ready, Sends
  <2> QED
    BY <2>1, <2>2, <2>3, <2>4, <2>5 DEF Goes, Leaves
<1> QED
  BY <1>2, <1>3, <1>5, <1>6 DEF WellInv

(* A process that quits, when the locks keep what the sends will take. *)
LEMMA QuitGoes ==
    ASSUME WellInv, NEW p \in Procs, Quit(p),
           stock' = stock \/ \E x, e : Unlocked(x) /\ stock' = [stock EXCEPT ![x] = e]
    PROVE  tx' \in [Procs -> TxType] /\ \A q \in Procs : Goes(q)
<1>1. TypeOK
  BY DEF WellInv
<1>2. tx' \in [Procs -> TxType] /\ tx'[p] = NoTx /\ \A q \in Procs : q # p => tx'[q] = tx[q]
  BY <1>1, NoTxType, Puts DEF Quit
<1>3. ASSUME NEW q \in Procs, Sends(q)
      PROVE  stock'[tx[q].row.from] = stock[tx[q].row.from]
  <2>1. tx[q].pc = "run" /\ tx[q].row.from \in Places
    BY <1>3 DEF WellInv, Ready, Stocked, Rows
  <2>2. \A x : Unlocked(x) => tx[q].row.from # x
    BY <1>3, <2>1 DEF Unlocked, Sends
  <2>3. stock \in [Places -> Nat]
    BY <1>1, TypeFacts
  <2> QED
    BY <2>1, <2>2, <2>3
<1> QED
  BY <1>2, <1>3 DEF Goes, Leaves

(* What a handler that runs on a fleet knows of it. *)
LEMMA HandlerKnows ==
    ASSUME WellInv, NEW p \in Procs, tx[p].pc # "idle", tx[p].kind # "send"
    PROVE  LET m == tx[p].id  row == tx[p].row IN
           /\ TypeOK /\ Knows(p) /\ m \in DOMAIN mv /\ m \in Ids /\ Seaworthy(row)
           /\ row.player \in Players /\ row.from \in Places /\ row.to \in Places \cup {Space}
           /\ row.ships \in Nat /\ row.cargo \in Nat /\ tx[p].seen \in Nat
           /\ tx[p].kind \in Active => row.status = tx[p].kind
           /\ mv[m].ships \in Nat /\ mv[m].cargo \in Nat /\ mv[m].status \in Status
<1>1. TypeOK /\ Knows(p)
  BY DEF WellInv, Ready, Sends
<1>2. tx[p].id \in DOMAIN mv /\ tx[p].id \in Ids
  BY <1>1, TypeFacts DEF Knows
<1>3. tx[p].seen \in Nat
  BY <1>1, TypeFacts DEF TxType
<1>4. mv[tx[p].id].ships \in Nat /\ mv[tx[p].id].cargo \in Nat /\ mv[tx[p].id].status \in Status
  BY <1>1, <1>2, RowFacts
<1>5. tx[p].row \in Rows(Active)
  BY <1>1 DEF Knows
<1>6. /\ tx[p].row.player \in Players /\ tx[p].row.from \in Places
      /\ tx[p].row.to \in Places \cup {Space}
      /\ tx[p].row.ships \in Nat /\ tx[p].row.cargo \in Nat
  BY <1>5 DEF Rows
<1> QED
  BY <1>1, <1>2, <1>3, <1>4, <1>6 DEF Knows

(* Moving one fleet on. *)
LEMMA MovedOn ==
    ASSUME NEW m \in DOMAIN mv, NEW status \in Status \ {"outbound"}, NEW n \in Nat,
           NEW c \in Nat, mv' = Moved(m, status, n, c)
    PROVE  MovesOn
  BY DEF MovesOn

-----------------------------------------------------------------------------
(* The handlers, one by one, on both databases. *)

(* What a step leaves alone keeps its type. *)
LEMMA RestStays ==
    ASSUME TypeOK,
           owner' = owner, ships' = ships \/ ships' \in [Places -> Nat],
           stock' = stock \/ stock' \in [Places -> Nat],
           acted' = acted \/ \E m \in Ids : acted' = Bump(acted, m),
           reported' = reported \/ \E m \in DOMAIN mv : reported' = reported \cup {m},
           recalled' = recalled \/ \E m \in DOMAIN mv : recalled' = recalled \cup {m},
           gone' = gone \/ \E n \in Nat, c \in Nat : UseUp(n, c),
           found' = found \/ \E n \in Nat, c \in Nat : BringIn(n, c),
           faults' = faults \/ (faults < MaxFaults /\ faults' = faults + 1)
    PROVE  TypedRest
<1>1. acted' \in [Ids -> Nat]
  BY TypeFacts DEF Bump
<1>2. gone' \in Tally
  BY TypeFacts DEF UseUp, Tally
<1>3. faults' \in 0..MaxFaults
  BY TypeFacts, FleetAssumption
<1>4. found' \in Tally
  BY TypeFacts DEF BringIn, Tally
<1>5. reported' \subseteq DOMAIN mv /\ recalled' \subseteq DOMAIN mv
  BY TypeFacts
<1>6. /\ owner' \in [Places -> Players \cup {Nobody}]
      /\ ships' \in [Places -> Nat] /\ stock' \in [Places -> Nat]
  BY TypeFacts
<1> QED
  BY <1>1, <1>2, <1>3, <1>4, <1>5, <1>6 DEF TypedRest

(* Adding to what is on a planet, and taking from it what is there. *)
LEMMA StoreTyped ==
    ASSUME TypeOK, NEW x \in Places, NEW d \in Nat
    PROVE  /\ [stock EXCEPT ![x] = @ + d] \in [Places -> Nat]
           /\ [ships EXCEPT ![x] = @ + d] \in [Places -> Nat]
           /\ d <= stock[x] => [stock EXCEPT ![x] = @ - d] \in [Places -> Nat]
           /\ d <= ships[x] => [ships EXCEPT ![x] = @ - d] \in [Places -> Nat]
<1>1. stock[x] \in Nat /\ ships[x] \in Nat
  BY TypeFacts
<1>2. /\ stock[x] + d \in Nat /\ (d <= stock[x] => stock[x] - d \in Nat)
      /\ ships[x] + d \in Nat /\ (d <= ships[x] => ships[x] - d \in Nat)
  BY <1>1
<1> QED
  BY <1>2, TypeFacts

(* Unloading. *)
LEMMA TransportTyped ==
    ASSUME WellInv, NEW p \in Procs, Transport(p)
    PROVE  WellInv'
<1> DEFINE row == tx[p].row
           m == tx[p].id
<1>1. /\ tx[p].pc = "run" /\ tx[p].kind = "outbound" /\ row.mission = "transport"
      /\ Unlocked(row.to) /\ Quit(p)
      /\ UNCHANGED <<owner, ships, recalled, gone, found, faults>>
  BY DEF Transport, Resolves
<1>2. /\ TypeOK /\ m \in DOMAIN mv /\ m \in Ids /\ row.to \in Places
      /\ row.ships \in Nat /\ row.cargo \in Nat
  BY <1>1, HandlerKnows DEF Seaworthy
<1>3. \/ UNCHANGED <<stock, mv, acted, reported>>
      \/ /\ stock' = [stock EXCEPT ![row.to] = @ + row.cargo]
         /\ mv' = Moved(m, "returning", row.ships, 0)
         /\ acted' = Bump(acted, m) /\ reported' = reported \cup {m}
  BY DEF Transport, Delivered
<1> HIDE DEF row, m
<1>4. stock' = stock \/ stock' = [stock EXCEPT ![row.to] = stock[row.to] + row.cargo]
  BY <1>3
<1>5. stock' = stock \/ stock' \in [Places -> Nat]
  <2>1. [stock EXCEPT ![row.to] = @ + row.cargo] \in [Places -> Nat]
    BY <1>2, StoreTyped
  <2> QED
    BY <1>3, <2>1
<1>6. MovesOn
  BY <1>2, <1>3, MovedOn DEF MovesOn, Status, Active
<1>7. TypedRest
  BY <1>1, <1>2, <1>3, <1>5, RestStays
<1>8. tx' \in [Procs -> TxType] /\ \A q \in Procs : Goes(q)
  BY <1>1, <1>4, QuitGoes
<1> QED
  BY <1>6, <1>7, <1>8, GoesKeeps

(* Collecting, which only takes what is there. *)
LEMMA CollectTyped ==
    ASSUME WellInv, NEW p \in Procs, Collect(p)
    PROVE  WellInv'
<1> DEFINE row == tx[p].row
           m == tx[p].id
           load == Load(row)
<1>1. /\ tx[p].pc = "run" /\ tx[p].kind = "outbound" /\ row.mission = "collect"
      /\ Unlocked(row.to) /\ Quit(p)
      /\ UNCHANGED <<owner, ships, recalled, gone, found, faults>>
  BY DEF Collect, Resolves
<1>2. /\ TypeOK /\ m \in DOMAIN mv /\ m \in Ids /\ row.to \in Places
      /\ row.ships \in Nat /\ row.cargo \in Nat /\ row.cargo <= row.ships
  BY <1>1, HandlerKnows DEF Seaworthy, Active
<1>3. load \in Nat /\ load <= stock[row.to] /\ row.cargo + load \in Nat
  <2>1. stock[row.to] \in Nat
    BY <1>2, TypeFacts
  <2> QED
    BY <1>2, <2>1 DEF Load, Min2
<1>4. \/ UNCHANGED <<stock, mv, acted, reported>>
      \/ /\ stock' = [stock EXCEPT ![row.to] = @ - load]
         /\ mv' = Moved(m, "returning", row.ships, row.cargo + load)
         /\ acted' = Bump(acted, m) /\ reported' = reported \cup {m}
  BY DEF Collect
<1> HIDE DEF row, m, load
<1>5. stock' = stock \/ stock' = [stock EXCEPT ![row.to] = stock[row.to] - load]
  BY <1>4
<1>6. stock' = stock \/ stock' \in [Places -> Nat]
  <2>1. [stock EXCEPT ![row.to] = @ - load] \in [Places -> Nat]
    BY <1>2, <1>3, StoreTyped
  <2> QED
    BY <1>4, <2>1
<1>7. MovesOn
  BY <1>2, <1>3, <1>4, MovedOn DEF MovesOn, Status, Active
<1>8. TypedRest
  BY <1>1, <1>2, <1>4, <1>6, RestStays
<1>9. tx' \in [Procs -> TxType] /\ \A q \in Procs : Goes(q)
  BY <1>1, <1>5, QuitGoes
<1> QED
  BY <1>7, <1>8, <1>9, GoesKeeps

(* Deploying. *)
LEMMA DeployTyped ==
    ASSUME WellInv, NEW p \in Procs, Deploy(p)
    PROVE  WellInv'
<1> DEFINE row == tx[p].row
           m == tx[p].id
<1>1. /\ tx[p].pc = "run" /\ tx[p].kind = "outbound" /\ row.mission = "deploy"
      /\ Unlocked(row.to) /\ Quit(p)
      /\ UNCHANGED <<owner, recalled, gone, found, faults>>
  BY DEF Deploy, Resolves
<1>2. /\ TypeOK /\ m \in DOMAIN mv /\ m \in Ids /\ row.to \in Places
      /\ row.ships \in Nat /\ row.cargo \in Nat
  BY <1>1, HandlerKnows DEF Seaworthy
<1>3. \/ UNCHANGED <<ships, stock, mv, acted, reported>>
      \/ /\ stock' = [stock EXCEPT ![row.to] = @ + row.cargo]
         /\ ships' = [ships EXCEPT ![row.to] = @ + row.ships]
         /\ mv' = Moved(m, "completed", 0, 0)
         /\ acted' = Bump(acted, m) /\ reported' = reported \cup {m}
  BY DEF Deploy
<1> HIDE DEF row, m
<1>4. stock' = stock \/ stock' = [stock EXCEPT ![row.to] = stock[row.to] + row.cargo]
  BY <1>3
<1>5. /\ stock' = stock \/ stock' \in [Places -> Nat]
      /\ ships' = ships \/ ships' \in [Places -> Nat]
  <2>1. /\ [stock EXCEPT ![row.to] = @ + row.cargo] \in [Places -> Nat]
        /\ [ships EXCEPT ![row.to] = @ + row.ships] \in [Places -> Nat]
    BY <1>2, StoreTyped
  <2> QED
    BY <1>3, <2>1
<1>6. MovesOn
  BY <1>2, <1>3, MovedOn DEF MovesOn, Status, Active
<1>7. TypedRest
  BY <1>1, <1>2, <1>3, <1>5, RestStays
<1>8. tx' \in [Procs -> TxType] /\ \A q \in Procs : Goes(q)
  BY <1>1, <1>4, QuitGoes
<1> QED
  BY <1>6, <1>7, <1>8, GoesKeeps

(* A return. *)
LEMMA ReturnTyped ==
    ASSUME WellInv, NEW p \in Procs, Return(p)
    PROVE  WellInv'
<1> DEFINE row == tx[p].row
           m == tx[p].id
<1>1. /\ tx[p].pc = "run" /\ tx[p].kind = "returning"
      /\ Unlocked(row.from) /\ Quit(p)
      /\ UNCHANGED <<owner, acted, reported, recalled, gone, found, faults>>
  BY DEF Return, Counts
<1>2. /\ TypeOK /\ m \in DOMAIN mv /\ row.from \in Places
      /\ row.ships \in Nat /\ row.cargo \in Nat
  BY <1>1, HandlerKnows
<1>3. \/ UNCHANGED <<mv, ships, stock>>
      \/ /\ stock' = [stock EXCEPT ![row.from] = @ + row.cargo]
         /\ ships' = [ships EXCEPT ![row.from] = @ + row.ships]
         /\ mv' = Moved(m, "completed", 0, 0)
  BY DEF Return
<1> HIDE DEF row, m
<1>4. stock' = stock \/ stock' = [stock EXCEPT ![row.from] = stock[row.from] + row.cargo]
  BY <1>3
<1>5. /\ stock' = stock \/ stock' \in [Places -> Nat]
      /\ ships' = ships \/ ships' \in [Places -> Nat]
  <2>1. /\ [stock EXCEPT ![row.from] = @ + row.cargo] \in [Places -> Nat]
        /\ [ships EXCEPT ![row.from] = @ + row.ships] \in [Places -> Nat]
    BY <1>2, StoreTyped
  <2> QED
    BY <1>3, <2>1
<1>6. MovesOn
  BY <1>2, <1>3, MovedOn DEF MovesOn, Status, Active
<1>7. TypedRest
  BY <1>1, <1>2, <1>5, RestStays
<1>8. tx' \in [Procs -> TxType] /\ \A q \in Procs : Goes(q)
  BY <1>1, <1>4, QuitGoes
<1> QED
  BY <1>6, <1>7, <1>8, GoesKeeps

(* Handlers that leave the planets alone. *)
LEMMA MoveTyped ==
    ASSUME WellInv, NEW p \in Procs,
           Stay(p) \/ LeavePost(p) \/ ExpeditionEnds(p) \/ Recall(p) \/ MarkFailed(p)
           \/ UseArk(p) \/ FoundRefused(p) \/ Crash(p)
    PROVE  WellInv'
<1> DEFINE row == tx[p].row
           m == tx[p].id
<1>1. (tx[p].pc # "idle" /\ tx[p].kind # "send") \/ Crash(p)
  BY DEF Stay, LeavePost, ExpeditionEnds, Recall, MarkFailed, UseArk, FoundRefused, Resolves,
         WellInv, Ready, Sends, Stocked
<1>2. UNCHANGED <<owner, ships, stock>> /\ TypeOK /\ Quit(p)
  BY DEF Planets, Counts, WellInv,
         Stay, LeavePost, ExpeditionEnds, Recall, MarkFailed, UseArk, FoundRefused, Crash
<1>3. tx' \in [Procs -> TxType] /\ \A q \in Procs : Goes(q)
  BY <1>2, QuitGoes
<1>4. CASE Crash(p)
  <2>1. /\ UNCHANGED <<mv, acted, reported, recalled, gone, found>>
        /\ faults' = faults + 1 /\ faults < MaxFaults
    BY <1>4 DEF Crash, Counts
  <2>2. TypedRest
    BY <1>2, <2>1, RestStays
  <2>3. MovesOn
    BY <2>1 DEF MovesOn
  <2> QED
    BY <1>3, <2>2, <2>3, GoesKeeps
<1>5. CASE tx[p].pc # "idle" /\ tx[p].kind # "send"
  <2>1. /\ Knows(p) /\ m \in DOMAIN mv /\ m \in Ids /\ Seaworthy(row)
        /\ row.ships \in Nat /\ row.cargo \in Nat
        /\ mv[m].ships \in Nat /\ mv[m].cargo \in Nat /\ mv[m].status \in Status
    BY <1>5, HandlerKnows
  <2>2. {"holding", "returning", "completed", "failed"} \subseteq Status \ {"outbound"}
    BY DEF Status, Active
  <2> HIDE DEF row, m
  <2>3. CASE Stay(p)
    <3>1. /\ mv' = mv \/ mv' = Moved(m, "holding", mv[m].ships, mv[m].cargo)
          /\ reported' = reported \/ reported' = reported \cup {m}
          /\ UNCHANGED <<acted, recalled, gone, found, faults>>
      BY <2>3 DEF Stay, Turned, m, row
    <3>2. MovesOn
      BY <2>1, <2>2, <3>1, MovedOn DEF MovesOn
    <3>3. TypedRest
      BY <1>2, <2>1, <3>1, RestStays
    <3> QED
      BY <1>3, <3>2, <3>3, GoesKeeps
  <2>4. CASE LeavePost(p)
    <3>1. /\ mv' = mv \/ mv' = Moved(m, "returning", row.ships, row.cargo)
          /\ UNCHANGED <<acted, reported, recalled, gone, found, faults>>
      BY <2>4 DEF LeavePost, Counts, m, row
    <3>2. MovesOn
      BY <2>1, <2>2, <3>1, MovedOn DEF MovesOn
    <3>3. TypedRest
      BY <1>2, <3>1, RestStays
    <3> QED
      BY <1>3, <3>2, <3>3, GoesKeeps
  <2>5. CASE Recall(p)
    <3>1. /\ mv' = mv \/ mv' = Moved(m, "returning", mv[m].ships, row.cargo)
          /\ recalled' = recalled \/ recalled' = recalled \cup {m}
          /\ UNCHANGED <<acted, reported, gone, found, faults>>
      BY <2>5 DEF Recall, m, row
    <3>2. MovesOn
      BY <2>1, <2>2, <3>1, MovedOn DEF MovesOn
    <3>3. TypedRest
      BY <1>2, <2>1, <3>1, RestStays
    <3> QED
      BY <1>3, <3>2, <3>3, GoesKeeps
  <2>6. CASE MarkFailed(p)
    <3>1. /\ mv' = mv \/ mv' = Moved(m, "failed", mv[m].ships, mv[m].cargo)
          /\ UNCHANGED <<acted, reported, recalled, gone, found, faults>>
      BY <2>6 DEF MarkFailed, Turned, Counts, m
    <3>2. MovesOn
      BY <2>1, <2>2, <3>1, MovedOn DEF MovesOn
    <3>3. TypedRest
      BY <1>2, <3>1, RestStays
    <3> QED
      BY <1>3, <3>2, <3>3, GoesKeeps
  <2>7. CASE UseArk(p)
    <3>1. mv[m].status # "outbound"
      BY <2>1, <2>7 DEF Knows, UseArk, m
    <3>2. /\ \/ row.ships > 1 /\ mv' = Moved(m, mv[m].status, row.ships - 1, mv[m].cargo)
             \/ mv' = Moved(m, "completed", 0, 0)
          /\ UseUp(1, 0) /\ reported' = reported \cup {m}
          /\ UNCHANGED <<acted, recalled, found, faults>>
      BY <2>7 DEF UseArk, m, row
    <3>3. row.ships > 1 => row.ships - 1 \in Nat
      BY <2>1
    <3>4. MovesOn
      BY <2>1, <2>2, <3>1, <3>2, <3>3, MovedOn
    <3>5. TypedRest
      BY <1>2, <2>1, <3>2, RestStays
    <3> QED
      BY <1>3, <3>4, <3>5, GoesKeeps
  <2>8. CASE FoundRefused(p)
    <3>1. /\ mv' = mv /\ (reported' = reported \/ reported' = reported \cup {m})
          /\ UNCHANGED <<acted, recalled, gone, found, faults>>
      BY <2>8 DEF FoundRefused, m
    <3>2. TypedRest
      BY <1>2, <2>1, <3>1, RestStays
    <3> QED
      BY <1>3, <3>1, <3>2, GoesKeeps DEF MovesOn
  <2>9. CASE ExpeditionEnds(p)
    <3>1. CASE UNCHANGED <<mv, gone, found, acted, reported>>
      <4>1. UNCHANGED <<recalled, faults>>
        BY <2>9 DEF ExpeditionEnds
      <4>2. TypedRest
        BY <1>2, <3>1, <4>1, RestStays
      <4> QED
        BY <1>3, <3>1, <4>2, GoesKeeps DEF MovesOn
    <3>2. CASE ~UNCHANGED <<mv, gone, found, acted, reported>>
      <4>1. PICK left \in 0..row.ships, salvage \in 0..MaxSalvage,
                 loot \in 0..Min2(MaxLoot, row.ships) :
              /\ mv' = Moved(m, "returning", Remaining(row, left, salvage), loot)
              /\ UseUp(IF left + salvage > 0 THEN row.ships - left ELSE 0, row.cargo)
              /\ BringIn(salvage, loot)
              /\ acted' = Bump(acted, m) /\ reported' = reported \cup {m}
        BY <2>9, <3>2 DEF ExpeditionEnds, m, row
      <4> DEFINE n == Remaining(row, left, salvage)
                 lost == IF left + salvage > 0 THEN row.ships - left ELSE 0
      <4>2. n \in Nat /\ lost \in Nat /\ salvage \in Nat /\ loot \in Nat
        <5>1. left \in Nat /\ left <= row.ships /\ salvage \in Nat /\ loot \in Nat
          BY <2>1
        <5> QED
          BY <2>1, <5>1 DEF Remaining
      <4>3. /\ mv' = Moved(m, "returning", n, loot) /\ UseUp(lost, row.cargo)
            /\ BringIn(salvage, loot)
            /\ acted' = Bump(acted, m) /\ reported' = reported \cup {m}
            /\ UNCHANGED <<recalled, faults>>
        BY <2>9, <4>1 DEF ExpeditionEnds
      <4> HIDE DEF n, lost
      <4>4. MovesOn
        BY <2>1, <2>2, <4>2, <4>3, MovedOn
      <4>5. TypedRest
        BY <1>2, <2>1, <4>2, <4>3, RestStays
      <4> QED
        BY <1>3, <4>4, <4>5, GoesKeeps
    <3> QED
      BY <3>1, <3>2
  <2> QED
    BY <1>4, <2>3, <2>4, <2>5, <2>6, <2>7, <2>8, <2>9
<1> QED
  BY <1>1, <1>4, <1>5

(* A repair. *)
LEMMA RepairTyped ==
    ASSUME WellInv, NEW m \in DOMAIN mv, RepairStuck(m)
    PROVE  WellInv'
<1>1. TypeOK
  BY DEF WellInv
<1>2. /\ UNCHANGED <<owner, ships, stock, tx, acted, reported, recalled, gone, found>>
      /\ faults < MaxFaults /\ faults' = faults + 1
      /\ mv' = Moved(m, "failed", mv[m].ships, mv[m].cargo)
  BY DEF RepairStuck, Turned, Planets, Counts
<1>3. mv[m].ships \in Nat /\ mv[m].cargo \in Nat
  BY <1>1, RowFacts
<1>4. MovesOn
  BY <1>2, <1>3, MovedOn DEF Status
<1>5. TypedRest
  BY <1>1, <1>2, RestStays
<1>6. tx' \in [Procs -> TxType] /\ \A q \in Procs : Goes(q)
  BY <1>1, <1>2, TypeFacts DEF Goes, Leaves
<1> QED
  BY <1>4, <1>5, <1>6, GoesKeeps

(* An exception, which may leave a report to be made. *)
LEMMA RaiseTyped ==
    ASSUME WellInv, NEW p \in Procs, Raise(p)
    PROVE  WellInv'
<1>1. TypeOK
  BY DEF WellInv
<1>2. /\ UNCHANGED <<owner, ships, stock, mv, acted, reported, recalled, gone, found>>
      /\ faults < MaxFaults /\ faults' = faults + 1 /\ tx[p].pc = "run"
      /\ \/ Quit(p)
         \/ tx[p].kind \in {"returning", "outbound"} /\ Continues(p, "fail")
  BY DEF Raise, Planets, Counts
<1>3. MovesOn /\ TypedRest
  BY <1>1, <1>2, RestStays DEF MovesOn
<1>4. CASE Quit(p)
  BY <1>2, <1>3, <1>4, QuitGoes, GoesKeeps
<1>5. CASE tx[p].kind \in {"returning", "outbound"} /\ Continues(p, "fail")
  <2>1. /\ tx' \in [Procs -> TxType] /\ tx'[p] = Left(tx[p], "fail")
        /\ \A q \in Procs : q # p => tx'[q] = tx[q]
    BY <1>1, <1>5, ContinuesEffect
  <2>2. Knows(p)
    BY <1>2, <1>5, HandlerKnows
  <2>3. /\ tx'[p].kind = tx[p].kind /\ tx'[p].pc = "fail" /\ tx'[p].id = tx[p].id
        /\ tx'[p].row = tx[p].row
    BY <2>1 DEF Left
  <2>4. Knows(p)'
    BY <1>2, <2>2, <2>3 DEF Knows, Seaworthy
  <2>5. \A q \in Procs : Goes(q)
    BY <1>2, <1>5, <2>1, <2>3, <2>4 DEF Goes, Leaves
  <2> QED
    BY <1>3, <2>1, <2>5, GoesKeeps
<1> QED
  BY <1>2, <1>4, <1>5

(* A new colony, whose handler goes on to use up the ark. *)
LEMMA FoundTyped ==
    ASSUME WellInv, NEW p \in Procs, Found(p)
    PROVE  WellInv'
<1> DEFINE row == tx[p].row
           m == tx[p].id
<1>1. /\ tx[p].pc = "run" /\ tx[p].kind = "outbound" /\ Continues(p, "ark")
      /\ mv' = Moved(m, "returning", row.ships, 0)
      /\ owner' = [owner EXCEPT ![row.to] = row.player] /\ acted' = Bump(acted, m)
      /\ stock' = [stock EXCEPT ![row.to] = @ + Founding] /\ BringIn(0, Founding)
      /\ UNCHANGED <<ships, reported, recalled, gone, faults>>
  BY DEF Found, Resolves
<1>2. /\ TypeOK /\ Knows(p) /\ m \in DOMAIN mv /\ m \in Ids
      /\ row.player \in Players /\ row.ships \in Nat
      /\ Founding \in Nat
  BY <1>1, HandlerKnows, FleetAssumption
<1>3. /\ tx' \in [Procs -> TxType] /\ tx'[p] = Left(tx[p], "ark")
      /\ \A q \in Procs : q # p => tx'[q] = tx[q]
  BY <1>1, <1>2, ContinuesEffect
<1>4. tx'[p].kind = "outbound" /\ tx'[p].pc = "ark" /\ tx'[p].id = m /\ tx'[p].row = row
  BY <1>1, <1>3 DEF Left
<1>5. mv'[m].status = "returning" /\ DOMAIN mv' = DOMAIN mv
  BY <1>1, <1>2, MovedEffect DEF Status, Active
<1>6. Knows(p)'
  BY <1>1, <1>2, <1>4, <1>5 DEF Knows, Seaworthy
<1> HIDE DEF row, m
<1>7. MovesOn
  BY <1>1, <1>2, MovedOn DEF Status, Active
<1>8. \A q \in Procs : Goes(q)
  <2>1. ASSUME NEW q \in Procs, Sends(q) PROVE Leaves(q)
    <3>1. Stocked(q)
      BY <2>1 DEF WellInv, Ready
    <3>2. /\ stock[tx[q].row.from] \in Nat /\ tx[q].row.from \in Places
          /\ tx[q].row.cargo \in Nat
      BY <1>2, <3>1, TypeFacts DEF Stocked, Rows
    <3>3. \/ stock'[tx[q].row.from] = stock[tx[q].row.from]
          \/ stock'[tx[q].row.from] = stock[tx[q].row.from] + Founding
      BY <1>1, <1>2, <3>2, TypeFacts
    <3> QED
      BY <1>2, <3>2, <3>3 DEF Leaves
  <2> QED
    BY <1>1, <1>3, <1>4, <1>6, <2>1 DEF Goes, Leaves
<1>9. TypedRest
  <2>1. owner' \in [Places -> Players \cup {Nobody}]
    BY <1>1, <1>2, TypeFacts
  <2>2. acted' \in [Ids -> Nat]
    BY <1>1, <1>2, TypeFacts DEF Bump
  <2>3. stock' \in [Places -> Nat]
    <3>1. stock \in [Places -> Nat] /\ Founding \in Nat
      BY <1>2, TypeFacts
    <3>2. ASSUME NEW x PROVE [stock EXCEPT ![x] = @ + Founding] \in [Places -> Nat]
      <4>1. CASE x \in Places
        <5>1. stock[x] + Founding \in Nat
          BY <3>1, <4>1
        <5> QED
          BY <3>1, <5>1
      <4>2. CASE x \notin Places
        BY <3>1, <4>2
      <4> QED
        BY <4>1, <4>2
    <3> QED
      BY <1>1, <3>2
  <2>4. found' \in Tally
    <3>1. found.ships \in Nat /\ found.cargo \in Nat /\ Founding \in Nat
      BY <1>2, TypeFacts
    <3> QED
      BY <1>1, <3>1 DEF BringIn, Tally
  <2> QED
    BY <1>1, <1>2, <2>1, <2>2, <2>3, <2>4, TypeFacts DEF TypedRest
<1> QED
  BY <1>3, <1>7, <1>8, <1>9, GoesKeeps

(* A pass or a recall that reads a row. *)
LEMMA ReadTyped ==
    ASSUME WellInv, NEW p \in Procs, NEW m \in DOMAIN mv, TakeUp(p, m) \/ AskRecall(p, m)
    PROVE  WellInv'
<1>1. TypeOK /\ Seaworthy(mv[m]) /\ m \in Ids
  BY TypeFacts DEF WellInv, AllSeaworthy
<1>2. UNCHANGED <<owner, ships, stock, mv, acted, reported, recalled, gone, found, faults>>
  BY DEF TakeUp, AskRecall, Planets, Counts
<1>3. mv[m].status \in Active /\ mv[m] \in Rows(Active)
  <2>1. mv[m].status \in Active
    BY DEF TakeUp, AskRecall, Active
  <2> QED
    BY <1>1, <2>1, RowFacts DEF Rows
<1>4. PICK kind \in {"recall"} \cup Active, seen \in Nat :
        Begins(p, kind, m, mv[m], seen) /\ (kind \in Active => mv[m].status = kind)
  <2>1. CASE AskRecall(p, m)
    <3>1. "recall" \notin Active
      BY DEF Active
    <3> QED
      BY <2>1, <3>1 DEF AskRecall
  <2>2. CASE TakeUp(p, m)
    <3> DEFINE seen == IF mv[m].mission = "attack" THEN ships[mv[m].to] ELSE 0
    <3>1. seen \in Nat
      BY <1>1, TypeFacts DEF Seaworthy
    <3>2. Begins(p, mv[m].status, m, mv[m], seen)
      BY <2>2 DEF TakeUp
    <3> QED
      BY <1>3, <3>1, <3>2
  <2> QED
    BY <2>1, <2>2
<1> DEFINE t == Begun(kind, m, mv[m], seen)
<1>5. /\ t \in TxType /\ tx' = [tx EXCEPT ![p] = t] /\ tx'[p] = t
      /\ t.pc = "run" /\ t.kind = kind /\ t.id = m /\ t.row = mv[m]
      /\ \A q \in Procs : q # p => tx'[q] = tx[q]
  BY <1>1, <1>3, <1>4, BeginsEffect
<1> HIDE DEF t
<1>6. tx' \in [Procs -> TxType]
  BY <1>1, <1>5, Puts
<1>7. Knows(p)'
  BY <1>1, <1>2, <1>3, <1>4, <1>5 DEF Knows, Seaworthy
<1>8. \A q \in Procs : Goes(q)
  <2>1. kind # "send"
    BY DEF Active
  <2> QED
    BY <1>2, <1>5, <1>7, <2>1 DEF Goes, Leaves
<1>9. MovesOn /\ TypedRest
  BY <1>1, <1>2, RestStays DEF MovesOn
<1> QED
  BY <1>6, <1>8, <1>9, GoesKeeps

(* A battle: the garrison is what is left of those it met, there or not. *)
LEMMA AttackTyped ==
    ASSUME WellInv, NEW p \in Procs, Attack(p) \/ AttackBreaks(p)
    PROVE  WellInv'
<1> DEFINE row == tx[p].row
           m == tx[p].id
           seen == tx[p].seen
<1>1. /\ tx[p].pc = "run" /\ tx[p].kind = "outbound" /\ row.mission = "attack"
      /\ Unlocked(row.to) /\ Quit(p)
      /\ UNCHANGED <<owner, recalled, found>> /\ acted' = Bump(acted, m)
  BY DEF Attack, AttackBreaks, Resolves
<1>2. /\ TypeOK /\ m \in DOMAIN mv /\ m \in Ids /\ row.to \in Places
      /\ row.ships \in Nat /\ row.cargo \in Nat /\ seen \in Nat
      /\ mv[m].ships \in Nat /\ mv[m].cargo \in Nat
  BY <1>1, HandlerKnows DEF Seaworthy
<1>3. PICK b \in Battles(row.ships, seen), loot \in Nat, n \in Nat, c \in Nat :
        /\ loot = 0 \/ loot = Loot(row, b)
        /\ ships' = Garrison(row, seen, b)
        /\ stock' = [stock EXCEPT ![row.to] = @ - loot]
        /\ UseUp(n, c)
        /\ \/ UNCHANGED <<mv, reported>>
           \/ mv' = Moved(m, "returning", b.left, row.cargo + loot) /\ reported' = reported \cup {m}
           \/ mv' = Turned(m, "failed") /\ reported' = reported
        /\ faults' = faults \/ (faults < MaxFaults /\ faults' = faults + 1)
  <2>1. CASE Attack(p)
    <3>1. PICK b \in Battles(row.ships, seen) :
            /\ ships' = Garrison(row, seen, b)
            /\ stock' = [stock EXCEPT ![row.to] = @ - Loot(row, b)]
            /\ UseUp(seen - b.held + (IF Claims(m, {"outbound"}) THEN row.ships - b.left ELSE 0), 0)
            /\ \/ UNCHANGED <<mv, reported>>
               \/ mv' = Moved(m, "returning", b.left, row.cargo + Loot(row, b))
                  /\ reported' = reported \cup {m}
      BY <2>1 DEF Attack
    <3>2. /\ b.left \in Nat /\ b.left <= row.ships /\ b.held \in Nat /\ b.held <= seen
          /\ Loot(row, b) \in Nat
      BY <1>2, FightFacts
    <3>3. seen - b.held + (IF Claims(m, {"outbound"}) THEN row.ships - b.left ELSE 0) \in Nat
      BY <1>2, <3>2
    <3>4. faults' = faults
      BY <2>1 DEF Attack
    <3> HIDE DEF row, m, seen
    <3> QED
      BY <3>1, <3>2, <3>3, <3>4
  <2>2. CASE AttackBreaks(p)
    <3>1. PICK b \in Battles(row.ships, seen) :
            \E loot \in {0, Loot(row, b)} :
              /\ ships' = Garrison(row, seen, b)
              /\ stock' = [stock EXCEPT ![row.to] = @ - loot]
              /\ UseUp(seen - b.held, loot)
      BY <2>2 DEF AttackBreaks
    <3>2. b.held \in Nat /\ b.held <= seen /\ Loot(row, b) \in Nat
      BY <1>2, FightFacts
    <3>3. PICK loot \in {0, Loot(row, b)} :
            /\ ships' = Garrison(row, seen, b)
            /\ stock' = [stock EXCEPT ![row.to] = @ - loot]
            /\ UseUp(seen - b.held, loot)
      BY <3>1
    <3>4. mv' = Turned(m, "failed") /\ faults < MaxFaults /\ faults' = faults + 1
          /\ reported' = reported
      BY <2>2 DEF AttackBreaks, Broken
    <3>5. seen - b.held \in Nat /\ loot \in Nat
      BY <1>2, <3>2
    <3> HIDE DEF row, m, seen
    <3> QED
      BY <3>2, <3>3, <3>4, <3>5
  <2> QED
    BY <2>1, <2>2
<1>4. /\ b.left \in Nat /\ b.held \in Nat /\ loot <= stock[row.to]
  <2>1. stock[row.to] \in Nat
    BY <1>2, TypeFacts
  <2> QED
    BY <1>2, <1>3, <2>1, FightFacts
<1> HIDE DEF row, m, seen
<1>5. ships' \in [Places -> Nat] /\ stock' \in [Places -> Nat]
  <2>1. [stock EXCEPT ![row.to] = @ - loot] \in [Places -> Nat]
    BY <1>2, <1>4, StoreTyped
  <2> QED
    BY <1>2, <1>3, <1>4, <2>1, TypeFacts DEF Garrison
<1>6. MovesOn
  <2>1. {"returning", "failed"} \subseteq Status \ {"outbound"} /\ row.cargo + loot \in Nat
    BY <1>2 DEF Status, Active
  <2> QED
    BY <1>2, <1>3, <1>4, <2>1, MovedOn DEF MovesOn, Turned
<1>7. TypedRest
  BY <1>1, <1>2, <1>3, <1>5, RestStays
<1>8. tx' \in [Procs -> TxType] /\ \A q \in Procs : Goes(q)
  <2>1. stock' = [stock EXCEPT ![row.to] = stock[row.to] - loot]
    BY <1>3
  <2> QED
    BY <1>1, <2>1, QuitGoes
<1> QED
  BY <1>6, <1>7, <1>8, GoesKeeps

(* A send, whose origin still has what it will take. *)
LEMMA LaunchTyped ==
    ASSUME WellInv, NEW p \in Procs, Launch(p)
    PROVE  WellInv'
<1> DEFINE row == tx[p].row
           last == Len(mv) + 1
<1>1. TypeOK /\ AllSeaworthy /\ (\A q \in Procs : Ready(q)) /\ Room
  BY DEF WellInv
<1>2. /\ Sends(p) /\ Quit(p)
      /\ UNCHANGED <<owner, acted, reported, recalled, gone, found, faults>>
  BY DEF Launch, Sends, Counts
<1>3. Stocked(p)
  BY <1>1, <1>2 DEF Ready
<1>4. CASE UNCHANGED <<ships, stock, mv>>
  <2>1. tx' \in [Procs -> TxType] /\ \A q \in Procs : Goes(q)
    BY <1>2, <1>4, QuitGoes
  <2>2. TypedRest
    BY <1>1, <1>2, <1>4, RestStays
  <2> QED
    BY <1>4, <2>1, <2>2, GoesKeeps DEF MovesOn
<1>5. CASE ~UNCHANGED <<ships, stock, mv>>
  <2>1. /\ ~(ships[row.from] < row.ships) /\ mv' = Append(mv, row)
        /\ ships' = [ships EXCEPT ![row.from] = @ - row.ships]
        /\ stock' = [stock EXCEPT ![row.from] = @ - row.cargo]
    BY <1>5 DEF Launch, Debited
  <2>2. row \in Rows({"outbound"}) /\ Seaworthy(row) /\ row.cargo <= stock[row.from]
    BY <1>3 DEF Stocked
  <2>3. /\ row.from \in Places /\ row.ships \in Nat /\ row.cargo \in Nat
        /\ row \in Rows(Status)
    BY <2>2 DEF Rows, Status, Active
  <2>4. row.ships <= ships[row.from]
    <3>1. ships[row.from] \in Nat
      BY <1>1, <2>3, TypeFacts
    <3> QED
      BY <2>1, <2>3, <3>1
  <2> HIDE DEF row
  <2>5. ships' \in [Places -> Nat] /\ stock' \in [Places -> Nat]
    <3>1. /\ [ships EXCEPT ![row.from] = @ - row.ships] \in [Places -> Nat]
          /\ [stock EXCEPT ![row.from] = @ - row.cargo] \in [Places -> Nat]
      BY <1>1, <2>2, <2>3, <2>4, StoreTyped
    <3> QED
      BY <2>1, <3>1
  <2>6. tx' \in [Procs -> TxType] /\ tx'[p] = NoTx /\ \A q \in Procs : q # p => tx'[q] = tx[q]
    BY <1>1, <1>2, NoTxType, Puts DEF Quit
  <2>7. /\ mv' \in Seq(Rows(Status)) /\ Len(mv') = last /\ mv'[last] = row
        /\ DOMAIN mv' = DOMAIN mv \cup {last} /\ \A k \in DOMAIN mv : mv'[k] = mv[k]
    <3>1. mv \in Seq(Rows(Status)) /\ Len(mv) \in Nat /\ DOMAIN mv = 1..Len(mv)
      BY <1>1, TypeFacts
    <3> QED
      BY <2>1, <2>3, <3>1
  <2>8. Room' /\ last <= MaxSends
    <3>1. Senders' = Senders \ {p} /\ p \in Senders
      BY <1>2, <2>6, NoTxType DEF Senders, Sends
    <3>2. /\ IsFiniteSet(Senders') /\ Cardinality(Senders') = Cardinality(Senders) - 1
          /\ Cardinality(Senders') \in Nat /\ Cardinality(Senders) \in Nat
      BY <1>1, <3>1, FS_RemoveElement, FS_CardinalityType DEF Room
    <3>3. last + Cardinality(Senders') <= MaxSends
      BY <1>1, <3>2, TypeFacts DEF Room
    <3> QED
      BY <1>1, <2>7, <3>2, <3>3, TypeFacts DEF Room
  <2>9. TypeOK'
    BY <1>1, <1>2, <2>5, <2>6, <2>7, <2>8, TypeFacts DEF TypeOK, TxType, Tally
  <2>10. AllSeaworthy'
    BY <1>1, <2>2, <2>7 DEF AllSeaworthy, Seaworthy
  <2>11. ASSUME NEW q \in Procs PROVE Ready(q)'
    <3>1. CASE q = p
      BY <2>6, <3>1, NoTxType DEF Ready, Sends
    <3>2. CASE q # p /\ Sends(q)
      <4>1. Stocked(q) /\ tx'[q] = tx[q]
        BY <1>1, <2>6, <3>2 DEF Ready
      <4>2. tx[q].row.from # row.from
        BY <1>2, <3>2, <4>1 DEF Stocked, row
      <4>3. tx[q].row.from \in Places
        BY <4>1 DEF Stocked, Rows
      <4>4. stock'[tx[q].row.from] = stock[tx[q].row.from]
        BY <1>1, <2>1, <4>2, <4>3, TypeFacts
      <4>5. \A r \in Procs : tx'[r].kind = "send" /\ tx'[r].row.from = tx'[q].row.from => r = q
        BY <2>6, <4>1, NoTxType DEF Stocked, Sends
      <4>6. Stocked(q)'
        BY <4>1, <4>4, <4>5 DEF Stocked, Sends, Seaworthy
      <4> QED
        BY <3>2, <4>1, <4>6 DEF Ready, Sends, Stocked
    <3>3. CASE q # p /\ ~Sends(q)
      <4>1. tx'[q] = tx[q] /\ Ready(q)
        BY <1>1, <2>6, <3>3
      <4>2. tx[q].pc # "idle" => Knows(q)'
        BY <2>7, <3>3, <4>1 DEF Ready, Knows, Seaworthy
      <4> QED
        BY <3>3, <4>1, <4>2 DEF Ready, Sends
    <3> QED
      BY <3>1, <3>2, <3>3
  <2> QED
    BY <2>8, <2>9, <2>10, <2>11 DEF WellInv
<1> QED
  BY <1>4, <1>5

(* A send that begins locks an origin no other send has locked. *)
LEMMA ValidateTyped ==
    ASSUME WellInv, NEW p \in Procs, Validate(p)
    PROVE  WellInv'
<1>1. TypeOK /\ AllSeaworthy /\ (\A q \in Procs : Ready(q)) /\ Room
  BY DEF WellInv
<1>2. /\ tx[p].pc = "idle" /\ Len(mv) + Cardinality(Senders) < MaxSends
      /\ UNCHANGED <<owner, ships, stock, mv, acted, reported, recalled, gone, found, faults>>
  BY DEF Validate, Idle, Planets, Counts, Senders, Sends
<1>3. PICK from \in Places, mission \in Missions :
        LET u == owner[from] IN
        /\ u # Nobody /\ Unlocked(from)
        /\ SlotFree(u)
        /\ \E to \in Targets(u, mission) \ {from}, n \in 1..ships[from], c \in 0..stock[from] :
             /\ c <= n
             /\ mission = "colonize" => c = 0
             /\ Begins(p, "send", 0,
                       [player |-> u, from |-> from, to |-> to, mission |-> mission,
                        status |-> "outbound", ships |-> n, cargo |-> c], 0)
  BY Zenon DEF Validate
<1>4. PICK to \in Targets(owner[from], mission), n \in 1..ships[from], c \in 0..stock[from] :
        /\ c <= n /\ (mission = "colonize" => c = 0)
        /\ Begins(p, "send", 0,
                  [player |-> owner[from], from |-> from, to |-> to, mission |-> mission,
                   status |-> "outbound", ships |-> n, cargo |-> c], 0)
  BY <1>3
<1>5. /\ ships[from] \in Nat /\ stock[from] \in Nat /\ owner[from] \in Players
      /\ n \in Nat /\ c \in Nat /\ n > 0 /\ c <= stock[from]
  BY <1>1, <1>3, TypeFacts
<1>6. (mission # "expedition" => to \in Places) /\ to \in Places \cup {Space}
  BY <1>4, FleetAssumption DEF Targets
<1> DEFINE sent == [player |-> owner[from], from |-> from, to |-> to, mission |-> mission,
                    status |-> "outbound", ships |-> n, cargo |-> c]
<1>7. /\ sent \in Rows({"outbound"}) /\ sent \in Rows(Active) /\ Seaworthy(sent)
      /\ sent.from = from /\ sent.cargo = c
  BY <1>4, <1>5, <1>6 DEF Rows, Active, Seaworthy
<1>8. Begins(p, "send", 0, sent, 0)
  BY <1>4
<1> HIDE DEF sent
<1> DEFINE t == Begun("send", 0, sent, 0)
<1>9. /\ t \in TxType /\ tx' = [tx EXCEPT ![p] = t] /\ tx'[p] = t
      /\ t.pc = "run" /\ t.kind = "send" /\ t.row = sent
      /\ \A q \in Procs : q # p => tx'[q] = tx[q]
  BY SMTT(20), <1>1, <1>7, <1>8, BeginsEffect
<1> HIDE DEF t
<1>10. tx' \in [Procs -> TxType]
  BY <1>1, <1>9, Puts
<1>11. TypeOK'
  BY <1>1, <1>2, <1>10, TypeFacts DEF TypeOK, TxType, Tally
<1>12. Room'
  <2>1. Senders' = Senders \cup {p} /\ p \notin Senders
    <3>1. tx[p].kind = "none"
      BY <1>1, <1>2, NoTxType DEF Ready
    <3> QED
      BY <1>9, <3>1 DEF Senders, Sends
  <2>2. /\ IsFiniteSet(Senders') /\ Cardinality(Senders') = Cardinality(Senders) + 1
        /\ Cardinality(Senders) \in Nat
    BY <1>1, <2>1, FS_AddElement, FS_CardinalityType DEF Room
  <2> QED
    BY <1>1, <1>2, <2>2, TypeFacts DEF Room
<1>13. AllSeaworthy'
  BY <1>1, <1>2 DEF AllSeaworthy, Seaworthy
<1>14. \A q \in Procs : Sends(q) => tx[q].row.from # from /\ q # p
  <2>1. ASSUME NEW q \in Procs, Sends(q) PROVE tx[q].row.from # from /\ q # p
    <3>1. tx[q].pc = "run"
      BY <1>1, <2>1 DEF Ready, Stocked
    <3> QED
      BY <1>2, <1>3, <2>1, <3>1 DEF Unlocked, Sends
  <2> QED
    BY <2>1
<1>15. ASSUME NEW q \in Procs PROVE Ready(q)'
  <2>1. CASE q = p
    <3>1. \A r \in Procs : tx'[r].kind = "send" /\ tx'[r].row.from = from => r = p
      BY <1>9, <1>14 DEF Sends
    <3>2. stock'[from] = stock[from]
      BY <1>2
    <3>3. Stocked(p)'
      BY <1>5, <1>7, <1>9, <3>1, <3>2 DEF Stocked, Sends, Seaworthy
    <3> QED
      BY <1>9, <2>1, <3>3 DEF Ready, Sends
  <2>2. CASE q # p /\ Sends(q)
    <3>1. Stocked(q) /\ tx'[q] = tx[q] /\ tx[q].row.from # from
      BY <1>1, <1>9, <1>14, <2>2 DEF Ready
    <3>2. \A r \in Procs : tx'[r].kind = "send" /\ tx'[r].row.from = tx'[q].row.from => r = q
      BY <1>7, <1>9, <3>1 DEF Stocked, Sends
    <3>3. Stocked(q)'
      BY <1>2, <3>1, <3>2 DEF Stocked, Sends, Seaworthy
    <3> QED
      BY <2>2, <3>1, <3>3 DEF Ready, Sends, Stocked
  <2>3. CASE q # p /\ ~Sends(q)
    <3>1. tx'[q] = tx[q] /\ Ready(q)
      BY <1>1, <1>9, <2>3
    <3>2. tx[q].pc # "idle" => Knows(q)'
      BY <1>2, <2>3, <3>1 DEF Ready, Knows, Seaworthy
    <3> QED
      BY <2>3, <3>1, <3>2 DEF Ready, Sends
  <2> QED
    BY <2>1, <2>2, <2>3
<1> QED
  BY <1>11, <1>12, <1>13, <1>15 DEF WellInv

(* Every step keeps the types. *)
LEMMA StepTyped ==
    ASSUME WellInv, [Next]_vars
    PROVE  WellInv'
<1>1. CASE UNCHANGED vars
  <2>1. /\ UNCHANGED <<owner, ships, stock, mv, tx>>
        /\ UNCHANGED <<acted, reported, recalled, gone, found, faults>>
    BY <1>1 DEF vars
  <2>2. TypeOK
    BY DEF WellInv
  <2>3. TypedRest /\ tx' \in [Procs -> TxType] /\ \A q \in Procs : Goes(q)
    BY <2>1, <2>2, TypeFacts, RestStays DEF Goes, Leaves
  <2> QED
    BY <2>1, <2>3, GoesKeeps DEF MovesOn
<1>2. ASSUME NEW m \in DOMAIN mv, RepairStuck(m) PROVE WellInv'
  BY <1>2, RepairTyped
<1>3. ASSUME NEW p \in Procs, NEW m \in DOMAIN mv, TakeUp(p, m) \/ AskRecall(p, m)
      PROVE  WellInv'
  BY <1>3, ReadTyped
<1>4. ASSUME NEW p \in Procs, Resolve(p) PROVE WellInv'
  BY <1>4, TransportTyped, CollectTyped, DeployTyped, AttackTyped, MoveTyped, FoundTyped,
     ReturnTyped DEF Resolve
<1>5. ASSUME NEW p \in Procs,
             \/ Validate(p) \/ Launch(p) \/ Recall(p)
             \/ AttackBreaks(p) \/ Raise(p) \/ MarkFailed(p) \/ Crash(p)
      PROVE  WellInv'
  BY <1>5, ValidateTyped, LaunchTyped, MoveTyped, AttackTyped, RaiseTyped
<1> QED
  BY <1>1, <1>2, <1>3, <1>4, <1>5 DEF Next

(* Before the first fleet. *)
LEMMA InitTyped == Init => WellInv
<1> SUFFICES ASSUME Init PROVE WellInv
  OBVIOUS
<1>1. TypeOK /\ AllSeaworthy
  BY InitSafe DEF FleetInv
<1>2. Len(mv) = 0 /\ \A p \in Procs : tx[p] = NoTx
  BY DEF Init
<1>3. Senders = {}
  BY <1>2, NoTxType DEF Senders, Sends
<1>4. Room
  BY <1>2, <1>3, FS_EmptySet, FleetAssumption DEF Room
<1> QED
  BY <1>1, <1>2, <1>4, NoTxType DEF WellInv, Ready, Sends

-----------------------------------------------------------------------------
(* Fleets only move on, on both databases. A claim sees the status a row has *)
(* when it is written, so a handler that read it earlier does no harm; an    *)
(* ark is used up without a claim, which is safe because its row is on the   *)
(* way home and nobody else handles it until then.                           *)

(* The row of an ark that is being used is on its way home, and his alone.   *)
Ashore(p) ==
    tx[p].pc = "ark" =>
        /\ mv[tx[p].id].status = "returning"
        /\ \A q \in Procs : tx[q].pc = "ark" /\ tx[q].id = tx[p].id => q = p

(* Who handles a return does so for a fleet past its mission.                *)
Homeward(p) ==
    tx[p].pc \in {"run", "fail"} /\ tx[p].kind = "returning" =>
        mv[tx[p].id].status \notin {"outbound", "holding"} /\ ~Landing(tx[p].id)

LandInv == WellInv /\ \A p \in Procs : Ashore(p) /\ Homeward(p)

(* One fleet moves on, and is on its way home while its ark is in use.       *)
Shift(m, status, n, c) ==
    /\ m \in DOMAIN mv /\ mv[m].status \in Active
    /\ status \in Status \ {"outbound"} /\ (status = "holding" => mv[m].status = "outbound")
    /\ mv' = Moved(m, status, n, c)
    /\ Landing(m)' => status = "returning"

Shifts ==
    \/ mv' = mv
    \/ \E row : mv' = Append(mv, row)
    \/ \E m, status, n, c : Shift(m, status, n, c)

Onward ==
    \A m \in DOMAIN mv :
        /\ mv[m].status \notin Active => mv'[m] = mv[m]
        /\ mv[m].status = "returning" => mv'[m].status \notin {"outbound", "holding"}
        /\ mv[m].status = "holding" => mv'[m].status # "outbound"

(* What a shift changes of the rows. *)
LEMMA ShiftEffect ==
    ASSUME TypeOK, NEW m, NEW status, NEW n, NEW c, Shift(m, status, n, c)
    PROVE  /\ DOMAIN mv' = DOMAIN mv /\ m \in DOMAIN mv /\ mv'[m].status = status
           /\ \A k \in DOMAIN mv : k # m => mv'[k] = mv[k]
<1> DEFINE old == mv[m]
           row == [player |-> old.player, from |-> old.from, to |-> old.to,
                   mission |-> old.mission, status |-> status, ships |-> n, cargo |-> c]
<1>1. m \in DOMAIN mv /\ mv' = Moved(m, status, n, c)
  BY DEF Shift
<1>2. mv' = [mv EXCEPT ![m] = row]
  BY <1>1 DEF Moved
<1>3. row.status = status
  OBVIOUS
<1> HIDE DEF row
<1> QED
  BY <1>1, <1>2, <1>3, TypeFacts

(* Shifting moves fleets on. *)
LEMMA ShiftsOnward ==
    ASSUME TypeOK, Shifts
    PROVE  /\ Onward
           /\ \A m \in DOMAIN mv :
                mv[m].status \notin {"outbound", "holding"} =>
                    m \in DOMAIN mv' /\ mv'[m].status \notin {"outbound", "holding"}
<1>1. CASE mv' = mv
  BY <1>1 DEF Onward, Active
<1>2. ASSUME NEW row, mv' = Append(mv, row)
      PROVE  \A m \in DOMAIN mv : m \in DOMAIN mv' /\ mv'[m] = mv[m]
  BY <1>2, TypeFacts
<1>3. ASSUME NEW m, NEW status, NEW n, NEW c, Shift(m, status, n, c)
      PROVE  /\ Onward
             /\ \A k \in DOMAIN mv :
                  mv[k].status \notin {"outbound", "holding"} =>
                      k \in DOMAIN mv' /\ mv'[k].status \notin {"outbound", "holding"}
  <2>1. /\ DOMAIN mv' = DOMAIN mv /\ mv'[m].status = status
        /\ \A k \in DOMAIN mv : k # m => mv'[k] = mv[k]
    BY <1>3, ShiftEffect
  <2>2. /\ mv[m].status \in Active /\ status # "outbound"
        /\ status = "holding" => mv[m].status = "outbound"
    BY <1>3 DEF Shift
  <2> QED
    BY <2>1, <2>2 DEF Onward, Active
<1>4. Onward /\ \A k \in DOMAIN mv :
                  mv[k].status \notin {"outbound", "holding"} =>
                      k \in DOMAIN mv' /\ mv'[k].status \notin {"outbound", "holding"}
  <2>1. CASE \E row : mv' = Append(mv, row)
    BY <1>2, <2>1 DEF Onward, Active
  <2>2. CASE \E m, status, n, c : Shift(m, status, n, c)
    BY <1>3, <2>2
  <2> QED
    BY <1>1, <2>1, <2>2 DEF Shifts
<1> QED
  BY <1>4

(* A process stays as it is, does nothing of a return, takes one up, fails   *)
(* to carry one out, or lands.                                               *)
Turns(q) ==
    \/ tx'[q] = tx[q]
    \/ tx'[q].pc # "ark" /\ (tx'[q].pc # "idle" => tx'[q].kind # "returning")
    \/ /\ tx'[q].pc = "run" /\ tx'[q].id \in DOMAIN mv /\ mv' = mv
       /\ mv[tx'[q].id].status = "returning" /\ ~Landing(tx'[q].id)
    \/ /\ tx[q].pc = "run" /\ tx'[q].pc = "fail" /\ mv' = mv
       /\ tx'[q].kind = tx[q].kind /\ tx'[q].id = tx[q].id
    \/ /\ tx'[q].pc = "ark" /\ tx'[q].id \in DOMAIN mv
       /\ mv[tx'[q].id].status = "outbound" /\ mv'[tx'[q].id].status = "returning"
       /\ \A r \in Procs : r # q => tx'[r] = tx[r]

(* Such steps keep the arks theirs and the returns homeward. *)
LEMMA TurnsKeep ==
    ASSUME LandInv, WellInv', Shifts, \A q \in Procs : Turns(q)
    PROVE  LandInv' /\ Onward
<1>1. TypeOK /\ TypeOK' /\ \A p \in Procs : Ashore(p) /\ Homeward(p)
  BY DEF LandInv, WellInv
<1>2. /\ Onward
      /\ \A m \in DOMAIN mv :
           mv[m].status \notin {"outbound", "holding"} =>
               m \in DOMAIN mv' /\ mv'[m].status \notin {"outbound", "holding"}
  BY <1>1, ShiftsOnward
<1>3. \A p \in Procs : tx[p].pc # "idle" /\ tx[p].kind # "send" => tx[p].id \in DOMAIN mv
  BY DEF LandInv, WellInv, Ready, Sends, Knows
<1>4. \A p \in Procs : tx[p].pc = "ark" => tx[p].id \in DOMAIN mv
  BY DEF LandInv, WellInv, Ready, Sends, Knows, Stocked
<1>5. ASSUME NEW m \in DOMAIN mv, mv[m].status # "outbound", ~Landing(m)
      PROVE  \A q \in Procs : tx'[q].pc = "ark" => tx'[q].id # m
  BY <1>5 DEF Turns, Landing
<1>6. ASSUME NEW p \in Procs PROVE Homeward(p)'
  <2>1. SUFFICES ASSUME tx'[p].pc \in {"run", "fail"}, tx'[p].kind = "returning"
                 PROVE  /\ mv'[tx'[p].id].status \notin {"outbound", "holding"}
                        /\ \A q \in Procs : tx'[q].pc = "ark" => tx'[q].id # tx'[p].id
    BY DEF Homeward, Landing
  <2>2. CASE tx'[p] = tx[p]
    BY <1>1, <1>2, <1>3, <1>5, <2>1, <2>2 DEF Homeward, Landing
  <2>3. CASE /\ tx'[p].pc = "run" /\ tx'[p].id \in DOMAIN mv /\ mv' = mv
             /\ mv[tx'[p].id].status = "returning" /\ ~Landing(tx'[p].id)
    BY <1>5, <2>3
  <2>4. CASE /\ tx[p].pc = "run" /\ tx'[p].pc = "fail" /\ mv' = mv
             /\ tx'[p].kind = tx[p].kind /\ tx'[p].id = tx[p].id
    BY <1>1, <1>3, <1>5, <2>1, <2>4 DEF Homeward
  <2> QED
    BY <2>1, <2>2, <2>3, <2>4 DEF Turns
<1>7. ASSUME NEW p \in Procs, tx'[p].pc = "ark"
      PROVE  /\ mv'[tx'[p].id].status = "returning"
             /\ \A q \in Procs : tx'[q].pc = "ark" /\ tx'[q].id = tx'[p].id => q = p
  <2>1. CASE tx'[p] = tx[p]
    <3>1. /\ tx[p].id \in DOMAIN mv /\ mv[tx[p].id].status = "returning"
          /\ \A q \in Procs : tx[q].pc = "ark" /\ tx[q].id = tx[p].id => q = p
      BY <1>1, <1>4, <1>7, <2>1 DEF Ashore
    <3>2. \A q \in Procs : tx'[q].pc = "ark" /\ tx'[q].id = tx[p].id => q = p
      BY <3>1 DEF Turns
    <3>3. mv'[tx[p].id].status = "returning"
      <4>1. CASE mv' = mv
        BY <3>1, <4>1
      <4>2. ASSUME NEW row, mv' = Append(mv, row) PROVE mv'[tx[p].id] = mv[tx[p].id]
        BY <1>1, <3>1, <4>2, TypeFacts
      <4>3. ASSUME NEW m, NEW status, NEW n, NEW c, Shift(m, status, n, c)
            PROVE  mv'[tx[p].id].status = "returning"
        <5>1. CASE m = tx[p].id
          <6>1. Landing(m)'
            BY <1>7, <2>1, <5>1 DEF Landing
          <6> QED
            BY <1>1, <4>3, <5>1, <6>1, ShiftEffect DEF Shift
        <5>2. CASE m # tx[p].id
          BY <1>1, <3>1, <4>3, <5>2, ShiftEffect
        <5> QED
          BY <5>1, <5>2
      <4> QED
        BY <3>1, <4>1, <4>2, <4>3 DEF Shifts
    <3> QED
      BY <2>1, <3>2, <3>3
  <2>2. CASE /\ tx'[p].id \in DOMAIN mv
             /\ mv[tx'[p].id].status = "outbound" /\ mv'[tx'[p].id].status = "returning"
             /\ \A r \in Procs : r # p => tx'[r] = tx[r]
    <3>1. \A q \in Procs : tx[q].pc = "ark" => tx[q].id # tx'[p].id
      BY <1>1, <2>2 DEF Ashore
    <3> QED
      BY <2>2, <3>1
  <2> QED
    BY <1>7, <2>1, <2>2 DEF Turns
<1>8. \A p \in Procs : Ashore(p)'
  BY <1>7 DEF Ashore
<1> QED
  BY <1>2, <1>6, <1>8 DEF LandInv

(* A fleet a handler may move: no other handler is using its ark.            *)
Claimed(p, m) ==
    \/ mv[m].status \in {"outbound", "holding"}
    \/ mv[m].status = "returning" /\ ~Landing(m)
    \/ mv[m].status = "returning" /\ tx[p].pc = "ark" /\ tx[p].id = m

(* A handler that is done, and has moved at most a fleet it may claim. *)
LEMMA QuitOnward ==
    ASSUME LandInv, WellInv', NEW p \in Procs, Quit(p),
           \/ mv' = mv
           \/ \E row : mv' = Append(mv, row)
           \/ \E m \in DOMAIN mv, status \in Status \ {"outbound"} : \E n, c :
                /\ Claimed(p, m) /\ (status = "holding" => mv[m].status = "outbound")
                /\ mv' = Moved(m, status, n, c)
    PROVE  LandInv' /\ Onward
<1>1. TypeOK /\ \A q \in Procs : Ashore(q)
  BY DEF LandInv, WellInv
<1>2. tx'[p] = NoTx /\ \A q \in Procs : q # p => tx'[q] = tx[q]
  BY <1>1, NoTxType, Puts DEF Quit
<1>3. \A q \in Procs : Turns(q)
  BY <1>2, NoTxType DEF Turns
<1>4. ASSUME NEW m, Claimed(p, m) PROVE ~Landing(m)' /\ mv[m].status \in Active
  <2>1. ASSUME NEW q \in Procs, tx'[q].pc = "ark", tx'[q].id = m PROVE FALSE
    <3>1. q # p /\ tx[q].pc = "ark" /\ tx[q].id = m
      BY <1>2, <2>1, NoTxType
    <3>2. mv[m].status = "returning" /\ Landing(m)
      BY <1>1, <3>1 DEF Ashore, Landing
    <3>3. tx[p].pc = "ark" /\ tx[p].id = m
      BY <1>4, <3>2 DEF Claimed
    <3> QED
      BY <1>1, <3>1, <3>3 DEF Ashore
  <2> QED
    BY <1>4, <2>1 DEF Landing, Claimed, Active
<1>5. Shifts
  BY <1>4 DEF Shifts, Shift
<1> QED
  BY <1>3, <1>5, TurnsKeep

(* What a handler knows of the row it is about to claim. *)
LEMMA MayClaim ==
    ASSUME LandInv, NEW p \in Procs, tx[p].pc # "idle", tx[p].kind # "send"
    PROVE  LET m == tx[p].id IN
           /\ m \in DOMAIN mv /\ mv[m].status \in Status
           /\ mv[m].status \in {"outbound", "holding"} => Claimed(p, m)
           /\ tx[p].pc \in {"run", "fail"} /\ tx[p].kind = "returning" /\ mv[m].status = "returning"
                => Claimed(p, m)
           /\ tx[p].pc = "ark" => Claimed(p, m) /\ mv[m].status = "returning"
<1>1. tx[p].id \in DOMAIN mv /\ mv[tx[p].id].status \in Status
  BY HandlerKnows DEF LandInv
<1>2. Ashore(p) /\ Homeward(p)
  BY DEF LandInv
<1> QED
  BY <1>1, <1>2 DEF Claimed, Ashore, Homeward

(* Every handler that claims and is done. *)
LEMMA ClaimOnward ==
    ASSUME LandInv, WellInv', NEW p \in Procs,
           \/ Transport(p) \/ Collect(p) \/ Deploy(p) \/ Attack(p) \/ AttackBreaks(p)
           \/ Stay(p) \/ LeavePost(p) \/ ExpeditionEnds(p) \/ FoundRefused(p)
           \/ Return(p) \/ Recall(p) \/ Crash(p)
    PROVE  LandInv' /\ Onward
<1> DEFINE m == tx[p].id
<1>1. Quit(p)
  BY DEF Transport, Collect, Deploy, Attack, AttackBreaks, Stay, LeavePost, ExpeditionEnds,
         FoundRefused, Return, Recall, Crash
<1>2. {"holding", "returning", "completed", "failed"} \subseteq Status \ {"outbound"}
  BY DEF Status, Active
<1>3. CASE mv' = mv
  BY <1>1, <1>3, QuitOnward
<1>4. CASE mv' # mv /\ ~Crash(p)
  <2>1. \/ /\ tx[p].pc = "run" /\ tx[p].kind \in {"outbound", "holding", "recall"}
           /\ mv[m].status \in {"outbound", "holding"}
           /\ \E n, c : \/ mv' = Moved(m, "returning", n, c)
                        \/ mv' = Moved(m, "completed", n, c)
                        \/ mv' = Moved(m, "failed", n, c)
                        \/ mv' = Moved(m, "holding", n, c) /\ mv[m].status = "outbound"
        \/ /\ tx[p].pc = "run" /\ tx[p].kind = "returning" /\ mv[m].status = "returning"
           /\ mv' = Moved(m, "completed", 0, 0)
    <3>1. CASE Transport(p) \/ Collect(p) \/ Deploy(p)
      BY <1>4, <3>1 DEF Transport, Collect, Deploy, Resolves, Claims
    <3>2. CASE Attack(p)
      BY <1>4, <3>2 DEF Attack, Resolves, Claims
    <3>3. CASE AttackBreaks(p)
      BY <1>4, <3>3 DEF AttackBreaks, Broken, Turned, Resolves, Claims
    <3>4. CASE Stay(p) \/ LeavePost(p) \/ FoundRefused(p)
      BY <1>4, <3>4 DEF Stay, LeavePost, FoundRefused, Turned, Resolves, Claims
    <3>5. CASE ExpeditionEnds(p)
      BY <1>4, <3>5 DEF ExpeditionEnds, Resolves, Claims
    <3>6. CASE Return(p) \/ Recall(p)
      BY <1>4, <3>6 DEF Return, Recall, Claims
    <3> QED
      BY <1>4, <3>1, <3>2, <3>3, <3>4, <3>5, <3>6
  <2>2. m \in DOMAIN mv /\ Claimed(p, m)
    BY <2>1, MayClaim
  <2> HIDE DEF m
  <2>3. \E status \in Status \ {"outbound"} : \E n, c :
          /\ (status = "holding" => mv[m].status = "outbound")
          /\ mv' = Moved(m, status, n, c)
    BY <1>2, <2>1
  <2> QED
    BY <1>1, <2>2, <2>3, QuitOnward
<1> QED
  BY <1>3, <1>4 DEF Crash

(* Using up an ark, which claims nothing. *)
LEMMA UseArkOnward ==
    ASSUME LandInv, WellInv', NEW p \in Procs, UseArk(p)
    PROVE  LandInv' /\ Onward
<1> DEFINE m == tx[p].id
<1>1. Quit(p) /\ tx[p].pc = "ark"
  BY DEF UseArk
<1>2. m \in DOMAIN mv /\ Claimed(p, m) /\ mv[m].status = "returning"
  <2>1. tx[p].kind # "send"
    BY <1>1 DEF LandInv, WellInv, Ready, Sends, Stocked
  <2> QED
    BY <1>1, <2>1, MayClaim
<1>3. \E n, c : mv' = Moved(m, "returning", n, c) \/ mv' = Moved(m, "completed", n, c)
  BY <1>2 DEF UseArk
<1>4. {"returning", "completed"} \subseteq Status \ {"outbound"}
  BY DEF Status, Active
<1> HIDE DEF m
<1>5. \E status \in Status \ {"outbound"} : \E n, c :
        (status = "holding" => mv[m].status = "outbound") /\ mv' = Moved(m, status, n, c)
  BY <1>3, <1>4
<1> QED
  BY <1>1, <1>2, <1>5, QuitOnward

(* The report of a failure, which claims the phase that failed. *)
LEMMA MarkFailedOnward ==
    ASSUME LandInv, WellInv', NEW p \in Procs, MarkFailed(p)
    PROVE  LandInv' /\ Onward
<1> DEFINE m == tx[p].id
<1>1. Quit(p) /\ tx[p].pc = "fail"
  BY DEF MarkFailed
<1>2. tx[p].kind # "send"
  BY <1>1 DEF LandInv, WellInv, Ready, Sends, Stocked
<1>3. CASE mv' = mv
  BY <1>1, <1>3, QuitOnward
<1>4. CASE mv' # mv
  <2>1. mv[m].status = tx[p].kind /\ \E n, c : mv' = Moved(m, "failed", n, c)
    BY <1>4 DEF MarkFailed, Claims, Turned
  <2>2. tx[p].kind \in {"none", "send", "recall"} \cup Active
    BY TypeFacts DEF LandInv, WellInv, TxType
  <2>3. m \in DOMAIN mv /\ Claimed(p, m)
    BY <1>1, <1>2, <2>1, <2>2, MayClaim DEF Status, Active
  <2>4. "failed" \in Status \ {"outbound"}
    BY DEF Status, Active
  <2> HIDE DEF m
  <2>5. \E status \in Status \ {"outbound"} : \E n, c :
          (status = "holding" => mv[m].status = "outbound") /\ mv' = Moved(m, status, n, c)
    BY <2>1, <2>4
  <2> QED
    BY <1>1, <2>3, <2>5, QuitOnward
<1> QED
  BY <1>3, <1>4

(* A send. *)
LEMMA SendOnward ==
    ASSUME LandInv, WellInv', NEW p \in Procs, Launch(p)
    PROVE  LandInv' /\ Onward
<1>1. Quit(p) /\ (mv' = mv \/ \E row : mv' = Append(mv, row))
  BY DEF Launch
<1> QED
  BY <1>1, QuitOnward

(* A repair, which leaves alone a fleet whose ark is in use. *)
LEMMA RepairOnward ==
    ASSUME LandInv, WellInv', NEW m \in DOMAIN mv, RepairStuck(m)
    PROVE  LandInv' /\ Onward
<1>1. tx' = tx /\ mv' = Moved(m, "failed", mv[m].ships, mv[m].cargo)
  BY DEF RepairStuck, Turned
<1>2. mv[m].status \in Active /\ ~Landing(m)
  BY DEF RepairStuck, Landing, LandInv, Ashore, Active
<1>3. "failed" \in Status \ {"outbound"}
  BY DEF Status
<1>4. ~Landing(m)'
  BY <1>1, <1>2 DEF Landing
<1>5. Shifts
  BY <1>1, <1>2, <1>3, <1>4 DEF Shifts, Shift
<1> QED
  BY <1>1, <1>5, TurnsKeep DEF Turns

(* The claim of a new colony. *)
LEMMA FoundOnward ==
    ASSUME LandInv, WellInv', NEW p \in Procs, Found(p)
    PROVE  LandInv' /\ Onward
<1> DEFINE m == tx[p].id
<1>1. /\ tx[p].pc = "run" /\ tx[p].kind = "outbound" /\ Continues(p, "ark")
      /\ mv' = Moved(m, "returning", tx[p].row.ships, 0) /\ mv[m].status = "outbound"
  BY DEF Found, Resolves, Claims
<1>2. TypeOK /\ m \in DOMAIN mv
  BY <1>1, HandlerKnows DEF LandInv
<1>3. tx'[p] = Left(tx[p], "ark") /\ \A q \in Procs : q # p => tx'[q] = tx[q]
  BY <1>1, <1>2, ContinuesEffect
<1>4. tx'[p].pc = "ark" /\ tx'[p].id = m
  BY <1>3 DEF Left
<1>5. Shift(m, "returning", tx[p].row.ships, 0)
  BY <1>1, <1>2 DEF Shift, Status, Active
<1>6. mv'[m].status = "returning"
  BY <1>2, <1>5, ShiftEffect
<1>7. \A q \in Procs : Turns(q)
  BY <1>1, <1>2, <1>3, <1>4, <1>6 DEF Turns
<1>8. Shifts
  BY <1>5 DEF Shifts
<1> QED
  BY <1>7, <1>8, TurnsKeep

(* An exception. *)
LEMMA RaiseOnward ==
    ASSUME LandInv, WellInv', NEW p \in Procs, Raise(p)
    PROVE  LandInv' /\ Onward
<1>1. mv' = mv /\ tx[p].pc = "run" /\ (Quit(p) \/ Continues(p, "fail"))
  BY DEF Raise
<1>2. CASE Quit(p)
  BY <1>1, <1>2, QuitOnward
<1>3. CASE Continues(p, "fail")
  <2>1. TypeOK
    BY DEF LandInv, WellInv
  <2>2. tx'[p] = Left(tx[p], "fail") /\ \A q \in Procs : q # p => tx'[q] = tx[q]
    BY <1>3, <2>1, ContinuesEffect
  <2>3. tx'[p].pc = "fail" /\ tx'[p].kind = tx[p].kind /\ tx'[p].id = tx[p].id
    BY <2>2 DEF Left
  <2>4. \A q \in Procs : Turns(q)
    BY <1>1, <2>2, <2>3 DEF Turns
  <2> QED
    BY <1>1, <2>4, TurnsKeep DEF Shifts
<1> QED
  BY <1>1, <1>2, <1>3

(* A handler that begins. *)
LEMMA BeginsOnward ==
    ASSUME LandInv, WellInv', NEW p \in Procs,
           NEW kind \in {"send", "recall"} \cup Active, NEW id \in Ids \cup {0}, NEW row, NEW seen,
           Begins(p, kind, id, row, seen), mv' = mv,
           kind = "returning" =>
               id \in DOMAIN mv /\ mv[id].status = "returning" /\ ~Landing(id)
    PROVE  LandInv' /\ Onward
<1> DEFINE t == Begun(kind, id, row, seen)
<1>1. tx \in [Procs -> TxType]
  BY TypeFacts DEF LandInv, WellInv
<1>2. tx' = [tx EXCEPT ![p] = t]
  BY DEF Begins, Begun
<1>3. t.pc = "run" /\ t.kind = kind /\ t.id = id
  BY DEF Begun
<1> HIDE DEF t
<1>4. tx'[p] = t /\ \A q \in Procs : q # p => tx'[q] = tx[q]
  BY <1>1, <1>2
<1>5. \A q \in Procs : Turns(q)
  BY <1>3, <1>4 DEF Turns
<1> QED
  BY <1>5, TurnsKeep DEF Shifts

(* Taking up, recalling, and checking a send. *)
LEMMA ReadOnward ==
    ASSUME LandInv, WellInv', NEW p \in Procs,
           Validate(p) \/ \E m \in DOMAIN mv : TakeUp(p, m) \/ AskRecall(p, m)
    PROVE  LandInv' /\ Onward
<1>1. mv' = mv
  BY DEF Validate, TakeUp, AskRecall
<1>2. CASE Validate(p)
  <2>1. \E row : Begins(p, "send", 0, row, 0)
    BY <1>2, Zenon DEF Validate
  <2> QED
    BY <1>1, <2>1, BeginsOnward
<1>3. ASSUME NEW m \in DOMAIN mv, TakeUp(p, m) PROVE LandInv' /\ Onward
  <2>1. \E seen : Begins(p, mv[m].status, m, mv[m], seen)
    BY <1>3 DEF TakeUp
  <2>2. mv[m].status \in Active /\ ~Landing(m) /\ m \in Ids
    BY <1>3, TypeFacts DEF TakeUp, LandInv, WellInv
  <2> QED
    BY <1>1, <2>1, <2>2, BeginsOnward
<1>4. ASSUME NEW m \in DOMAIN mv, AskRecall(p, m) PROVE LandInv' /\ Onward
  <2>1. Begins(p, "recall", m, mv[m], 0) /\ m \in Ids
    BY <1>4, TypeFacts DEF AskRecall, LandInv, WellInv
  <2> QED
    BY <1>1, <2>1, BeginsOnward
<1> QED
  BY <1>2, <1>3, <1>4

(* Every step moves fleets on. *)
LEMMA StepOnward ==
    ASSUME LandInv, [Next]_vars
    PROVE  LandInv' /\ Onward
<1>1. WellInv'
  BY StepTyped DEF LandInv
<1>2. CASE UNCHANGED vars
  <2>1. mv' = mv /\ tx' = tx
    BY <1>2 DEF vars
  <2> QED
    BY <1>1, <2>1, TurnsKeep DEF Turns, Shifts
<1>3. ASSUME NEW m \in DOMAIN mv, RepairStuck(m) PROVE LandInv' /\ Onward
  BY <1>1, <1>3, RepairOnward
<1>4. ASSUME NEW p \in Procs, Resolve(p) PROVE LandInv' /\ Onward
  BY <1>1, <1>4, ClaimOnward, FoundOnward, UseArkOnward DEF Resolve
<1>5. ASSUME NEW p \in Procs,
             \/ Validate(p) \/ Launch(p) \/ Recall(p)
             \/ AttackBreaks(p) \/ Raise(p) \/ MarkFailed(p) \/ Crash(p)
      PROVE  LandInv' /\ Onward
  BY <1>1, <1>5, ReadOnward, SendOnward, ClaimOnward, RaiseOnward, MarkFailedOnward
<1>6. ASSUME NEW p \in Procs, NEW m \in DOMAIN mv, TakeUp(p, m) \/ AskRecall(p, m)
      PROVE  LandInv' /\ Onward
  BY <1>1, <1>6, ReadOnward
<1> QED
  BY <1>2, <1>3, <1>4, <1>5, <1>6 DEF Next

-----------------------------------------------------------------------------
(* The theorems. *)

AllInv ==
    FleetInv /\ Conserved /\ SlotsRespected /\ TerritoryAddsUp

(* The invariant holds in every reachable state. *)
LEMMA SpecSafe ==
    ASSUME ~Postgres
    PROVE  Spec => []AllInv
<1>1. Init => AllInv
  BY InitSafe, InitConserved, InitSlots, InitTerritory DEF AllInv
<1>2. AllInv /\ [Next]_vars => AllInv'
  <2> SUFFICES ASSUME AllInv, [Next]_vars PROVE AllInv'
    OBVIOUS
  <2>1. FleetInv /\ TypeOK /\ AllSeaworthy /\ Undone
    BY DEF AllInv, FleetInv
  <2>2. FleetInv' /\ (Changes \/ Departs \/ Still)
    BY <2>1, StepSafe
  <2>3. Conserved' /\ SlotsRespected' /\ TerritoryAddsUp'
    BY <2>1, <2>2, StepConserved, StepSlots, StepTerritory DEF AllInv
  <2> QED
    BY <2>2, <2>3 DEF AllInv
<1> QED
  BY <1>1, <1>2, PTL DEF Spec

(* On both databases every variable keeps its type: in particular no planet  *)
(* ever holds a negative number of ships or of resources, however stale the  *)
(* rows are that the handlers have read.                                     *)
THEOREM TypeCorrect == Spec => []TypeOK
<1>1. WellInv => TypeOK
  BY DEF WellInv
<1> QED
  BY <1>1, InitTyped, StepTyped, PTL DEF Spec

(* On both databases a fleet only moves on: one that has ended is never      *)
(* touched again, and none goes back to a phase it has left, whatever stale  *)
(* handlers, failure reports, repairs and used arks come late.               *)
THEOREM NeverBack == Spec => OnlyOnward
<1>1. Init => LandInv
  <2> SUFFICES ASSUME Init PROVE LandInv
    OBVIOUS
  <2>1. \A p \in Procs : tx[p].pc = "idle"
    BY NoTxType DEF Init
  <2> QED
    BY <2>1, InitTyped DEF LandInv, Ashore, Homeward
<1>2. LandInv /\ [Next]_vars => LandInv' /\ [Onward]_mv
  BY StepOnward
<1>3. Spec => [][Onward]_mv
  BY <1>1, <1>2, PTL DEF Spec
<1> QED
  BY <1>3 DEF OnlyOnward, Onward

(* FLEET_SYSTEM.md:394: no ship is lost or doubled between hangars and       *)
(* fleets, in any interleaving of sends, passes, recalls, exceptions and     *)
(* repairs of any number of processes.                                       *)
THEOREM SqliteShipsConserved ==
    ASSUME ~Postgres
    PROVE  Spec => []ShipsConserved
<1>1. AllInv => ShipsConserved
  BY DEF AllInv, Conserved
<1> QED
  BY <1>1, SpecSafe, PTL

(* Nor is cargo, loot or what was collected or found.                        *)
THEOREM SqliteCargoConserved ==
    ASSUME ~Postgres
    PROVE  Spec => []CargoConserved
<1>1. AllInv => CargoConserved
  BY DEF AllInv, Conserved
<1> QED
  BY <1>1, SpecSafe, PTL

(* A mission takes effect at most once, however often it is taken up, and    *)
(* not at all once its fleet was called back.                                *)
THEOREM SqliteEffectOnce ==
    ASSUME ~Postgres
    PROVE  Spec => []EffectOnce
<1>1. AllInv => EffectOnce
  <2> SUFFICES ASSUME AllInv, NEW m \in Ids
               PROVE  acted[m] <= (IF m \in recalled THEN 0 ELSE 1)
    BY DEF EffectOnce
  <2>1. acted[m] <= 1 /\ (m \in recalled => acted[m] = 0)
    BY DEF AllInv, FleetInv, Undone
  <2> QED
    BY <2>1
<1> QED
  BY <1>1, SpecSafe, PTL

(* The slots of a player are counted when a send begins and taken when it    *)
(* commits: there are never more fleets under way than slots.                *)
THEOREM SqliteSlotsRespected ==
    ASSUME ~Postgres
    PROVE  Spec => []SlotsRespected
<1>1. AllInv => SlotsRespected
  BY DEF AllInv
<1> QED
  BY <1>1, SpecSafe, PTL

(* However many arks race for a position or for a player's last colony:      *)
(* every planet is a home or the work of exactly one ark, and no player owns *)
(* more than the limit.                                                      *)
THEOREM SqliteTerritoryAddsUp ==
    ASSUME ~Postgres
    PROVE  Spec => []TerritoryAddsUp
<1>1. AllInv => TerritoryAddsUp
  BY DEF AllInv
<1> QED
  BY <1>1, SpecSafe, PTL
=============================================================================
