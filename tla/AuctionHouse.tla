----------------------------- MODULE AuctionHouse -----------------------------
(***************************************************************************)
(* The auction house (game/auction_house.py) behind its bid route          *)
(* (api_auction_house_bid in app.py) and its pages, each of which completes *)
(* ended listings and starts new ones before it shows any.                 *)
(*                                                                         *)
(* A bid is paid when it is placed: from the planet the bidder looks at,   *)
(* the difference only when he raises his own bid; whoever is outbid gets  *)
(* his stake back on the planet of his last bid.  A client that hears      *)
(* nothing sends the same request again: each Copy of a request is handled *)
(* on its own, the answer is remembered after the bid in a transaction of  *)
(* its own.                                                                *)
(*                                                                         *)
(* Every call of the module is one transaction: reads first, then writes   *)
(* and commit.  SQLite: BEGIN IMMEDIATE admits one transaction at a time.  *)
(* PostgreSQL: a bid locks the row of the bidder's planet and no listing,  *)
(* the other transactions lock nothing before they write.                  *)
(* One resource stands for the three currencies.                           *)
(***************************************************************************)
EXTENDS Integers, Sequences, FiniteSets, FiniteSetsExt

CONSTANTS
    Players, Planets,
    OwnerOf,        \* the player of each planet
    NoOne,          \* no bidder
    Funds,          \* what each planet has at the start
    Pages,          \* page loads and polls, each repeated
    Requests,       \* request ids of bids
    Copies,         \* how often each request is sent
    SenderOf,       \* who sends it
    ListingOf,      \* for which listing
    Offers,         \* the offers the requests may make together
    ActiveTarget, MaxBids, StartPrice, Durations,
    Postgres,       \* TRUE on PostgreSQL, FALSE on SQLite
    Horizon,        \* bound: the clock stops here
    MaxListings     \* bound: no more listings than this

Handlers == UNION {{r} \X (1..Copies[r]) : r \in Requests}

Actors == Pages \cup Handlers

ASSUME AuctionAssumption ==
    /\ OwnerOf \in [Planets -> Players] /\ IsFiniteSet(Planets)
    /\ NoOne \notin Players \cup Planets
    /\ Copies \in [Requests -> Nat]
    /\ SenderOf \in [Requests -> Players]
    /\ ListingOf \in [Requests -> Nat \ {0}]
    /\ Offers \subseteq [Requests -> Nat \ {0}]
    /\ Funds \in [Planets -> Nat]
    /\ {ActiveTarget, MaxBids, StartPrice, Horizon, MaxListings} \subseteq Nat
    /\ Durations \subseteq Nat \ {0}
    /\ Postgres \in BOOLEAN

VARIABLES
    clock,          \* time.time()
    money,          \* committed balance of each planet
    listing,        \* committed rows of auction_house_listings
    bids,           \* of each listing, its rows of auction_house_bids
    boxes,          \* of each listing, the boxes granted for it, by player
    offer,          \* the amount each request offers
    answered,       \* requests whose answer is remembered
    actor           \* of each page and handler: where it is

vars == <<clock, money, listing, bids, boxes, offer, answered, actor>>

Rows == <<money, listing, bids, boxes, answered>>

Rest(pc) ==
    [pc |-> pc,
     now |-> 0,             \* the time it has read
     planet |-> NoOne,      \* where it bids from, locked on PostgreSQL
     due |-> {},            \* the ended listings it read, with their leaders
     seen |-> <<>>,         \* the listing it read for its bid
     live |-> 0]            \* the live listings it counted

Init ==
    /\ clock = 0
    /\ money = Funds
    /\ listing = <<>>
    /\ bids = <<>>
    /\ boxes = <<>>
    /\ offer \in Offers
    /\ answered = {}
    /\ actor = [a \in Actors |-> Rest("idle")]

Tick ==
    /\ clock < Horizon
    /\ clock' = clock + 1
    /\ UNCHANGED <<Rows, offer, actor>>

-----------------------------------------------------------------------------
InTransaction(a) == actor[a].pc \in {"complete", "write", "insert"}

\* Mutant of CanBegin: no transaction waits for another.
CanBeginAnyTime(a) == TRUE

\* begin_write_transaction.
CanBegin(a) == Postgres \/ \A b \in Actors : ~InTransaction(b)

PlanetFree(a, p) == \A b \in Actors \ {a} : actor[b].pc = "write" => actor[b].planet # p

Goes(a, fields) == actor' = [actor EXCEPT ![a] = [f \in DOMAIN @ |->
                       IF f \in DOMAIN fields THEN fields[f] ELSE @[f]]]

-----------------------------------------------------------------------------
(* finish_due_auctions *)

\* Mutant of DueListings: completed listings are found again.
DueWhateverStatus(now) == {l \in DOMAIN listing : listing[l].ends <= now}

DueListings(now) ==
    {l \in DOMAIN listing : listing[l].status = "active" /\ listing[l].ends <= now}

ReadDue(a) ==
    /\ actor[a].pc = "finish"
    /\ CanBegin(a)
    /\ Goes(a, [pc |-> "complete",
                due |-> {[id |-> l, bidder |-> listing[l].bidder, bid |-> listing[l].bid] :
                           l \in DueListings(actor[a].now)}])
    /\ UNCHANGED <<clock, offer, Rows>>

\* The boxes are granted to the leaders that were read, whether or not the
\* update that follows still finds the listing active.
GrantAndComplete(a) ==
    LET due == actor[a].due
        Won(l, player) == \E d \in due : d.id = l /\ d.bidder = player /\ d.bid > 0 IN
    /\ actor[a].pc = "complete"
    /\ boxes' = [l \in DOMAIN boxes |-> [player \in Players |->
                   boxes[l][player] + (IF Won(l, player) THEN 1 ELSE 0)]]
    /\ listing' = [l \in DOMAIN listing |->
                     IF \E d \in due : d.id = l
                     THEN [listing[l] EXCEPT !.status = "completed"] ELSE listing[l]]
    /\ Goes(a, [pc |-> IF a \in Pages THEN "rotate" ELSE "bid",
                due |-> {}, now |-> clock])
    /\ UNCHANGED <<clock, money, bids, offer, answered>>

-----------------------------------------------------------------------------
(* generate_auction_rotation *)

LiveListings(now) ==
    {l \in DOMAIN listing : listing[l].status = "active" /\ listing[l].ends > now}

CountLive(a) ==
    /\ actor[a].pc = "rotate"
    /\ CanBegin(a)
    /\ Goes(a, [pc |-> "insert", live |-> Cardinality(LiveListings(actor[a].now))])
    /\ UNCHANGED <<clock, offer, Rows>>

Missing(live) == IF live < ActiveTarget THEN ActiveTarget - live ELSE 0

NewListing(now, duration) ==
    [status |-> "active", ends |-> now + duration, bid |-> 0,
     bidder |-> NoOne, planet |-> NoOne]

InsertListings(a) ==
    LET need == Missing(actor[a].live) IN
    /\ actor[a].pc = "insert"
    /\ Len(listing) + need <= MaxListings
    /\ \E durations \in [1..need -> Durations] :
         listing' = listing \o [i \in 1..need |-> NewListing(actor[a].now, durations[i])]
    /\ bids' = bids \o [i \in 1..need |-> {}]
    /\ boxes' = boxes \o [i \in 1..need |-> [player \in Players |-> 0]]
    /\ Goes(a, Rest("idle"))
    /\ UNCHANGED <<clock, money, offer, answered>>

-----------------------------------------------------------------------------
(* place_bid *)

\* Mutant of MinNextBid: the bid that stands is not considered.
MinNextBidStart(row) == Max({1, StartPrice})

\* _min_next_bid: five per cent more, rounded up.
MinNextBid(row) ==
    IF row.bid <= 0 THEN Max({1, StartPrice})
    ELSE Max({StartPrice, (row.bid * 10500 + 9999) \div 10000})

Raises(player, row) == row.bidder = player /\ row.bid > 0

\* Mutant of Charge: who raises pays the whole bid again.
ChargeWhole(player, row, amount) == amount

Charge(player, row, amount) ==
    IF Raises(player, row) THEN amount - row.bid ELSE amount

\* Mutant of CanPay: the whole bid is not compared with the balance.
CanPayStart(p, charge) == money[p] >= StartPrice

CanPay(p, charge) == money[p] >= charge

BidsOf(player, l) == {b \in bids[l] : b.player = player}

\* The checks of place_bid in the order of the code; any that fails rolls
\* back, and its answer is not remembered.
Acceptable(a, p) ==
    LET r == a[1]
        l == ListingOf[r]
        player == SenderOf[r]
        row == listing[l] IN
    /\ l \in DOMAIN listing
    /\ row.status = "active" /\ row.ends > actor[a].now
    /\ offer[r] >= MinNextBid(row)
    /\ Raises(player, row) => offer[r] > row.bid
    /\ Cardinality(BidsOf(player, l)) < MaxBids
    /\ CanPay(p, Charge(player, row, offer[r]))

\* The planet is the one the player looks at when the request is handled.
ReadListing(a) ==
    /\ actor[a].pc = "bid"
    /\ CanBegin(a)
    /\ \E p \in {q \in Planets : OwnerOf[q] = SenderOf[a[1]]} :
         /\ PlanetFree(a, p)
         /\ Acceptable(a, p)
         /\ Goes(a, [pc |-> "write", planet |-> p, seen |-> <<listing[ListingOf[a[1]]]>>])
    /\ UNCHANGED <<clock, offer, Rows>>

RejectBid(a) ==
    /\ actor[a].pc = "bid"
    /\ CanBegin(a)
    /\ \E p \in {q \in Planets : OwnerOf[q] = SenderOf[a[1]]} :
         PlanetFree(a, p) /\ ~Acceptable(a, p)
    /\ Goes(a, Rest("done"))
    /\ UNCHANGED <<clock, offer, Rows>>

\* The newest row of the outbid player is marked: among rows of one second
\* the database chooses.
Newest(rows) == {b \in rows : \A c \in rows : c.at <= b.at}

MarkedOutbid(rows) ==
    IF rows = {} THEN {{}}
    ELSE {(rows \ {b}) \cup {[b EXCEPT !.refunded = TRUE]} : b \in Newest(rows)}

\* Debit, refund of the outbid, listing and bid row. The listing is updated
\* by its id alone, with what was computed from the row that was read.
WriteBid(a) ==
    LET r == a[1]
        l == ListingOf[r]
        player == SenderOf[r]
        row == actor[a].seen[1]
        p == actor[a].planet
        outbid == row.bidder # NoOne /\ row.bid > 0 /\ ~Raises(player, row)
        charge == Charge(player, row, offer[r])
        open == {b \in bids[l] : outbid /\ b.player = row.bidder /\ ~b.refunded} IN
    /\ actor[a].pc = "write"
    /\ outbid => PlanetFree(a, row.planet)
    /\ money' = [q \in Planets |->
                   money[q] - (IF q = p THEN charge ELSE 0)
                            + (IF outbid /\ q = row.planet THEN row.bid ELSE 0)]
    /\ listing' = [listing EXCEPT ![l] =
                     [status |-> @.status, ends |-> @.ends,
                      bid |-> offer[r], bidder |-> player, planet |-> p]]
    /\ \E marked \in MarkedOutbid(open) :
         bids' = [bids EXCEPT ![l] = (@ \ open) \cup marked \cup
                    {[player |-> player, planet |-> p, amount |-> offer[r],
                      at |-> actor[a].now, copy |-> a, refunded |-> FALSE]}]
    /\ Goes(a, Rest("answer"))
    /\ UNCHANGED <<clock, boxes, offer, answered>>

-----------------------------------------------------------------------------
(* The route and the pages. *)

\* get_idempotent_action: a remembered answer is sent again, and that is all;
\* one that is two minutes old is deleted. Copies are numbered as they arrive.
Receive(h) ==
    /\ h \in Handlers
    /\ actor[h].pc = "idle"
    /\ h[2] > 1 => actor[<<h[1], h[2] - 1>>].pc # "idle"
    /\ \/ /\ h[1] \in answered
          /\ Goes(h, [pc |-> "done"])
          /\ UNCHANGED answered
       \/ /\ Goes(h, [pc |-> "finish", now |-> clock])
          /\ answered' = answered \ {h[1]}
    /\ UNCHANGED <<clock, offer, money, listing, bids, boxes>>

OpenPage(a) ==
    /\ a \in Pages
    /\ actor[a].pc = "idle"
    /\ Goes(a, [pc |-> "finish", now |-> clock])
    /\ UNCHANGED <<clock, offer, Rows>>

\* save_idempotent_action, of a placed bid only. The panel in the answer is
\* built as a page is, in transactions of its own whose failure is swallowed.
Answer(h) ==
    /\ actor[h].pc = "answer"
    /\ answered' = answered \cup {h[1]}
    /\ actor' = [actor EXCEPT ![h] = Rest("done")]
    /\ UNCHANGED <<clock, money, listing, bids, boxes, offer>>

\* A lock timeout, an exception, a stake that cannot be returned because its
\* planet is gone (refund_failed) or a dead process: the open transaction is
\* rolled back, the answer not remembered. Who fails between transactions is
\* as one who does not come.
Fail(a) ==
    /\ InTransaction(a) \/ actor[a].pc = "answer"
    /\ Goes(a, Rest(IF a \in Pages THEN "idle" ELSE "done"))
    /\ UNCHANGED <<clock, offer, Rows>>

Step(a) ==
    \/ ReadDue(a) \/ GrantAndComplete(a) \/ CountLive(a) \/ InsertListings(a)
    \/ ReadListing(a) \/ RejectBid(a) \/ WriteBid(a)
    \/ Receive(a) \/ OpenPage(a) \/ Answer(a)

Next == Tick \/ \E a \in Actors : Step(a) \/ Fail(a)

Spec == Init /\ [][Next]_vars

-----------------------------------------------------------------------------
RowType == [status : {"active", "completed"}, ends : Nat, bid : Nat,
            bidder : Players \cup {NoOne}, planet : Planets \cup {NoOne}]

(* Every variable has its type; no planet pays what it does not have.        *)
TypeOK ==
    /\ clock \in Nat
    /\ money \in [Planets -> Nat]
    /\ listing \in Seq(RowType)
    /\ bids \in Seq(SUBSET [player : Players, planet : Planets, amount : Nat,
                            at : Nat, copy : Handlers, refunded : BOOLEAN])
    /\ boxes \in Seq([Players -> Nat])
    /\ Len(bids) = Len(listing) /\ Len(boxes) = Len(listing)
    /\ offer \in Offers
    /\ answered \subseteq Requests
    /\ actor \in [Actors ->
         [pc : {"idle", "finish", "complete", "rotate", "insert", "bid", "write",
                "answer", "done"},
          now : Nat, planet : Planets \cup {NoOne},
          due : SUBSET [id : Nat, bidder : Players \cup {NoOne}, bid : Nat],
          seen : Seq(RowType), live : Nat]]

SumOver(set, value) == MapThenSumSet(LAMBDA x : value[x], set)

(* ECONOMY_SYSTEM.md, rules of the auction house: whoever is outbid gets his *)
(* stake back at once. A player has on his planets what he started with,     *)
(* less the standing bids of the listings he leads or has won.               *)
StakesConserved ==
    \A player \in Players :
        LET own == {p \in Planets : OwnerOf[p] = player}
            led == {l \in DOMAIN listing : listing[l].bidder = player} IN
        SumOver(own, money) + SumOver(led, [l \in led |-> listing[l].bid])
            = SumOver(own, Funds)

(* test_auction_finish_grants_lootbox: a completed listing has given one box *)
(* to the player who leads it and none to another; a listing without bids or *)
(* not yet completed has given none, however many pages complete it.         *)
BoxForLeader ==
    \A l \in DOMAIN listing : \A player \in Players :
        boxes[l][player] =
            IF listing[l].status = "completed" /\ listing[l].bidder = player THEN 1 ELSE 0

(* AUCTION_HOUSE.md: the highest valid bid wins. The leader is who placed    *)
(* the highest bid that was taken, and that bid is not marked as refunded.   *)
HighestBidLeads ==
    \A l \in DOMAIN listing : bids[l] # {} =>
        \E b \in bids[l] :
            /\ b.player = listing[l].bidder /\ b.amount = listing[l].bid /\ ~b.refunded
            /\ \A c \in bids[l] \ {b} : c.amount < b.amount

(* test_idempotent_bid_api: a request sent again bids once. The remembered   *)
(* answer does not ensure it (it is saved after the bid and expires): a bid  *)
(* that was taken can never be taken again.                                  *)
RequestBidsOnce ==
    \A l \in DOMAIN bids : \A b, c \in bids[l] : b.copy[1] = c.copy[1] => b = c

(* ECONOMY_SYSTEM.md: no more live listings than the target, although every  *)
(* page completes and refills for itself, two may refill at once, and each   *)
(* counts with the time at which it began to wait.                           *)
TargetKept == Cardinality(LiveListings(clock)) <= ActiveTarget
=============================================================================
