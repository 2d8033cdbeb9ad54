-------------------------- MODULE AuctionHouseProofs --------------------------
(***************************************************************************)
(* Proofs about the auction house, for any number of players, planets,     *)
(* requests and pages: on both databases no planet pays what it does not   *)
(* have; on SQLite the box goes to the leader, the highest bid leads, a    *)
(* request bids once and the target of live listings is kept.              *)
(***************************************************************************)
EXTENDS AuctionHouse, SetSums

-----------------------------------------------------------------------------
(* The inductive invariant. *)

(* Only handlers bid, and a bid that was read can be paid until it is        *)
(* written: its planet is locked.                                            *)
BidderOf(a) ==
    /\ actor[a].pc \in {"bid", "write", "answer"} => a \in Handlers
    /\ actor[a].pc = "write" =>
         /\ actor[a].planet \in Planets
         /\ ListingOf[a[1]] \in DOMAIN listing
         /\ Len(actor[a].seen) = 1
         /\ Charge(SenderOf[a[1]], actor[a].seen[1], offer[a[1]]) \in
              0..money[actor[a].planet]

Bidders == \A a \in Actors : BidderOf(a)

OnePlanetEach ==
    \A a, b \in Actors :
        actor[a].pc = "write" /\ actor[b].pc = "write" /\ actor[a].planet = actor[b].planet
          => a = b

TypeInv == TypeOK /\ Bidders /\ OnePlanetEach

(* The database lets one transaction in at a time.                           *)
OneWriter ==
    \A a, b \in Actors : InTransaction(a) /\ InTransaction(b) => a = b

(* What is completed, as ReadDue reads it.                                   *)
DueRows(now) ==
    {[id |-> l, bidder |-> listing[l].bidder, bid |-> listing[l].bid] : l \in DueListings(now)}

(* What a transaction has read still holds when it writes.                   *)
Fresh(a) ==
    /\ actor[a].now <= clock
    /\ actor[a].pc = "complete" => actor[a].due = DueRows(actor[a].now)
    /\ actor[a].pc = "insert" => actor[a].live = Cardinality(LiveListings(actor[a].now))
    /\ actor[a].pc = "write" =>
         LET row == listing[ListingOf[a[1]]] IN
         /\ actor[a].seen = <<row>>
         /\ row.status = "active"
         /\ offer[a[1]] > row.bid

AllFresh == \A a \in Actors : Fresh(a)

(* A listing with a leader has his bid, which tops all others; each bid is   *)
(* what its request offered.                                                 *)
LedBy(l) ==
    /\ listing[l].bidder \in Players => listing[l].bid > 0
    /\ \A b \in bids[l] :
         /\ b.amount = offer[b.copy[1]]
         /\ b.amount <= listing[l].bid
    /\ bids[l] # {} =>
         \E b \in bids[l] :
           /\ b.player = listing[l].bidder /\ b.amount = listing[l].bid /\ ~b.refunded
           /\ \A c \in bids[l] \ {b} : c.amount < b.amount

AllLed == \A l \in DOMAIN listing : LedBy(l)

HouseInv ==
    /\ OneWriter /\ AllFresh /\ AllLed
    /\ BoxForLeader /\ RequestBidsOnce /\ TargetKept

-----------------------------------------------------------------------------
(* What the steps leave of the actor that makes them. *)

Phases == {"idle", "finish", "complete", "rotate", "insert", "bid", "write", "answer", "done"}

DueType == [id : Nat, bidder : Players \cup {NoOne}, bid : Nat]

ActorState ==
    [pc : Phases, now : Nat, planet : Planets \cup {NoOne},
     due : SUBSET DueType, seen : Seq(RowType), live : Nat]

BidType == [player : Players, planet : Planets, amount : Nat,
            at : Nat, copy : Handlers, refunded : BOOLEAN]

Fields == {"pc", "now", "planet", "due", "seen", "live"}

(* The parts of TypeOK, in the words of the lemmas. *)
LEMMA TypeFacts ==
    ASSUME TypeOK
    PROVE  /\ clock \in Nat /\ money \in [Planets -> Nat]
           /\ listing \in Seq(RowType) /\ bids \in Seq(SUBSET BidType)
           /\ boxes \in Seq([Players -> Nat])
           /\ Len(listing) \in Nat /\ DOMAIN listing = 1..Len(listing)
           /\ DOMAIN bids = 1..Len(listing) /\ DOMAIN boxes = 1..Len(listing)
           /\ Len(bids) = Len(listing) /\ Len(boxes) = Len(listing)
           /\ offer \in [Requests -> Nat \ {0}] /\ answered \subseteq Requests
           /\ actor \in [Actors -> ActorState]
  BY AuctionAssumption DEF TypeOK, BidType, ActorState, Phases, DueType

(* Who handles a request, and for whom. *)
LEMMA HandlerType ==
    ASSUME NEW a \in Handlers
    PROVE  /\ a[1] \in Requests /\ a \in Actors
           /\ SenderOf[a[1]] \in Players /\ ListingOf[a[1]] \in Nat \ {0}
<1>1. PICK r \in Requests : a \in {r} \X (1..Copies[r])
  BY DEF Handlers
<1>2. a[1] = r
  BY <1>1
<1> QED
  BY <1>2, AuctionAssumption DEF Actors

(* Goes changes the fields it names of the actor it names, and no other. *)
LEMMA GoesFields ==
    ASSUME TypeOK, NEW a \in Actors, NEW fields, Goes(a, fields)
    PROVE  actor' = [actor EXCEPT ![a] = [f \in Fields |->
                        IF f \in DOMAIN fields THEN fields[f] ELSE actor[a][f]]]
<1>1. DOMAIN actor[a] = Fields
  BY DEF TypeOK, Fields
<1> QED
  BY <1>1 DEF Goes

(* An actor that replaces its state. *)
LEMMA Becomes ==
    ASSUME TypeOK, NEW a \in Actors, NEW s \in ActorState, actor' = [actor EXCEPT ![a] = s]
    PROVE  /\ actor' \in [Actors -> ActorState] /\ actor'[a] = s
           /\ \A b \in Actors : b # a => actor'[b] = actor[b]
  BY TypeFacts

(* The states the steps leave. *)
HasFound(r, due) ==
    [pc |-> "complete", now |-> r.now, planet |-> r.planet,
     due |-> due, seen |-> r.seen, live |-> r.live]

HasCompleted(r, pc, now) ==
    [pc |-> pc, now |-> now, planet |-> r.planet,
     due |-> {}, seen |-> r.seen, live |-> r.live]

HasCounted(r, live) ==
    [pc |-> "insert", now |-> r.now, planet |-> r.planet,
     due |-> r.due, seen |-> r.seen, live |-> live]

HasRead(r, p, row) ==
    [pc |-> "write", now |-> r.now, planet |-> p,
     due |-> r.due, seen |-> <<row>>, live |-> r.live]

Comes(r, pc, now) ==
    [pc |-> pc, now |-> now, planet |-> r.planet,
     due |-> r.due, seen |-> r.seen, live |-> r.live]

(* Finding what is due. *)
LEMMA FoundEffect ==
    ASSUME TypeOK, NEW a \in Actors, NEW due \in SUBSET DueType,
           Goes(a, [pc |-> "complete", due |-> due])
    PROVE  /\ actor' = [actor EXCEPT ![a] = HasFound(actor[a], due)]
           /\ HasFound(actor[a], due) \in ActorState
<1> DEFINE fields == [pc |-> "complete", due |-> due]
<1>1. actor[a] \in ActorState
  BY TypeFacts
<1>2. HasFound(actor[a], due) \in ActorState
  BY <1>1 DEF HasFound, ActorState, Phases
<1>3. [f \in Fields |-> IF f \in DOMAIN fields THEN fields[f] ELSE actor[a][f]]
        = HasFound(actor[a], due)
  BY <1>1 DEF HasFound, Fields
<1> QED
  BY <1>2, <1>3, GoesFields

(* Completing what was due. *)
LEMMA CompletedEffect ==
    ASSUME TypeOK, NEW a \in Actors, NEW pc \in Phases, NEW now \in Nat,
           Goes(a, [pc |-> pc, due |-> {}, now |-> now])
    PROVE  /\ actor' = [actor EXCEPT ![a] = HasCompleted(actor[a], pc, now)]
           /\ HasCompleted(actor[a], pc, now) \in ActorState
<1> DEFINE fields == [pc |-> pc, due |-> {}, now |-> now]
<1>1. actor[a] \in ActorState
  BY TypeFacts
<1>2. HasCompleted(actor[a], pc, now) \in ActorState
  BY <1>1 DEF HasCompleted, ActorState, Phases
<1>3. [f \in Fields |-> IF f \in DOMAIN fields THEN fields[f] ELSE actor[a][f]]
        = HasCompleted(actor[a], pc, now)
  BY <1>1 DEF HasCompleted, Fields
<1> QED
  BY <1>2, <1>3, GoesFields

(* Counting what is live. *)
LEMMA CountedEffect ==
    ASSUME TypeOK, NEW a \in Actors, NEW live \in Nat,
           Goes(a, [pc |-> "insert", live |-> live])
    PROVE  /\ actor' = [actor EXCEPT ![a] = HasCounted(actor[a], live)]
           /\ HasCounted(actor[a], live) \in ActorState
<1> DEFINE fields == [pc |-> "insert", live |-> live]
<1>1. actor[a] \in ActorState
  BY TypeFacts
<1>2. HasCounted(actor[a], live) \in ActorState
  BY <1>1 DEF HasCounted, ActorState, Phases
<1>3. [f \in Fields |-> IF f \in DOMAIN fields THEN fields[f] ELSE actor[a][f]]
        = HasCounted(actor[a], live)
  BY <1>1 DEF HasCounted, Fields
<1> QED
  BY <1>2, <1>3, GoesFields

(* Reading the listing for a bid. *)
LEMMA ReadEffect ==
    ASSUME TypeOK, NEW a \in Actors, NEW p \in Planets, NEW row \in RowType,
           Goes(a, [pc |-> "write", planet |-> p, seen |-> <<row>>])
    PROVE  /\ actor' = [actor EXCEPT ![a] = HasRead(actor[a], p, row)]
           /\ HasRead(actor[a], p, row) \in ActorState
<1> DEFINE seen == <<row>>
           fields == [pc |-> "write", planet |-> p, seen |-> seen]
<1>1. actor[a] \in ActorState /\ seen \in Seq(RowType)
  BY TypeFacts
<1>2. HasRead(actor[a], p, row) \in ActorState
  BY <1>1 DEF HasRead, ActorState, Phases
<1>3. Goes(a, fields) /\ HasRead(actor[a], p, row) =
        [pc |-> "write", now |-> actor[a].now, planet |-> p,
         due |-> actor[a].due, seen |-> seen, live |-> actor[a].live]
  BY DEF HasRead
<1> HIDE DEF seen
<1>4. [f \in Fields |-> IF f \in DOMAIN fields THEN fields[f] ELSE actor[a][f]]
        = HasRead(actor[a], p, row)
  BY <1>1, <1>3 DEF Fields
<1> QED
  BY <1>2, <1>3, <1>4, GoesFields

(* Coming, and being turned away. *)
LEMMA ComesEffect ==
    ASSUME TypeOK, NEW a \in Actors, NEW pc \in Phases, NEW now \in Nat,
           \/ Goes(a, [pc |-> pc, now |-> now])
           \/ Goes(a, [pc |-> pc]) /\ now = actor[a].now
    PROVE  /\ actor' = [actor EXCEPT ![a] = Comes(actor[a], pc, now)]
           /\ Comes(actor[a], pc, now) \in ActorState
<1> DEFINE two == [pc |-> pc, now |-> now]
           one == [pc |-> pc]
<1>1. actor[a] \in ActorState
  BY TypeFacts
<1>2. Comes(actor[a], pc, now) \in ActorState
  BY <1>1 DEF Comes, ActorState, Phases
<1>3. [f \in Fields |-> IF f \in DOMAIN two THEN two[f] ELSE actor[a][f]]
        = Comes(actor[a], pc, now)
  BY <1>1 DEF Comes, Fields
<1>4. now = actor[a].now =>
        [f \in Fields |-> IF f \in DOMAIN one THEN one[f] ELSE actor[a][f]]
          = Comes(actor[a], pc, now)
  BY <1>1 DEF Comes, Fields
<1> QED
  BY <1>2, <1>3, <1>4, GoesFields

(* Coming to rest. *)
LEMMA RestEffect ==
    ASSUME TypeOK, NEW a \in Actors, NEW pc \in Phases,
           Goes(a, Rest(pc)) \/ actor' = [actor EXCEPT ![a] = Rest(pc)]
    PROVE  /\ actor' = [actor EXCEPT ![a] = Rest(pc)]
           /\ Rest(pc) \in ActorState
<1>1. Rest(pc) \in ActorState
  BY DEF Rest, ActorState, Phases
<1>2. [f \in Fields |-> IF f \in DOMAIN Rest(pc) THEN Rest(pc)[f] ELSE actor[a][f]]
        = [f \in Fields |-> Rest(pc)[f]]
  BY DEF Rest, Fields
<1>3. [f \in Fields |-> Rest(pc)[f]] = Rest(pc)
  BY DEF Rest, Fields
<1> QED
  BY <1>1, <1>2, <1>3, GoesFields

(* A row that is completed. *)
LEMMA RowCompleted ==
    ASSUME NEW old \in RowType
    PROVE  LET row == [old EXCEPT !.status = "completed"] IN
           /\ row \in RowType /\ row.status = "completed" /\ row.ends = old.ends
           /\ row.bid = old.bid /\ row.bidder = old.bidder /\ row.planet = old.planet
  BY DEF RowType

-----------------------------------------------------------------------------
(* Type correctness, on both databases. The balance of a planet stays        *)
(* natural because who has read it for a bid holds the planet until he pays. *)

RowsGrow ==
    /\ listing' \in Seq(RowType) /\ Len(listing) <= Len(listing')
    /\ bids' \in Seq(SUBSET BidType) /\ Len(bids') = Len(listing')
    /\ boxes' \in Seq([Players -> Nat]) /\ Len(boxes') = Len(listing')

(* The type invariant from its parts, when one actor moves. *)
LEMMA StepKeepsType ==
    ASSUME TypeInv, NEW a \in Actors, NEW s \in ActorState, actor' = [actor EXCEPT ![a] = s],
           clock' \in Nat, money' \in [Planets -> Nat], RowsGrow, offer' = offer,
           answered' \subseteq Requests, BidderOf(a)',
           s.pc = "write" => PlanetFree(a, s.planet),
           \A b \in Actors \ {a} :
             actor[b].pc = "write" => money[actor[b].planet] <= money'[actor[b].planet]
    PROVE  TypeInv'
<1>1. TypeOK /\ Bidders /\ OnePlanetEach
  BY DEF TypeInv
<1>2. /\ actor' \in [Actors -> ActorState] /\ actor'[a] = s
      /\ \A b \in Actors : b # a => actor'[b] = actor[b]
  BY <1>1, Becomes
<1>3. ASSUME NEW b \in Actors, b # a PROVE BidderOf(b)'
  <2>1. actor'[b] = actor[b] /\ BidderOf(b)
    BY <1>1, <1>2, <1>3 DEF Bidders
  <2>2. CASE actor[b].pc = "write"
    <3> DEFINE charge == Charge(SenderOf[b[1]], actor[b].seen[1], offer[b[1]])
    <3>1. /\ charge \in 0..money[actor[b].planet] /\ actor[b].planet \in Planets
          /\ ListingOf[b[1]] \in DOMAIN listing /\ Len(actor[b].seen) = 1
      BY <2>1, <2>2 DEF BidderOf
    <3>2. money[actor[b].planet] \in Nat /\ money'[actor[b].planet] \in Nat
      BY <1>1, <3>1, TypeFacts
    <3>3. charge \in 0..money'[actor[b].planet]
      BY <1>3, <2>2, <3>1, <3>2
    <3>4. ListingOf[b[1]] \in DOMAIN listing'
      BY <1>1, <3>1, TypeFacts DEF RowsGrow
    <3>5. (Charge(SenderOf[b[1]], actor[b].seen[1], offer[b[1]]))' = charge
      BY <2>1 DEF Charge, Raises
    <3> QED
      BY <2>1, <2>2, <3>1, <3>3, <3>4, <3>5 DEF BidderOf
  <2>3. CASE actor[b].pc # "write"
    BY <2>1, <2>3 DEF BidderOf
  <2> QED
    BY <2>2, <2>3
<1>4. Bidders'
  BY <1>3 DEF Bidders
<1>5. OnePlanetEach'
  BY <1>1, <1>2 DEF OnePlanetEach, PlanetFree
<1>6. TypeOK'
  BY <1>1, <1>2 DEF TypeOK, RowsGrow, BidType, ActorState, Phases, DueType
<1> QED
  BY <1>4, <1>5, <1>6 DEF TypeInv

(* Rows that do not change have grown. *)
LEMMA SameRowsGrow ==
    ASSUME TypeInv, UNCHANGED <<listing, bids, boxes>>
    PROVE  RowsGrow
  BY TypeFacts DEF TypeInv, RowsGrow

(* What is due and what is live, as sets. *)
LEMMA DueAndLive ==
    ASSUME TypeOK, NEW now \in Nat
    PROVE  /\ DueRows(now) \in SUBSET DueType
           /\ DueListings(now) \subseteq DOMAIN listing
           /\ LiveListings(now) \subseteq 1..Len(listing)
           /\ IsFiniteSet(LiveListings(now)) /\ Cardinality(LiveListings(now)) \in Nat
<1>1. \A l \in DOMAIN listing : listing[l] \in RowType /\ l \in Nat
  BY TypeFacts
<1>2. DueRows(now) \in SUBSET DueType
  BY <1>1 DEF DueRows, DueListings, DueType, RowType
<1>3. LiveListings(now) \subseteq 1..Len(listing)
  BY TypeFacts DEF LiveListings
<1>4. IsFiniteSet(1..Len(listing))
  BY TypeFacts, FS_Interval
<1>5. IsFiniteSet(LiveListings(now))
  BY <1>3, <1>4, FS_Subset
<1> QED
  BY <1>2, <1>3, <1>5, FS_CardinalityType DEF DueListings

(* Steps that read. *)
LEMMA ReadsType ==
    ASSUME TypeInv, NEW a \in Actors,
           ReadDue(a) \/ CountLive(a) \/ RejectBid(a) \/ OpenPage(a) \/ Fail(a)
    PROVE  TypeInv'
<1> DEFINE Moved(s) == actor' = [actor EXCEPT ![a] = s] /\ s.pc # "write"
                       /\ (s.pc \in {"bid", "answer"} => a \in Handlers)
<1>1. TypeOK /\ BidderOf(a) /\ actor[a] \in ActorState /\ actor[a].now \in Nat /\ clock \in Nat
  <2>1. TypeOK /\ BidderOf(a)
    BY DEF TypeInv, Bidders
  <2>2. actor[a] \in ActorState /\ clock \in Nat
    BY <2>1, TypeFacts
  <2> QED
    BY <2>1, <2>2 DEF ActorState
<1>2. UNCHANGED <<clock, offer, Rows>>
  BY DEF ReadDue, CountLive, RejectBid, OpenPage, Fail
<1>3. \E s \in ActorState : Moved(s)
  <2>1. CASE ReadDue(a)
    <3>1. Goes(a, [pc |-> "complete", due |-> DueRows(actor[a].now)])
      BY <2>1 DEF ReadDue, DueRows
    <3>2. DueRows(actor[a].now) \in SUBSET DueType
      BY <1>1, DueAndLive
    <3>3. Moved(HasFound(actor[a], DueRows(actor[a].now)))
          /\ HasFound(actor[a], DueRows(actor[a].now)) \in ActorState
      BY <1>1, <3>1, <3>2, FoundEffect DEF HasFound
    <3> QED
      BY <3>3
  <2>2. CASE CountLive(a)
    <3> DEFINE live == Cardinality(LiveListings(actor[a].now))
    <3>1. Goes(a, [pc |-> "insert", live |-> live])
      BY <2>2 DEF CountLive
    <3>2. live \in Nat
      BY <1>1, DueAndLive
    <3> HIDE DEF live
    <3>3. Moved(HasCounted(actor[a], live)) /\ HasCounted(actor[a], live) \in ActorState
      BY <1>1, <3>1, <3>2, CountedEffect DEF HasCounted
    <3> QED
      BY <3>3
  <2>3. CASE RejectBid(a)
    <3>1. Goes(a, Rest("done")) /\ "done" \in Phases
      BY <2>3 DEF RejectBid, Phases
    <3>2. Moved(Rest("done")) /\ Rest("done") \in ActorState
      BY <1>1, <3>1, RestEffect DEF Rest
    <3> QED
      BY <3>2
  <2>4. CASE OpenPage(a)
    <3>1. Goes(a, [pc |-> "finish", now |-> clock]) /\ "finish" \in Phases
      BY <2>4 DEF OpenPage, Phases
    <3>2. Moved(Comes(actor[a], "finish", clock)) /\ Comes(actor[a], "finish", clock) \in ActorState
      BY <1>1, <3>1, ComesEffect DEF Comes
    <3> QED
      BY <3>2
  <2>5. CASE Fail(a)
    <3> DEFINE pc == IF a \in Pages THEN "idle" ELSE "done"
    <3>1. Goes(a, Rest(pc)) /\ pc \in Phases /\ pc \notin {"write", "bid", "answer"}
      BY <2>5 DEF Fail, Phases
    <3> HIDE DEF pc
    <3>2. Moved(Rest(pc)) /\ Rest(pc) \in ActorState
      BY <1>1, <3>1, RestEffect DEF Rest
    <3> QED
      BY <3>2
  <2> QED
    BY <2>1, <2>2, <2>3, <2>4, <2>5
<1>4. PICK s \in ActorState : Moved(s)
  BY <1>3
<1>5. actor'[a] = s
  BY <1>1, <1>4, Becomes
<1>6. BidderOf(a)'
  BY <1>4, <1>5 DEF BidderOf
<1>7. RowsGrow
  BY <1>2, SameRowsGrow DEF Rows
<1>8. \A b \in Actors \ {a} : actor[b].pc = "write" => money[actor[b].planet] <= money'[actor[b].planet]
  <2>1. ASSUME NEW b \in Actors, actor[b].pc = "write" PROVE money[actor[b].planet] \in Nat
    BY <1>1, <2>1, TypeFacts DEF TypeInv, Bidders, BidderOf
  <2> QED
    BY <1>2, <2>1 DEF Rows
<1>9. clock' \in Nat /\ money' \in [Planets -> Nat] /\ offer' = offer /\ answered' \subseteq Requests
  BY <1>1, <1>2, TypeFacts DEF Rows
<1> QED
  BY <1>4, <1>6, <1>7, <1>8, <1>9, StepKeepsType

(* A request comes or is answered. *)
LEMMA RequestType ==
    ASSUME TypeInv, NEW a \in Actors, Receive(a) \/ Answer(a)
    PROVE  TypeInv'
<1>1. TypeOK /\ BidderOf(a) /\ actor[a] \in ActorState /\ actor[a].now \in Nat /\ clock \in Nat
  <2>1. TypeOK /\ BidderOf(a)
    BY DEF TypeInv, Bidders
  <2>2. actor[a] \in ActorState /\ clock \in Nat
    BY <2>1, TypeFacts
  <2> QED
    BY <2>1, <2>2 DEF ActorState
<1>2. a \in Handlers /\ a[1] \in Requests
  BY <1>1, HandlerType DEF Receive, Answer, BidderOf
<1>3. /\ UNCHANGED <<clock, money, listing, bids, boxes, offer>>
      /\ answered' \subseteq Requests
  BY <1>1, <1>2, TypeFacts DEF Receive, Answer
<1>4. \E s \in ActorState : actor' = [actor EXCEPT ![a] = s] /\ s.pc \in {"done", "finish"}
  <2>1. CASE Goes(a, [pc |-> "done"])
    <3>1. /\ actor' = [actor EXCEPT ![a] = Comes(actor[a], "done", actor[a].now)]
          /\ Comes(actor[a], "done", actor[a].now) \in ActorState
      BY <1>1, <2>1, ComesEffect DEF Phases
    <3> QED
      BY <3>1 DEF Comes
  <2>2. CASE Goes(a, [pc |-> "finish", now |-> clock])
    <3>1. /\ actor' = [actor EXCEPT ![a] = Comes(actor[a], "finish", clock)]
          /\ Comes(actor[a], "finish", clock) \in ActorState
      BY <1>1, <2>2, ComesEffect DEF Phases
    <3> QED
      BY <3>1 DEF Comes
  <2>3. CASE Answer(a)
    <3>1. /\ actor' = [actor EXCEPT ![a] = Rest("done")]
          /\ Rest("done") \in ActorState
      BY <1>1, <2>3, RestEffect DEF Phases, Answer
    <3> QED
      BY <3>1 DEF Rest
  <2> QED
    BY <2>1, <2>2, <2>3 DEF Receive
<1>5. PICK s \in ActorState : actor' = [actor EXCEPT ![a] = s] /\ s.pc \in {"done", "finish"}
  BY <1>4
<1>6. BidderOf(a)'
  BY <1>1, <1>5, Becomes DEF BidderOf
<1>7. RowsGrow
  BY <1>3, SameRowsGrow
<1>8. \A b \in Actors \ {a} : actor[b].pc = "write" => money[actor[b].planet] <= money'[actor[b].planet]
  <2>1. ASSUME NEW b \in Actors, actor[b].pc = "write" PROVE money[actor[b].planet] \in Nat
    BY <1>1, <2>1, TypeFacts DEF TypeInv, Bidders, BidderOf
  <2> QED
    BY <1>3, <2>1
<1>9. clock' \in Nat /\ money' \in [Planets -> Nat] /\ offer' = offer
  BY <1>1, <1>3, TypeFacts
<1> QED
  BY <1>3, <1>5, <1>6, <1>7, <1>8, <1>9, StepKeepsType

(* What a completion leaves of the rows. *)
Completed(due) ==
    /\ Len(listing') = Len(listing)
    /\ \A l \in 1..Len(listing) :
         /\ listing'[l].bid = listing[l].bid /\ listing'[l].bidder = listing[l].bidder
         /\ listing'[l].ends = listing[l].ends /\ listing'[l].planet = listing[l].planet
         /\ listing'[l].status =
              IF \E d \in due : d.id = l THEN "completed" ELSE listing[l].status
         /\ \A player \in Players :
              boxes'[l][player] = boxes[l][player] +
                (IF \E d \in due : d.id = l /\ d.bidder = player /\ d.bid > 0 THEN 1 ELSE 0)

(* Completing changes states of listings and boxes only. *)
LEMMA GrantEffect ==
    ASSUME TypeOK, NEW a \in Actors, GrantAndComplete(a)
    PROVE  /\ RowsGrow /\ Completed(actor[a].due) /\ UNCHANGED bids
           /\ LET pc == IF a \in Pages THEN "rotate" ELSE "bid"
                  s == HasCompleted(actor[a], pc, clock) IN
              s \in ActorState /\ actor' = [actor EXCEPT ![a] = s]
<1> DEFINE due == actor[a].due
           Ends(l) == \E d \in due : d.id = l
           Won(l, player) == \E d \in due : d.id = l /\ d.bidder = player /\ d.bid > 0
           row(l) == IF Ends(l) THEN [listing[l] EXCEPT !.status = "completed"] ELSE listing[l]
           box(l) == [player \in Players |->
                        boxes[l][player] + (IF Won(l, player) THEN 1 ELSE 0)]
<1>1. /\ listing' = [l \in DOMAIN listing |-> row(l)]
      /\ boxes' = [l \in DOMAIN boxes |-> box(l)]
      /\ UNCHANGED bids
  BY DEF GrantAndComplete
<1>2. ASSUME NEW l \in 1..Len(listing)
      PROVE  /\ row(l) \in RowType
             /\ row(l).bid = listing[l].bid /\ row(l).bidder = listing[l].bidder
             /\ row(l).ends = listing[l].ends /\ row(l).planet = listing[l].planet
             /\ row(l).status = IF Ends(l) THEN "completed" ELSE listing[l].status
  <2>1. listing[l] \in RowType
    BY TypeFacts
  <2> QED
    BY <2>1, RowCompleted
<1>3. ASSUME NEW l \in 1..Len(listing)
      PROVE  /\ box(l) \in [Players -> Nat]
             /\ \A player \in Players :
                  box(l)[player] = boxes[l][player] + (IF Won(l, player) THEN 1 ELSE 0)
  <2>1. boxes[l] \in [Players -> Nat]
    BY TypeFacts
  <2>2. ASSUME NEW player \in Players
        PROVE  boxes[l][player] + (IF Won(l, player) THEN 1 ELSE 0) \in Nat
    <3>1. boxes[l][player] \in Nat
      BY <2>1
    <3> QED
      BY <3>1
  <2> QED
    BY <2>2
<1>4. DOMAIN listing = 1..Len(listing) /\ DOMAIN boxes = 1..Len(listing) /\ Len(listing) \in Nat
  BY TypeFacts
<1> HIDE DEF row, box
<1>5. listing' \in [1..Len(listing) -> RowType] /\ boxes' \in [1..Len(listing) -> [Players -> Nat]]
  BY <1>1, <1>2, <1>3, <1>4
<1>6. /\ listing' \in Seq(RowType) /\ Len(listing') = Len(listing)
      /\ boxes' \in Seq([Players -> Nat]) /\ Len(boxes') = Len(listing)
  BY <1>4, <1>5
<1>7. RowsGrow
  BY <1>1, <1>6, TypeFacts DEF RowsGrow
<1>8. Completed(due)
  BY <1>1, <1>2, <1>3, <1>4, <1>6 DEF Completed
<1> DEFINE pc == IF a \in Pages THEN "rotate" ELSE "bid"
<1>9. Goes(a, [pc |-> pc, due |-> {}, now |-> clock]) /\ pc \in Phases /\ clock \in Nat
  BY TypeFacts DEF GrantAndComplete, Phases
<1> HIDE DEF pc
<1>10. HasCompleted(actor[a], pc, clock) \in ActorState
       /\ actor' = [actor EXCEPT ![a] = HasCompleted(actor[a], pc, clock)]
  BY <1>9, CompletedEffect
<1> QED
  BY <1>1, <1>7, <1>8, <1>10 DEF pc

(* The balance of a planet somebody bids from. *)
LEMMA BalanceOfBidder ==
    ASSUME TypeInv, NEW b \in Actors, actor[b].pc = "write"
    PROVE  actor[b].planet \in Planets /\ money[actor[b].planet] \in Nat
<1>1. TypeOK /\ BidderOf(b)
  BY DEF TypeInv, Bidders
<1> QED
  BY <1>1, TypeFacts DEF BidderOf

(* Completing keeps the types. *)
LEMMA GrantType ==
    ASSUME TypeInv, NEW a \in Actors, GrantAndComplete(a)
    PROVE  TypeInv'
<1> DEFINE pc == IF a \in Pages THEN "rotate" ELSE "bid"
           s == HasCompleted(actor[a], pc, clock)
<1>1. TypeOK
  BY DEF TypeInv
<1>2. RowsGrow /\ s \in ActorState /\ actor' = [actor EXCEPT ![a] = s]
  BY <1>1, GrantEffect
<1>3. s.pc \in {"rotate", "bid"} /\ (s.pc = "bid" => a \in Handlers)
  BY DEF HasCompleted, Actors
<1> HIDE DEF s
<1>4. BidderOf(a)'
  BY <1>1, <1>2, <1>3, Becomes DEF BidderOf
<1>5. clock' \in Nat /\ money' = money /\ money' \in [Planets -> Nat] /\ offer' = offer
      /\ answered' \subseteq Requests
  BY <1>1, TypeFacts DEF GrantAndComplete
<1>6. \A b \in Actors \ {a} : actor[b].pc = "write" => money[actor[b].planet] <= money'[actor[b].planet]
  BY <1>5, BalanceOfBidder
<1> QED
  BY <1>2, <1>3, <1>4, <1>5, <1>6, StepKeepsType

(* The elements of a concatenation. *)
LEMMA Concatenation ==
    ASSUME NEW S, NEW s \in Seq(S), NEW t \in Seq(S), NEW c, c = s \o t
    PROVE  /\ c \in Seq(S) /\ Len(c) = Len(s) + Len(t)
           /\ \A i \in 1..Len(s) : c[i] = s[i]
           /\ \A i \in Len(s) + 1..Len(s) + Len(t) : c[i] = t[i - Len(s)]
  OBVIOUS

(* What a rotation adds. *)
Added(a) ==
    LET need == Missing(actor[a].live) IN
    /\ need \in Nat
    /\ Len(listing') = Len(listing) + need
    /\ \A l \in 1..Len(listing) :
         listing'[l] = listing[l] /\ bids'[l] = bids[l] /\ boxes'[l] = boxes[l]
    /\ \A l \in Len(listing) + 1..Len(listing) + need :
         /\ listing'[l].status = "active" /\ listing'[l].bid = 0 /\ listing'[l].bidder = NoOne
         /\ bids'[l] = {}
         /\ \A player \in Players : boxes'[l][player] = 0

(* A rotation adds rows and changes none. *)
LEMMA InsertEffect ==
    ASSUME TypeOK, NEW a \in Actors, InsertListings(a)
    PROVE  /\ RowsGrow /\ Added(a)
           /\ actor' = [actor EXCEPT ![a] = Rest("idle")]
           /\ Rest("idle") \in ActorState
<1> DEFINE need == Missing(actor[a].live)
           now == actor[a].now
<1>1. need \in Nat /\ now \in Nat
  <2>1. actor[a] \in ActorState
    BY TypeFacts
  <2>2. actor[a].live \in Nat /\ now \in Nat /\ ActiveTarget \in Nat
    BY <2>1, AuctionAssumption DEF ActorState
  <2> QED
    BY <2>2 DEF Missing
<1> HIDE DEF need, now
<1>2. PICK durations \in [1..need -> Durations] :
        listing' = listing \o [i \in 1..need |-> NewListing(now, durations[i])]
  BY DEF InsertListings, need, now
<1> DEFINE rows == [i \in 1..need |-> NewListing(now, durations[i])]
           none == [i \in 1..need |-> {}]
           zero == [i \in 1..need |-> [player \in Players |-> 0]]
<1>3. bids' = bids \o none /\ boxes' = boxes \o zero /\ listing' = listing \o rows
  BY <1>2 DEF InsertListings, need
<1>4. ASSUME NEW i \in 1..need
      PROVE  /\ NewListing(now, durations[i]) \in RowType
             /\ NewListing(now, durations[i]).status = "active"
             /\ NewListing(now, durations[i]).bid = 0
             /\ NewListing(now, durations[i]).bidder = NoOne
  <2>1. durations[i] \in Nat
    BY AuctionAssumption
  <2> QED
    BY <1>1, <2>1 DEF NewListing, RowType
<1>5. rows \in [1..need -> RowType]
  BY <1>4
<1>6. rows \in Seq(RowType) /\ Len(rows) = need
  BY <1>1, <1>5
<1>7. none \in Seq(SUBSET BidType) /\ Len(none) = need
  <2>1. none \in [1..need -> SUBSET BidType]
    OBVIOUS
  <2> QED
    BY <1>1, <2>1
<1>8. zero \in Seq([Players -> Nat]) /\ Len(zero) = need
  <2>1. zero \in [1..need -> [Players -> Nat]]
    OBVIOUS
  <2> QED
    BY <1>1, <2>1
<1>9. \A i \in 1..need :
        /\ rows[i].status = "active" /\ rows[i].bid = 0 /\ rows[i].bidder = NoOne
        /\ none[i] = {}
        /\ \A player \in Players : zero[i][player] = 0
  BY <1>4
<1> HIDE DEF rows, none, zero
<1>10. /\ listing' \in Seq(RowType) /\ Len(listing') = Len(listing) + need
       /\ \A l \in 1..Len(listing) : listing'[l] = listing[l]
       /\ \A l \in Len(listing) + 1..Len(listing) + need : listing'[l] = rows[l - Len(listing)]
  BY <1>3, <1>6, TypeFacts, Concatenation
<1>11. /\ bids' \in Seq(SUBSET BidType) /\ Len(bids') = Len(listing) + need
       /\ \A l \in 1..Len(listing) : bids'[l] = bids[l]
       /\ \A l \in Len(listing) + 1..Len(listing) + need : bids'[l] = none[l - Len(listing)]
  <2> DEFINE BidSets == SUBSET BidType
  <2>1. bids \in Seq(BidSets) /\ Len(bids) = Len(listing) /\ none \in Seq(BidSets)
    BY <1>7, TypeFacts
  <2> HIDE DEF BidSets
  <2>2. bids' \in Seq(BidSets)
    BY <1>3, <2>1, Concatenation
  <2>3. bids' \in Seq(SUBSET BidType)
    BY <2>2 DEF BidSets
  <2> QED
    BY <1>3, <1>7, <2>1, <2>3, Concatenation
<1>12. /\ boxes' \in Seq([Players -> Nat]) /\ Len(boxes') = Len(listing) + need
       /\ \A l \in 1..Len(listing) : boxes'[l] = boxes[l]
       /\ \A l \in Len(listing) + 1..Len(listing) + need : boxes'[l] = zero[l - Len(listing)]
  <2> DEFINE BoxSets == [Players -> Nat]
  <2>1. boxes \in Seq(BoxSets) /\ Len(boxes) = Len(listing) /\ zero \in Seq(BoxSets)
    BY <1>8, TypeFacts
  <2> HIDE DEF BoxSets
  <2>2. boxes' \in Seq(BoxSets)
    BY <1>3, <2>1, Concatenation
  <2>3. boxes' \in Seq([Players -> Nat])
    BY <2>2 DEF BoxSets
  <2> QED
    BY <1>3, <1>8, <2>1, <2>3, Concatenation
<1>13. ASSUME NEW l \in Len(listing) + 1..Len(listing) + need
       PROVE  /\ listing'[l].status = "active" /\ listing'[l].bid = 0
              /\ listing'[l].bidder = NoOne /\ bids'[l] = {}
              /\ \A player \in Players : boxes'[l][player] = 0
  <2> DEFINE i == l - Len(listing)
  <2>1. i \in 1..need
    BY <1>1, TypeFacts
  <2>2. listing'[l] = rows[i] /\ bids'[l] = none[i] /\ boxes'[l] = zero[i]
    BY <1>10, <1>11, <1>12
  <2> HIDE DEF i
  <2> QED
    BY <1>9, <2>1, <2>2
<1>14. Added(a)
  BY <1>1, <1>10, <1>11, <1>12, <1>13 DEF Added, need
<1>15. Goes(a, Rest("idle"))
  BY DEF InsertListings
<1>16. RowsGrow
  BY <1>1, <1>10, <1>11, <1>12, TypeFacts DEF RowsGrow
<1> QED
  BY <1>14, <1>15, <1>16, RestEffect DEF Phases

(* A rotation keeps the types. *)
LEMMA InsertType ==
    ASSUME TypeInv, NEW a \in Actors, InsertListings(a)
    PROVE  TypeInv'
<1>1. TypeOK
  BY DEF TypeInv
<1>2. /\ RowsGrow /\ Rest("idle") \in ActorState
      /\ actor' = [actor EXCEPT ![a] = Rest("idle")]
  BY <1>1, InsertEffect
<1>3. Rest("idle").pc = "idle"
  BY DEF Rest
<1>4. BidderOf(a)'
  BY <1>1, <1>2, <1>3, Becomes DEF BidderOf
<1>5. clock' \in Nat /\ money' = money /\ money' \in [Planets -> Nat] /\ offer' = offer
      /\ answered' \subseteq Requests
  BY <1>1, TypeFacts DEF InsertListings
<1>6. \A b \in Actors \ {a} : actor[b].pc = "write" => money[actor[b].planet] <= money'[actor[b].planet]
  BY <1>5, BalanceOfBidder
<1> QED
  BY <1>2, <1>3, <1>4, <1>5, <1>6, StepKeepsType

(* Reading a listing for a bid keeps the types: the planet is free, and what *)
(* the bid costs is there.                                                   *)
LEMMA ReadListingType ==
    ASSUME TypeInv, NEW a \in Actors, ReadListing(a)
    PROVE  TypeInv'
<1> DEFINE r == a[1]
           l == ListingOf[r]
           player == SenderOf[r]
<1>1. TypeOK /\ BidderOf(a) /\ a \in Handlers
  BY DEF TypeInv, Bidders, ReadListing, BidderOf
<1>2. r \in Requests /\ player \in Players
  BY <1>1, HandlerType
<1>3. PICK p \in Planets :
        /\ PlanetFree(a, p) /\ Acceptable(a, p)
        /\ Goes(a, [pc |-> "write", planet |-> p, seen |-> <<listing[l]>>])
  BY DEF ReadListing
<1> DEFINE row == listing[l]
           s == HasRead(actor[a], p, row)
           charge == Charge(player, row, offer[r])
<1>4. l \in DOMAIN listing /\ row \in RowType
  BY <1>1, <1>3, TypeFacts DEF Acceptable
<1>5. s \in ActorState /\ actor' = [actor EXCEPT ![a] = s]
  BY <1>1, <1>3, <1>4, ReadEffect
<1>6. actor'[a] = s
  BY <1>1, <1>5, Becomes
<1>7. s.pc = "write" /\ s.planet = p /\ s.seen = <<row>>
  BY DEF HasRead
<1>8. UNCHANGED <<clock, offer, Rows>>
  BY DEF ReadListing
<1>9. charge \in 0..money[p]
  <2>1. offer[r] \in Nat /\ row.bid \in Nat /\ money[p] \in Nat
    BY <1>1, <1>2, <1>4, TypeFacts DEF RowType
  <2>2. money[p] >= charge /\ (Raises(player, row) => offer[r] > row.bid)
    BY <1>3 DEF Acceptable, CanPay
  <2> QED
    BY <2>1, <2>2 DEF Charge
<1>10. BidderOf(a)'
  <2>1. Charge(player, actor'[a].seen[1], offer'[r]) = charge
    BY <1>6, <1>7, <1>8
  <2>2. (Charge(SenderOf[a[1]], actor[a].seen[1], offer[a[1]]))' =
          Charge(player, actor'[a].seen[1], offer'[r])
    BY DEF Charge, Raises
  <2>3. Len(actor'[a].seen) = 1
    BY <1>6, <1>7
  <2> QED
    BY <1>1, <1>4, <1>6, <1>7, <1>8, <1>9, <2>1, <2>2, <2>3 DEF BidderOf, Rows
<1>11. RowsGrow
  BY <1>8, SameRowsGrow DEF Rows
<1>12. \A b \in Actors \ {a} : actor[b].pc = "write" => money[actor[b].planet] <= money'[actor[b].planet]
  BY <1>8, BalanceOfBidder DEF Rows
<1>13. clock' \in Nat /\ money' \in [Planets -> Nat] /\ answered' \subseteq Requests
  BY <1>1, <1>8, TypeFacts DEF Rows
<1> QED
  BY <1>3, <1>5, <1>7, <1>8, <1>10, <1>11, <1>12, <1>13, StepKeepsType

(* The row of a bid, and the row of the outbid, marked. *)
NewBid(a) ==
    [player |-> SenderOf[a[1]], planet |-> actor[a].planet, amount |-> offer[a[1]],
     at |-> actor[a].now, copy |-> a, refunded |-> FALSE]

SameBid(m, b) == m.player = b.player /\ m.amount = b.amount /\ m.copy = b.copy

(* A bid that is taken adds its row and marks at most one other.             *)
Taken(old, new, rows) ==
    \/ rows = old \cup {new}
    \/ \E b \in old, m \in BidType : SameBid(m, b) /\ rows = (old \ {b}) \cup {m, new}

(* Marking the outbid changes no more than a flag. *)
LEMMA MarkingTakes ==
    ASSUME NEW old \in SUBSET BidType, NEW new \in BidType, NEW open \in SUBSET old,
           NEW marked \in MarkedOutbid(open)
    PROVE  LET rows == (old \ open) \cup marked \cup {new} IN
           rows \in SUBSET BidType /\ Taken(old, new, rows)
<1> DEFINE rows == (old \ open) \cup marked \cup {new}
<1>1. CASE open = {}
  <2>1. marked = {}
    BY <1>1 DEF MarkedOutbid
  <2> QED
    BY <1>1, <2>1 DEF Taken
<1>2. CASE open # {}
  <2>1. PICK b \in Newest(open) : marked = (open \ {b}) \cup {[b EXCEPT !.refunded = TRUE]}
    BY <1>2 DEF MarkedOutbid
  <2> DEFINE m == [b EXCEPT !.refunded = TRUE]
  <2>2. b \in open /\ b \in BidType
    BY DEF Newest
  <2>3. m \in BidType /\ SameBid(m, b)
    BY <2>2 DEF BidType, SameBid
  <2> HIDE DEF m
  <2>4. marked = (open \ {b}) \cup {m}
    BY <2>1 DEF m
  <2>5. rows = (old \ {b}) \cup {m, new}
    BY <2>2, <2>4
  <2>6. Taken(old, new, rows)
    BY <2>2, <2>3, <2>5 DEF Taken
  <2>7. rows \in SUBSET BidType
    BY <2>3, <2>4
  <2> QED
    BY <2>6, <2>7
<1> QED
  BY <1>1, <1>2

(* What a bid that is written changes. *)
LEMMA WriteEffect ==
    ASSUME TypeInv, NEW a \in Actors, WriteBid(a)
    PROVE  LET l == ListingOf[a[1]] IN
           /\ a \in Handlers /\ l \in 1..Len(listing) /\ NewBid(a) \in BidType
           /\ RowsGrow /\ Len(listing') = Len(listing) /\ boxes' = boxes
           /\ listing'[l].status = listing[l].status /\ listing'[l].ends = listing[l].ends
           /\ listing'[l].bid = offer[a[1]] /\ listing'[l].bidder = SenderOf[a[1]]
           /\ listing'[l].planet = actor[a].planet
           /\ Taken(bids[l], NewBid(a), bids'[l])
           /\ \A k \in 1..Len(listing) : k # l => listing'[k] = listing[k] /\ bids'[k] = bids[k]
<1> DEFINE r == a[1]
           l == ListingOf[r]
           player == SenderOf[r]
           p == actor[a].planet
           seen == actor[a].seen[1]
           outbid == seen.bidder # NoOne /\ seen.bid > 0 /\ ~Raises(player, seen)
           open == {b \in bids[l] : outbid /\ b.player = seen.bidder /\ ~b.refunded}
           new == NewBid(a)
           old == listing[l]
           row == [status |-> old.status, ends |-> old.ends,
                   bid |-> offer[r], bidder |-> player, planet |-> p]
<1>1. TypeOK /\ BidderOf(a) /\ actor[a].pc = "write"
  BY DEF TypeInv, Bidders, WriteBid
<1>2. a \in Handlers /\ l \in DOMAIN listing /\ p \in Planets
  BY <1>1 DEF BidderOf
<1>3. l \in 1..Len(listing) /\ Len(listing) \in Nat
  BY <1>1, <1>2, TypeFacts
<1>4. r \in Requests /\ player \in Players /\ offer[r] \in Nat
  <2>1. r \in Requests /\ player \in Players
    BY <1>2, HandlerType
  <2> QED
    BY <1>1, <2>1, TypeFacts
<1>5. new \in BidType
  <2>1. actor[a] \in ActorState
    BY <1>1, TypeFacts
  <2>2. actor[a].now \in Nat
    BY <2>1 DEF ActorState
  <2> QED
    BY <1>2, <1>4, <2>2 DEF NewBid, BidType
<1>6. listing' = [listing EXCEPT ![l] = row] /\ boxes' = boxes
  BY DEF WriteBid
<1>7. old \in RowType
  BY <1>1, <1>3, TypeFacts
<1>8. /\ row \in RowType /\ row.status = old.status /\ row.ends = old.ends
      /\ row.bid = offer[r] /\ row.bidder = player /\ row.planet = p
  <2> HIDE DEF old
  <2> QED
    BY <1>2, <1>4, <1>7 DEF RowType
<1> HIDE DEF row
<1>9. /\ listing' \in Seq(RowType) /\ Len(listing') = Len(listing) /\ listing'[l] = row
      /\ \A k \in 1..Len(listing) : k # l => listing'[k] = listing[k]
  BY <1>1, <1>3, <1>6, <1>8, TypeFacts
<1>10. PICK marked \in MarkedOutbid(open) :
         bids' = [bids EXCEPT ![l] = (@ \ open) \cup marked \cup {new}]
  BY DEF WriteBid, NewBid
<1> DEFINE after == (bids[l] \ open) \cup marked \cup {new}
<1>11. bids[l] \in SUBSET BidType /\ open \in SUBSET bids[l] /\ Len(bids) = Len(listing)
  BY <1>1, <1>3, TypeFacts
<1>12. after \in SUBSET BidType /\ Taken(bids[l], new, after)
  <2> HIDE DEF open, new
  <2> QED
    BY <1>5, <1>11, MarkingTakes
<1>13. bids' = [bids EXCEPT ![l] = after]
  BY <1>10
<1> HIDE DEF after, new
<1>14. /\ bids' \in Seq(SUBSET BidType) /\ Len(bids') = Len(listing) /\ bids'[l] = after
       /\ \A k \in 1..Len(listing) : k # l => bids'[k] = bids[k]
  <2> DEFINE BidSets == SUBSET BidType
  <2>1. bids \in Seq(BidSets) /\ after \in BidSets
    BY <1>1, <1>12, TypeFacts
  <2> HIDE DEF BidSets
  <2>2. /\ bids' \in Seq(BidSets) /\ Len(bids') = Len(listing) /\ bids'[l] = after
        /\ \A k \in 1..Len(listing) : k # l => bids'[k] = bids[k]
    BY <1>3, <1>11, <1>13, <2>1
  <2> QED
    BY <2>2 DEF BidSets
<1>15. RowsGrow
  BY <1>1, <1>3, <1>6, <1>9, <1>14, TypeFacts DEF RowsGrow
<1> QED
  BY <1>2, <1>3, <1>5, <1>6, <1>8, <1>9, <1>12, <1>14, <1>15 DEF new

(* A bid keeps the types: what was read to be there is still there. *)
LEMMA WriteType ==
    ASSUME TypeInv, NEW a \in Actors, WriteBid(a)
    PROVE  TypeInv'
<1> DEFINE r == a[1]
           player == SenderOf[r]
           p == actor[a].planet
           seen == actor[a].seen[1]
           outbid == seen.bidder # NoOne /\ seen.bid > 0 /\ ~Raises(player, seen)
           charge == Charge(player, seen, offer[r])
<1>1. TypeOK /\ BidderOf(a) /\ actor[a].pc = "write" /\ OnePlanetEach
  BY DEF TypeInv, Bidders, WriteBid
<1>2. RowsGrow /\ a \in Handlers
  BY WriteEffect
<1>3. p \in Planets /\ charge \in 0..money[p] /\ seen.bid \in Nat
  <2>1. p \in Planets /\ charge \in 0..money[p] /\ Len(actor[a].seen) = 1
    BY <1>1 DEF BidderOf
  <2>2. actor[a] \in ActorState
    BY <1>1, TypeFacts
  <2>3. actor[a].seen \in Seq(RowType)
    BY <2>2 DEF ActorState
  <2>4. seen \in RowType
    BY <2>1, <2>3
  <2> QED
    BY <2>1, <2>4 DEF RowType
<1>4. money' = [q \in Planets |->
                  money[q] - (IF q = p THEN charge ELSE 0)
                           + (IF outbid /\ q = seen.planet THEN seen.bid ELSE 0)]
  BY DEF WriteBid
<1> HIDE DEF charge, outbid, seen, p
<1>5. ASSUME NEW q \in Planets
      PROVE  money'[q] \in Nat /\ (q # p => money[q] <= money'[q])
  <2>1. money[q] \in Nat
    BY <1>1, TypeFacts
  <2> QED
    BY <1>3, <1>4, <2>1
<1>6. money' \in [Planets -> Nat]
  BY <1>4, <1>5
<1>7. Goes(a, Rest("answer"))
  BY DEF WriteBid
<1>8. Rest("answer") \in ActorState /\ actor' = [actor EXCEPT ![a] = Rest("answer")]
  BY <1>1, <1>7, RestEffect DEF Phases
<1>9. Rest("answer").pc = "answer"
  BY DEF Rest
<1>10. BidderOf(a)'
  BY <1>1, <1>2, <1>8, <1>9, Becomes DEF BidderOf
<1>11. ASSUME NEW b \in Actors, b # a, actor[b].pc = "write"
       PROVE  money[actor[b].planet] <= money'[actor[b].planet]
  <2>1. actor[b].planet # p
    BY <1>1, <1>11 DEF OnePlanetEach, p
  <2> QED
    BY <1>5, <1>11, <2>1, BalanceOfBidder
<1>12. clock' \in Nat /\ offer' = offer /\ answered' \subseteq Requests
  BY <1>1, TypeFacts DEF WriteBid
<1> QED
  BY <1>2, <1>6, <1>8, <1>9, <1>10, <1>11, <1>12, StepKeepsType

(* The types hold at the start. *)
LEMMA InitType == Init => TypeInv
<1> SUFFICES ASSUME Init PROVE TypeInv
  OBVIOUS
<1>1. Rest("idle") \in ActorState /\ Rest("idle").pc = "idle"
  BY DEF Rest, ActorState, Phases
<1>2. actor \in [Actors -> ActorState] /\ \A a \in Actors : actor[a].pc = "idle"
  BY <1>1 DEF Init
<1>3. /\ listing \in Seq(RowType) /\ bids \in Seq(SUBSET BidType) /\ boxes \in Seq([Players -> Nat])
      /\ Len(bids) = Len(listing) /\ Len(boxes) = Len(listing)
  BY DEF Init
<1>4. TypeOK
  BY <1>2, <1>3, AuctionAssumption DEF Init, TypeOK, BidType, ActorState, Phases, DueType
<1> QED
  BY <1>2, <1>4 DEF TypeInv, Bidders, BidderOf, OnePlanetEach

(* Every step keeps the types, on both databases. *)
LEMMA StepType == TypeInv /\ [Next]_vars => TypeInv'
<1> SUFFICES ASSUME TypeInv, [Next]_vars PROVE TypeInv'
  OBVIOUS
<1>1. ASSUME NEW a \in Actors, Step(a) \/ Fail(a) PROVE TypeInv'
  BY <1>1, ReadsType, RequestType, GrantType, InsertType, ReadListingType, WriteType DEF Step
<1>2. CASE Tick
  <2>1. clock' \in Nat /\ UNCHANGED <<money, listing, bids, boxes, offer, answered, actor>>
    BY <1>2, TypeFacts DEF Tick, Rows, TypeInv
  <2> QED
    BY <2>1 DEF TypeInv, TypeOK, Bidders, BidderOf, Charge, Raises, OnePlanetEach
<1>3. CASE UNCHANGED vars
  BY <1>3 DEF vars, TypeInv, TypeOK, Bidders, BidderOf, Charge, Raises, OnePlanetEach
<1> QED
  BY <1>1, <1>2, <1>3 DEF Next

(* Every variable has its type, and no planet pays what it does not have,    *)
(* on SQLite and on PostgreSQL: place_bid compares balance and charge under  *)
(* the lock of the planet under which it pays.                               *)
THEOREM TypeCorrect == Spec => []TypeOK
<1>1. Spec => []TypeInv
  BY InitType, StepType, PTL DEF Spec
<1>2. TypeInv => TypeOK
  BY DEF TypeInv
<1> QED
  BY <1>1, <1>2, PTL

(* Of two numbers one is the larger. *)
LEMMA LargerOfTwo ==
    ASSUME NEW m \in Nat, NEW n \in Nat
    PROVE  Max({m, n}) \in Nat /\ Max({m, n}) >= m /\ Max({m, n}) >= n
<1>1. \E x \in {m, n} : \A y \in {m, n} : x >= y
  OBVIOUS
<1>2. Max({m, n}) \in {m, n} /\ \A y \in {m, n} : Max({m, n}) >= y
  BY <1>1, Zenon DEF Max
<1> QED
  BY <1>2

(* Five per cent more, rounded up, is more. *)
LEMMA NextBidIsHigher ==
    ASSUME NEW row, row.bid \in Nat, NEW n \in Nat \ {0}, n >= MinNextBid(row)
    PROVE  n > row.bid
<1>1. CASE row.bid <= 0
  BY <1>1
<1>2. CASE row.bid > 0
  <2> DEFINE next == (row.bid * 10500 + 9999) \div 10000
  <2>1. next \in Nat /\ next > row.bid
    BY <1>2
  <2>2. StartPrice \in Nat
    BY AuctionAssumption
  <2>3. MinNextBid(row) = Max({StartPrice, next})
    BY <1>2 DEF MinNextBid
  <2> HIDE DEF next
  <2>4. Max({StartPrice, next}) >= next /\ Max({StartPrice, next}) \in Nat
    BY <2>1, <2>2, LargerOfTwo
  <2> QED
    BY <2>1, <2>3, <2>4
<1> QED
  BY <1>1, <1>2

-----------------------------------------------------------------------------
(* On SQLite: one transaction at a time, so what a transaction has read      *)
(* still holds when it writes.                                               *)

RowsInv == AllLed /\ BoxForLeader /\ RequestBidsOnce /\ TargetKept

(* A transaction begins when there is none, or an actor leaves its own.      *)
LEMMA OneWriterStays ==
    ASSUME TypeOK, OneWriter, NEW a \in Actors, NEW s \in ActorState,
           actor' = [actor EXCEPT ![a] = s],
           s.pc \notin {"complete", "write", "insert"} \/ \A b \in Actors : ~InTransaction(b)
    PROVE  OneWriter'
<1>1. actor'[a] = s /\ \A b \in Actors : b # a => actor'[b] = actor[b]
  BY Becomes
<1> QED
  BY <1>1 DEF OneWriter, InTransaction

(* While one writes, nobody else holds what he has read. *)
LEMMA AllFreshStays ==
    ASSUME TypeOK, OneWriter, AllFresh, NEW a \in Actors, NEW s \in ActorState,
           actor' = [actor EXCEPT ![a] = s], UNCHANGED <<clock, offer>>,
           listing' = listing \/ InTransaction(a), Fresh(a)'
    PROVE  AllFresh'
<1>1. \A b \in Actors : b # a => actor'[b] = actor[b]
  BY Becomes
<1>2. ASSUME NEW b \in Actors, b # a PROVE Fresh(b)'
  <2>1. Fresh(b) /\ actor'[b] = actor[b]
    BY <1>1, <1>2 DEF AllFresh
  <2>2. CASE listing' = listing
    <3>1. DueRows(actor[b].now)' = DueRows(actor[b].now)
      BY <2>1, <2>2 DEF DueRows, DueListings
    <3>2. LiveListings(actor[b].now)' = LiveListings(actor[b].now)
      BY <2>1, <2>2 DEF LiveListings
    <3> QED
      BY <2>1, <2>2, <3>1, <3>2 DEF Fresh
  <2>3. CASE InTransaction(a)
    <3>1. actor[b].pc \notin {"complete", "write", "insert"}
      BY <1>2, <2>3 DEF OneWriter, InTransaction
    <3> QED
      BY <2>1, <3>1 DEF Fresh
  <2> QED
    BY <2>2, <2>3
<1> QED
  BY <1>2 DEF AllFresh

(* Rows that do not change stay right. *)
LEMMA SameRowsInv ==
    ASSUME RowsInv, UNCHANGED <<clock, offer, listing, bids, boxes>>
    PROVE  RowsInv'
<1>1. AllLed'
  BY DEF RowsInv, AllLed, LedBy
<1>2. TargetKept'
  BY DEF RowsInv, TargetKept, LiveListings
<1> QED
  BY <1>1, <1>2 DEF RowsInv, BoxForLeader, RequestBidsOnce

(* Steps that change no listing: what they read is fresh. *)
LEMMA ReadsSafe ==
    ASSUME ~Postgres, TypeInv, HouseInv, NEW a \in Actors,
           \/ ReadDue(a) \/ CountLive(a) \/ ReadListing(a) \/ RejectBid(a)
           \/ OpenPage(a) \/ Fail(a) \/ Receive(a) \/ Answer(a)
    PROVE  HouseInv'
<1>1. TypeOK /\ OneWriter /\ AllFresh /\ RowsInv /\ BidderOf(a)
  BY DEF TypeInv, HouseInv, RowsInv, Bidders
<1>2. UNCHANGED <<clock, offer, money, listing, bids, boxes>>
  BY DEF ReadDue, CountLive, ReadListing, RejectBid, OpenPage, Fail, Receive, Answer, Rows
<1>3. actor[a] \in ActorState /\ actor[a].now \in Nat /\ clock \in Nat /\ actor[a].now <= clock
  <2>1. actor[a] \in ActorState /\ clock \in Nat /\ Fresh(a)
    BY <1>1, TypeFacts DEF AllFresh
  <2> QED
    BY <2>1 DEF ActorState, Fresh
<1> DEFINE Calm == \A b \in Actors : ~InTransaction(b)
           Moved(s) == /\ actor' = [actor EXCEPT ![a] = s]
                       /\ s.pc \notin {"complete", "write", "insert"} \/ Calm
                       /\ Fresh(a)'
<1>4. ASSUME NEW s \in ActorState, actor' = [actor EXCEPT ![a] = s],
             s.pc \notin {"complete", "write", "insert"}, s.now <= clock
      PROVE  Moved(s)
  BY <1>1, <1>2, <1>4, Becomes DEF Fresh
<1>5. \E s \in ActorState : Moved(s)
  <2>1. CASE ReadDue(a)
    <3> DEFINE due == DueRows(actor[a].now)
               s == HasFound(actor[a], due)
    <3>1. Goes(a, [pc |-> "complete", due |-> due]) /\ Calm
      BY <2>1 DEF ReadDue, DueRows, CanBegin
    <3>2. due \in SUBSET DueType
      BY <1>1, <1>3, DueAndLive
    <3>3. s \in ActorState /\ actor' = [actor EXCEPT ![a] = s]
      BY <1>1, <3>1, <3>2, FoundEffect
    <3>4. actor'[a].pc = "complete" /\ actor'[a].now = actor[a].now /\ actor'[a].due = due
      BY <1>1, <3>3, Becomes DEF HasFound
    <3>5. DueRows(actor[a].now)' = DueRows(actor'[a].now)
      BY <1>2, <3>4 DEF DueRows, DueListings
    <3>6. Fresh(a)'
      BY <1>2, <1>3, <3>4, <3>5 DEF Fresh
    <3> QED
      BY <3>1, <3>3, <3>6
  <2>2. CASE CountLive(a)
    <3> DEFINE live == Cardinality(LiveListings(actor[a].now))
               s == HasCounted(actor[a], live)
    <3>1. Goes(a, [pc |-> "insert", live |-> live]) /\ Calm
      BY <2>2 DEF CountLive, CanBegin
    <3>2. live \in Nat
      BY <1>1, <1>3, DueAndLive
    <3>3. s \in ActorState /\ actor' = [actor EXCEPT ![a] = s]
      BY <1>1, <3>1, <3>2, CountedEffect
    <3>4. actor'[a].pc = "insert" /\ actor'[a].now = actor[a].now /\ actor'[a].live = live
      BY <1>1, <3>3, Becomes DEF HasCounted
    <3>5. LiveListings(actor[a].now)' = LiveListings(actor[a].now)
      BY <1>2, <3>4 DEF LiveListings
    <3>6. Fresh(a)'
      BY <1>2, <1>3, <3>4, <3>5 DEF Fresh
    <3> QED
      BY <3>1, <3>3, <3>6
  <2>3. CASE ReadListing(a)
    <3> DEFINE r == a[1]
               row == listing[ListingOf[r]]
    <3>1. PICK p \in Planets :
            /\ Acceptable(a, p)
            /\ Goes(a, [pc |-> "write", planet |-> p, seen |-> <<row>>])
      BY <2>3 DEF ReadListing
    <3>2. Calm /\ a \in Handlers /\ r \in Requests
      BY <1>1, <2>3, HandlerType DEF ReadListing, CanBegin, BidderOf
    <3>3. row \in RowType
      BY <1>1, <3>1, TypeFacts DEF Acceptable
    <3> DEFINE s == HasRead(actor[a], p, row)
    <3>4. s \in ActorState /\ actor' = [actor EXCEPT ![a] = s]
      BY <1>1, <3>1, <3>3, ReadEffect
    <3>5. actor'[a].pc = "write" /\ actor'[a].now = actor[a].now /\ actor'[a].seen = <<row>>
      BY <1>1, <3>4, Becomes DEF HasRead
    <3>6. row.status = "active" /\ offer[r] > row.bid
      <4>1. row.bid \in Nat /\ offer[r] \in Nat \ {0}
        BY <1>1, <3>2, <3>3, TypeFacts DEF RowType
      <4>2. offer[r] >= MinNextBid(row) /\ row.status = "active"
        BY <3>1 DEF Acceptable
      <4> QED
        BY <4>1, <4>2, NextBidIsHigher
    <3>7. Fresh(a)'
      BY <1>2, <1>3, <3>5, <3>6 DEF Fresh
    <3> QED
      BY <3>2, <3>4, <3>7
  <2>5. CASE Goes(a, [pc |-> "finish", now |-> clock])
    <3>1. /\ Comes(actor[a], "finish", clock) \in ActorState
          /\ actor' = [actor EXCEPT ![a] = Comes(actor[a], "finish", clock)]
      BY <1>1, <1>3, <2>5, ComesEffect DEF Phases
    <3>2. /\ Comes(actor[a], "finish", clock).pc \notin {"complete", "write", "insert"}
          /\ Comes(actor[a], "finish", clock).now <= clock
      BY <1>3 DEF Comes
    <3>3. Moved(Comes(actor[a], "finish", clock))
      <4> HIDE DEF Moved
      <4> QED
        BY <1>3, <1>4, <3>1, <3>2
    <3> HIDE DEF Moved
    <3> QED
      BY <3>1, <3>3
  <2>6. CASE Goes(a, [pc |-> "done"])
    <3>1. /\ Comes(actor[a], "done", actor[a].now) \in ActorState
          /\ actor' = [actor EXCEPT ![a] = Comes(actor[a], "done", actor[a].now)]
      BY <1>1, <1>3, <2>6, ComesEffect DEF Phases
    <3>2. /\ Comes(actor[a], "done", actor[a].now).pc = "done"
          /\ Comes(actor[a], "done", actor[a].now).now = actor[a].now
      BY DEF Comes
    <3> QED
      BY <1>3, <1>4, <3>1, <3>2
  <2>7. CASE Fail(a) \/ Answer(a) \/ RejectBid(a)
    <3>1. PICK pc \in {"idle", "done"} :
            \/ Goes(a, Rest(pc))
            \/ actor' = [actor EXCEPT ![a] = Rest(pc)]
      BY <2>7 DEF Fail, Answer, RejectBid
    <3>2. Rest(pc) \in ActorState /\ actor' = [actor EXCEPT ![a] = Rest(pc)]
      BY <1>1, <3>1, RestEffect DEF Phases
    <3>3. /\ Rest(pc).pc \notin {"complete", "write", "insert"}
          /\ Rest(pc).now <= clock
      BY <1>3 DEF Rest
    <3>4. Moved(Rest(pc))
      <4> HIDE DEF Moved
      <4> QED
        BY <1>3, <1>4, <3>2, <3>3
    <3> HIDE DEF Moved
    <3> QED
      BY <3>2, <3>4
  <2> QED
    BY <2>1, <2>2, <2>3, <2>5, <2>6, <2>7 DEF OpenPage, Receive
<1>6. PICK s \in ActorState : Moved(s)
  BY <1>5
<1>7. OneWriter'
  BY <1>1, <1>6, OneWriterStays
<1>8. AllFresh'
  BY <1>1, <1>2, <1>6, AllFreshStays
<1>9. RowsInv'
  BY <1>1, <1>2, SameRowsInv
<1> QED
  BY <1>7, <1>8, <1>9 DEF HouseInv, RowsInv

(* What was read as due, listing by listing. *)
LEMMA DueRowsOf ==
    ASSUME NEW now
    PROVE  /\ \A l : (\E d \in DueRows(now) : d.id = l) <=> l \in DueListings(now)
           /\ \A l, player :
                (\E d \in DueRows(now) : d.id = l /\ d.bidder = player /\ d.bid > 0)
                  <=> l \in DueListings(now) /\ listing[l].bidder = player /\ listing[l].bid > 0
<1> DEFINE record(l) == [id |-> l, bidder |-> listing[l].bidder, bid |-> listing[l].bid]
<1>1. DueRows(now) = {record(l) : l \in DueListings(now)}
  BY DEF DueRows
<1>2. \A l : /\ record(l).id = l /\ record(l).bidder = listing[l].bidder
            /\ record(l).bid = listing[l].bid
  OBVIOUS
<1> HIDE DEF record
<1>3. \A d \in DueRows(now) :
        d.id \in DueListings(now) /\ d.bidder = listing[d.id].bidder /\ d.bid = listing[d.id].bid
  BY <1>1, <1>2
<1>4. \A l \in DueListings(now) :
        \E d \in DueRows(now) : d.id = l /\ d.bidder = listing[l].bidder /\ d.bid = listing[l].bid
  BY <1>1, <1>2
<1> QED
  BY <1>3, <1>4

(* Completing: each listing that was read as ended still is, so it gives its *)
(* box once.                                                                 *)
LEMMA GrantSafe ==
    ASSUME TypeInv, HouseInv, NEW a \in Actors, GrantAndComplete(a)
    PROVE  HouseInv'
<1> DEFINE due == actor[a].due
           now == actor[a].now
           pc == IF a \in Pages THEN "rotate" ELSE "bid"
           s == HasCompleted(actor[a], pc, clock)
<1>1. TypeOK /\ OneWriter /\ AllFresh /\ RowsInv /\ Fresh(a)
  BY DEF TypeInv, HouseInv, RowsInv, AllFresh
<1>2. /\ RowsGrow /\ Completed(due) /\ UNCHANGED bids
      /\ s \in ActorState /\ actor' = [actor EXCEPT ![a] = s]
  BY <1>1, GrantEffect
<1>3. actor[a].pc = "complete" /\ UNCHANGED <<clock, offer>> /\ due = DueRows(now)
  BY <1>1 DEF GrantAndComplete, Fresh
<1>4. s.pc \notin {"complete", "write", "insert"} /\ s.now <= clock
  BY <1>1, TypeFacts DEF HasCompleted
<1> HIDE DEF s
<1>5. clock \in Nat /\ Len(listing) \in Nat /\ DOMAIN listing = 1..Len(listing)
      /\ Len(listing') = Len(listing) /\ DOMAIN listing' = 1..Len(listing)
      /\ DOMAIN bids = 1..Len(listing)
  BY <1>1, <1>2, TypeFacts DEF Completed, RowsGrow
<1>6. OneWriter'
  BY <1>1, <1>2, <1>4, OneWriterStays
<1>7. AllFresh'
  <2>1. Fresh(a)'
    BY <1>1, <1>2, <1>3, <1>4, <1>5, Becomes DEF Fresh
  <2> QED
    BY <1>1, <1>2, <1>3, <2>1, AllFreshStays DEF InTransaction
<1>8. AllLed'
  <2>1. ASSUME NEW l \in 1..Len(listing) PROVE LedBy(l)'
    <3>1. LedBy(l) /\ bids'[l] = bids[l] /\ offer' = offer
      BY <1>1, <1>2, <1>3, <1>5 DEF RowsInv, AllLed
    <3>2. listing'[l].bid = listing[l].bid /\ listing'[l].bidder = listing[l].bidder
      BY <1>2 DEF Completed
    <3> QED
      BY <3>1, <3>2 DEF LedBy
  <2> QED
    BY <1>5, <2>1 DEF AllLed
<1>9. BoxForLeader'
  <2>1. ASSUME NEW l \in 1..Len(listing), NEW player \in Players
        PROVE  boxes'[l][player] =
                 IF listing'[l].status = "completed" /\ listing'[l].bidder = player THEN 1 ELSE 0
    <3>1. /\ boxes[l][player] =
               IF listing[l].status = "completed" /\ listing[l].bidder = player THEN 1 ELSE 0
          /\ listing[l].bidder \in Players => listing[l].bid > 0
      BY <1>1, <1>5 DEF RowsInv, BoxForLeader, AllLed, LedBy
    <3>2. /\ listing'[l].bidder = listing[l].bidder
          /\ listing'[l].status = IF \E d \in due : d.id = l THEN "completed" ELSE listing[l].status
          /\ boxes'[l][player] = boxes[l][player] +
               (IF \E d \in due : d.id = l /\ d.bidder = player /\ d.bid > 0 THEN 1 ELSE 0)
      BY <1>2 DEF Completed
    <3>3. (\E d \in due : d.id = l) <=> l \in DueListings(now)
      BY <1>3, DueRowsOf
    <3>4. (\E d \in due : d.id = l /\ d.bidder = player /\ d.bid > 0)
            <=> l \in DueListings(now) /\ listing[l].bidder = player /\ listing[l].bid > 0
      <4> HIDE DEF now, due
      <4> QED
        BY <1>3, DueRowsOf
    <3>5. CASE l \in DueListings(now)
      <4>1. listing[l].status = "active"
        BY <3>5 DEF DueListings
      <4>2. boxes[l][player] = 0 /\ listing'[l].status = "completed"
        BY <3>1, <3>2, <3>3, <3>5, <4>1
      <4> QED
        BY <3>1, <3>2, <3>4, <3>5, <4>2
    <3>6. CASE l \notin DueListings(now)
      <4>1. listing'[l].status = listing[l].status
        BY <3>2, <3>3, <3>6
      <4> QED
        BY <3>1, <3>2, <3>4, <3>6, <4>1
    <3> QED
      BY <3>5, <3>6
  <2> QED
    BY <1>5, <2>1 DEF BoxForLeader
<1>10. RequestBidsOnce'
  BY <1>1, <1>2 DEF RowsInv, RequestBidsOnce
<1>11. TargetKept'
  <2>1. LiveListings(clock)' \subseteq LiveListings(clock)
    BY <1>2, <1>3, <1>5 DEF LiveListings, Completed
  <2>2. IsFiniteSet(LiveListings(clock)) /\ Cardinality(LiveListings(clock)) \in Nat
    BY <1>1, <1>5, DueAndLive
  <2>3. /\ Cardinality(LiveListings(clock)') <= Cardinality(LiveListings(clock))
        /\ Cardinality(LiveListings(clock)') \in Nat
    BY <2>1, <2>2, FS_Subset, FS_CardinalityType
  <2>4. Cardinality(LiveListings(clock)) <= ActiveTarget /\ ActiveTarget \in Nat
    BY <1>1, AuctionAssumption DEF RowsInv, TargetKept
  <2> QED
    BY <2>2, <2>3, <2>4 DEF TargetKept
<1> QED
  BY <1>6, <1>7, <1>8, <1>9, <1>10, <1>11 DEF HouseInv

(* A rotation: what it counted is still live, and no more is live now than   *)
(* was when it looked at the clock.                                          *)
LEMMA InsertSafe ==
    ASSUME TypeInv, HouseInv, NEW a \in Actors, InsertListings(a)
    PROVE  HouseInv'
<1> DEFINE now == actor[a].now
           live == actor[a].live
           need == Missing(live)
           s == Rest("idle")
<1>1. TypeOK /\ OneWriter /\ AllFresh /\ RowsInv /\ Fresh(a)
  BY DEF TypeInv, HouseInv, RowsInv, AllFresh
<1>2. RowsGrow /\ Added(a) /\ s \in ActorState /\ actor' = [actor EXCEPT ![a] = s]
  BY <1>1, InsertEffect
<1>3. /\ actor[a].pc = "insert" /\ UNCHANGED <<clock, offer>>
      /\ live = Cardinality(LiveListings(now)) /\ now <= clock
  BY <1>1 DEF InsertListings, Fresh
<1>4. s.pc \notin {"complete", "write", "insert"} /\ s.now <= clock
  BY <1>1, TypeFacts DEF Rest
<1> HIDE DEF s
<1>5. /\ clock \in Nat /\ Len(listing) \in Nat /\ DOMAIN listing = 1..Len(listing)
      /\ DOMAIN bids = 1..Len(listing) /\ now \in Nat /\ live \in Nat
  <2>1. actor[a] \in ActorState
    BY <1>1, TypeFacts
  <2> QED
    BY <1>1, <2>1, TypeFacts DEF ActorState
<1>6. /\ need \in Nat /\ Len(listing') = Len(listing) + need
      /\ DOMAIN listing' = 1..Len(listing) + need /\ DOMAIN bids' = 1..Len(listing) + need
  <2>1. need \in Nat /\ Len(listing') = Len(listing) + need
    BY <1>2 DEF Added
  <2>2. DOMAIN listing' = 1..Len(listing')
    BY <1>2 DEF RowsGrow
  <2>3. DOMAIN bids' = 1..Len(listing')
    BY <1>2 DEF RowsGrow
  <2> QED
    BY <2>1, <2>2, <2>3
<1>7. /\ \A l \in 1..Len(listing) :
           listing'[l] = listing[l] /\ bids'[l] = bids[l] /\ boxes'[l] = boxes[l]
      /\ \A l \in Len(listing) + 1..Len(listing) + need :
           /\ listing'[l].status = "active" /\ listing'[l].bid = 0 /\ listing'[l].bidder = NoOne
           /\ bids'[l] = {}
           /\ \A player \in Players : boxes'[l][player] = 0
  BY <1>2 DEF Added
<1>8. 1..Len(listing) + need = 1..Len(listing) \cup Len(listing) + 1..Len(listing) + need
  BY <1>5, <1>6
<1> HIDE DEF need
<1>9. OneWriter'
  BY <1>1, <1>2, <1>4, OneWriterStays
<1>10. AllFresh'
  <2>1. Fresh(a)'
    BY <1>1, <1>2, <1>3, <1>4, Becomes DEF Fresh
  <2> QED
    BY <1>1, <1>2, <1>3, <2>1, AllFreshStays DEF InTransaction
<1>11. AllLed'
  <2>1. ASSUME NEW l \in 1..Len(listing) PROVE LedBy(l)'
    BY <1>1, <1>3, <1>5, <1>7 DEF RowsInv, AllLed, LedBy
  <2>2. ASSUME NEW l \in Len(listing) + 1..Len(listing) + need PROVE LedBy(l)'
    BY <1>7, AuctionAssumption DEF LedBy
  <2> QED
    BY <1>6, <1>8, <2>1, <2>2 DEF AllLed
<1>12. BoxForLeader'
  <2> DEFINE Right(l) == \A player \in Players :
                boxes'[l][player] =
                  IF listing'[l].status = "completed" /\ listing'[l].bidder = player THEN 1 ELSE 0
  <2>1. ASSUME NEW l \in 1..Len(listing) PROVE Right(l)
    BY <1>1, <1>5, <1>7 DEF RowsInv, BoxForLeader
  <2>2. ASSUME NEW l \in Len(listing) + 1..Len(listing) + need PROVE Right(l)
    BY <1>7
  <2> QED
    BY <1>6, <1>8, <2>1, <2>2 DEF BoxForLeader
<1>13. RequestBidsOnce'
  <2> DEFINE Once(l) == \A b, c \in bids'[l] : b.copy[1] = c.copy[1] => b = c
  <2>1. ASSUME NEW l \in 1..Len(listing) PROVE Once(l)
    BY <1>1, <1>5, <1>7 DEF RowsInv, RequestBidsOnce
  <2>2. ASSUME NEW l \in Len(listing) + 1..Len(listing) + need PROVE Once(l)
    BY <1>7
  <2> QED
    BY <1>6, <1>8, <2>1, <2>2 DEF RequestBidsOnce
<1>14. TargetKept'
  <2> DEFINE before == LiveListings(clock)
             after == LiveListings(clock)'
             new == Len(listing) + 1..Len(listing) + need
  <2>1. /\ IsFiniteSet(LiveListings(now)) /\ Cardinality(LiveListings(now)) = live
        /\ IsFiniteSet(before) /\ Cardinality(before) <= ActiveTarget
    BY <1>1, <1>3, <1>5, DueAndLive DEF RowsInv, TargetKept
  <2>2. before \subseteq LiveListings(now)
    <3>1. ASSUME NEW l \in DOMAIN listing PROVE listing[l].ends \in Nat
      <4>1. listing[l] \in RowType
        BY <1>1, <1>5, TypeFacts
      <4> QED
        BY <4>1 DEF RowType
    <3> QED
      BY <1>3, <1>5, <3>1 DEF LiveListings
  <2>3. after \subseteq before \cup new
    BY <1>3, <1>5, <1>6, <1>7, <1>8 DEF LiveListings
  <2>4. IsFiniteSet(new) /\ Cardinality(new) = need
    BY <1>5, <1>6, FS_Interval
  <2>5. ActiveTarget \in Nat
    BY AuctionAssumption
  <2>6. CASE live >= ActiveTarget
    <3>1. need = 0
      BY <1>5, <2>5, <2>6 DEF Missing, need
    <3>2. new = {}
      BY <1>5, <3>1
    <3>3. after \subseteq before
      BY <2>3, <3>2
    <3>4. Cardinality(after) <= Cardinality(before) /\ IsFiniteSet(after)
      BY <2>1, <3>3, FS_Subset
    <3>5. Cardinality(after) \in Nat /\ Cardinality(before) \in Nat
      BY <2>1, <3>4, FS_CardinalityType
    <3> QED
      BY <2>1, <2>5, <3>4, <3>5 DEF TargetKept
  <2>7. CASE live < ActiveTarget
    <3>1. need = ActiveTarget - live
      BY <2>7 DEF Missing, need
    <3> DEFINE all == LiveListings(now) \cup new
    <3>2. IsFiniteSet(all) /\ after \subseteq all
          /\ Cardinality(all) = live + need - Cardinality(LiveListings(now) \cap new)
      BY <2>1, <2>2, <2>3, <2>4, FS_Union
    <3>3. Cardinality(LiveListings(now) \cap new) \in Nat
      BY <2>1, FS_Intersection, FS_CardinalityType
    <3>4. IsFiniteSet(after) /\ Cardinality(after) <= Cardinality(all)
      BY <3>2, FS_Subset
    <3>5. Cardinality(after) \in Nat
      BY <3>4, FS_CardinalityType
    <3>6. Cardinality(after) <= ActiveTarget
      <4> HIDE DEF after, all, new
      <4> QED
        BY <1>5, <2>5, <3>1, <3>2, <3>3, <3>4, <3>5
    <3> QED
      BY <3>6 DEF TargetKept
  <2> QED
    BY <1>5, <2>5, <2>6, <2>7
<1> QED
  BY <1>9, <1>10, <1>11, <1>12, <1>13, <1>14 DEF HouseInv

(* A bid: it tops the bid that leads, so its request has not bid before.     *)
LEMMA WriteSafe ==
    ASSUME TypeInv, HouseInv, NEW a \in Actors, WriteBid(a)
    PROVE  HouseInv'
<1> DEFINE r == a[1]
           l == ListingOf[r]
           new == NewBid(a)
           s == Rest("answer")
<1>1. TypeOK /\ OneWriter /\ AllFresh /\ RowsInv /\ Fresh(a)
  BY DEF TypeInv, HouseInv, RowsInv, AllFresh
<1>2. /\ a \in Handlers /\ l \in 1..Len(listing) /\ new \in BidType
      /\ RowsGrow /\ Len(listing') = Len(listing) /\ boxes' = boxes
      /\ listing'[l].status = listing[l].status /\ listing'[l].ends = listing[l].ends
      /\ listing'[l].bid = offer[r] /\ listing'[l].bidder = SenderOf[r]
      /\ Taken(bids[l], new, bids'[l])
      /\ \A k \in 1..Len(listing) : k # l => listing'[k] = listing[k] /\ bids'[k] = bids[k]
  BY WriteEffect
<1>3. actor[a].pc = "write" /\ UNCHANGED <<clock, offer>>
  BY DEF WriteBid
<1>4. listing[l].status = "active" /\ offer[r] > listing[l].bid
  BY <1>1, <1>3 DEF Fresh
<1>5. s \in ActorState /\ actor' = [actor EXCEPT ![a] = s]
  BY <1>1, RestEffect DEF Phases, WriteBid
<1>6. s.pc \notin {"complete", "write", "insert"} /\ s.now <= clock
  BY <1>1, TypeFacts DEF Rest
<1> HIDE DEF s
<1>7. /\ Len(listing) \in Nat /\ DOMAIN listing = 1..Len(listing)
      /\ DOMAIN listing' = 1..Len(listing) /\ DOMAIN bids = 1..Len(listing)
      /\ DOMAIN bids' = 1..Len(listing)
  BY <1>1, <1>2, TypeFacts DEF RowsGrow
<1>8. /\ r \in Requests /\ offer[r] \in Nat /\ offer[r] > 0
      /\ listing[l].bid \in Nat /\ bids[l] \in SUBSET BidType
  <2>1. r \in Requests
    BY <1>2, HandlerType
  <2>2. offer[r] \in Nat \ {0} /\ listing[l] \in RowType /\ bids[l] \in SUBSET BidType
    BY <1>1, <1>2, <2>1, TypeFacts
  <2> QED
    BY <2>1, <2>2 DEF RowType
<1>9. /\ new.player = SenderOf[r] /\ new.amount = offer[r] /\ new.copy = a /\ ~new.refunded
      /\ new.copy[1] = r
  BY DEF NewBid
<1>10. LedBy(l)
  BY <1>1, <1>2, <1>7 DEF RowsInv, AllLed
\* The bids of the listing after it: the new one, and lower ones of other requests.
<1>11. /\ new \in bids'[l]
       /\ \A b \in bids'[l] : b = new \/ \E old \in bids[l] : SameBid(b, old)
       /\ \A b, c \in bids'[l] : b.copy[1] = c.copy[1] => b = c
  <2>1. \A b \in bids[l] : b.copy[1] # r
    <3>1. ASSUME NEW b \in bids[l], b.copy[1] = r PROVE FALSE
      <4>1. b.amount = offer[r] /\ b.amount <= listing[l].bid
        BY <1>10, <3>1 DEF LedBy
      <4> QED
        BY <1>4, <1>8, <4>1
    <3> QED
      BY <3>1
  <2>2. \A b, c \in bids[l] : b.copy[1] = c.copy[1] => b = c
    BY <1>1, <1>2, <1>7 DEF RowsInv, RequestBidsOnce
  <2>3. CASE bids'[l] = bids[l] \cup {new}
    BY <1>9, <2>1, <2>2, <2>3 DEF SameBid
  <2>4. CASE \E b \in bids[l], m \in BidType :
               SameBid(m, b) /\ bids'[l] = (bids[l] \ {b}) \cup {m, new}
    <3>1. PICK b \in bids[l], m \in BidType :
            SameBid(m, b) /\ bids'[l] = (bids[l] \ {b}) \cup {m, new}
      BY <2>4
    <3>2. m.copy = b.copy
      BY <3>1 DEF SameBid
    <3>3. \A c \in bids'[l] : c = new \/ \E old \in bids[l] : SameBid(c, old)
      BY <3>1 DEF SameBid
    <3>4. \A c, d \in bids'[l] : c.copy[1] = d.copy[1] => c = d
      BY <1>9, <2>1, <2>2, <3>1, <3>2
    <3> QED
      BY <3>1, <3>3, <3>4
  <2> QED
    BY <1>2, <2>3, <2>4 DEF Taken
<1>12. \A b \in bids'[l] : b # new =>
          /\ b.amount = offer[b.copy[1]]
          /\ b.amount < offer[r] /\ b.amount <= offer[r]
  <2>1. ASSUME NEW b \in bids'[l], b # new
        PROVE  /\ b.amount = offer[b.copy[1]]
               /\ b.amount < offer[r] /\ b.amount <= offer[r]
    <3>1. PICK old \in bids[l] : SameBid(b, old)
      BY <1>11, <2>1
    <3>2. old.amount = offer[old.copy[1]] /\ old.amount <= listing[l].bid /\ old.amount \in Nat
      BY <1>8, <1>10 DEF LedBy, BidType
    <3> QED
      BY <1>4, <1>8, <3>1, <3>2 DEF SameBid
  <2> QED
    BY <2>1
<1>13. LedBy(l)'
  <2>1. listing'[l].bid > 0
    BY <1>2, <1>8
  <2>2. \A b \in bids'[l] : b.amount = offer'[b.copy[1]] /\ b.amount <= listing'[l].bid
    BY <1>2, <1>3, <1>8, <1>9, <1>12
  <2>3. /\ new \in bids'[l]
        /\ new.player = listing'[l].bidder /\ new.amount = listing'[l].bid /\ ~new.refunded
        /\ \A c \in bids'[l] \ {new} : c.amount < new.amount
    BY <1>2, <1>9, <1>11, <1>12
  <2> HIDE DEF new
  <2> QED
    BY <2>1, <2>2, <2>3 DEF LedBy
<1> HIDE DEF new
<1>14. OneWriter'
  BY <1>1, <1>5, <1>6, OneWriterStays
<1>15. AllFresh'
  <2>1. Fresh(a)'
    BY <1>1, <1>3, <1>5, <1>6, Becomes DEF Fresh
  <2> QED
    BY <1>1, <1>3, <1>5, <2>1, AllFreshStays DEF InTransaction
<1>16. AllLed'
  <2>1. ASSUME NEW k \in 1..Len(listing), k # l PROVE LedBy(k)'
    <3>1. LedBy(k)
      BY <1>1, <1>7 DEF RowsInv, AllLed
    <3> QED
      BY <1>2, <1>3, <2>1, <3>1 DEF LedBy
  <2> QED
    BY <1>7, <1>13, <2>1 DEF AllLed
<1>17. BoxForLeader'
  <2>1. ASSUME NEW k \in 1..Len(listing), NEW player \in Players
        PROVE  boxes'[k][player] =
                 IF listing'[k].status = "completed" /\ listing'[k].bidder = player THEN 1 ELSE 0
    <3>1. boxes[k][player] =
            IF listing[k].status = "completed" /\ listing[k].bidder = player THEN 1 ELSE 0
      BY <1>1, <1>7 DEF RowsInv, BoxForLeader
    <3> QED
      BY <1>2, <1>4, <3>1
  <2> QED
    BY <1>7, <2>1 DEF BoxForLeader
<1>18. RequestBidsOnce'
  <2>1. ASSUME NEW k \in 1..Len(listing)
        PROVE  \A b, c \in bids'[k] : b.copy[1] = c.copy[1] => b = c
    <3>1. \A b, c \in bids[k] : b.copy[1] = c.copy[1] => b = c
      BY <1>1, <1>7 DEF RowsInv, RequestBidsOnce
    <3> QED
      BY <1>2, <1>11, <3>1
  <2> QED
    BY <1>7, <2>1 DEF RequestBidsOnce
<1>19. TargetKept'
  <2>1. LiveListings(clock)' = LiveListings(clock)
    BY <1>2, <1>3, <1>7 DEF LiveListings
  <2> QED
    BY <1>1, <2>1 DEF RowsInv, TargetKept
<1> QED
  BY <1>14, <1>15, <1>16, <1>17, <1>18, <1>19 DEF HouseInv

(* The invariant holds at the start. *)
LEMMA InitSafe == Init => HouseInv
<1> SUFFICES ASSUME Init PROVE HouseInv
  OBVIOUS
<1>1. \A a \in Actors : actor[a].pc = "idle" /\ actor[a].now <= clock
  BY DEF Init, Rest
<1>2. OneWriter /\ AllFresh
  BY <1>1 DEF Init, OneWriter, InTransaction, AllFresh, Fresh
<1>3. LiveListings(clock) = {}
  BY DEF Init, LiveListings
<1>4. TargetKept
  BY <1>3, FS_EmptySet, AuctionAssumption DEF TargetKept
<1> QED
  BY <1>2, <1>4 DEF Init, HouseInv, AllLed, BoxForLeader, RequestBidsOnce

(* Every step keeps the invariant, on SQLite. *)
LEMMA StepSafe ==
    ASSUME ~Postgres
    PROVE  TypeInv /\ HouseInv /\ [Next]_vars => HouseInv'
<1> SUFFICES ASSUME TypeInv, HouseInv, [Next]_vars PROVE HouseInv'
  OBVIOUS
<1>1. TypeOK /\ OneWriter /\ AllFresh /\ RowsInv
  BY DEF TypeInv, HouseInv, RowsInv
<1>2. ASSUME NEW a \in Actors, Step(a) \/ Fail(a) PROVE HouseInv'
  BY <1>2, ReadsSafe, GrantSafe, InsertSafe, WriteSafe DEF Step
<1>3. CASE Tick
  <2>1. clock' = clock + 1 /\ clock \in Nat /\ UNCHANGED <<money, listing, bids, boxes, offer, actor>>
    BY <1>1, <1>3, TypeFacts DEF Tick, Rows
  <2>2. OneWriter'
    BY <1>1, <2>1 DEF OneWriter, InTransaction
  <2>3. AllFresh'
    <3>1. ASSUME NEW b \in Actors PROVE Fresh(b)'
      <4>1. actor[b] \in ActorState /\ Fresh(b)
        BY <1>1, TypeFacts DEF AllFresh
      <4>2. actor[b].now \in Nat
        BY <4>1 DEF ActorState
      <4>3. DueRows(actor[b].now)' = DueRows(actor[b].now)
        BY <2>1 DEF DueRows, DueListings
      <4>4. LiveListings(actor[b].now)' = LiveListings(actor[b].now)
        BY <2>1 DEF LiveListings
      <4> QED
        BY <2>1, <4>1, <4>2, <4>3, <4>4 DEF Fresh
    <3> QED
      BY <3>1 DEF AllFresh
  <2>4. AllLed' /\ BoxForLeader' /\ RequestBidsOnce'
    BY <1>1, <2>1 DEF RowsInv, AllLed, LedBy, BoxForLeader, RequestBidsOnce
  <2>5. TargetKept'
    <3>1. \A l \in DOMAIN listing : listing[l].ends \in Nat
      <4>1. ASSUME NEW l \in DOMAIN listing PROVE listing[l] \in RowType
        BY <1>1, TypeFacts
      <4> QED
        BY <4>1 DEF RowType
    <3>2. LiveListings(clock)' \subseteq LiveListings(clock)
      BY <2>1, <3>1 DEF LiveListings
    <3>3. IsFiniteSet(LiveListings(clock)) /\ Cardinality(LiveListings(clock)) \in Nat
      BY <1>1, <2>1, DueAndLive
    <3>4. /\ Cardinality(LiveListings(clock)') <= Cardinality(LiveListings(clock))
          /\ Cardinality(LiveListings(clock)') \in Nat
      BY <3>2, <3>3, FS_Subset, FS_CardinalityType
    <3>5. Cardinality(LiveListings(clock)) <= ActiveTarget /\ ActiveTarget \in Nat
      BY <1>1, AuctionAssumption DEF RowsInv, TargetKept
    <3>6. Cardinality(LiveListings(clock)') <= ActiveTarget
      BY <3>3, <3>4, <3>5
    <3> QED
      BY <3>6 DEF TargetKept
  <2> QED
    BY <2>2, <2>3, <2>4, <2>5 DEF HouseInv
<1>4. CASE UNCHANGED vars
  <2>1. RowsInv'
    BY <1>1, <1>4, SameRowsInv DEF vars
  <2>2. OneWriter'
    BY <1>1, <1>4 DEF vars, OneWriter, InTransaction
  <2>3. AllFresh'
    BY <1>1, <1>4 DEF vars, AllFresh, Fresh, DueRows, DueListings, LiveListings
  <2> QED
    BY <2>1, <2>2, <2>3 DEF HouseInv, RowsInv
<1> QED
  BY <1>2, <1>3, <1>4 DEF Next

(* The inductive invariant holds in every reachable state, on SQLite. *)
LEMMA HouseInvariant ==
    ASSUME ~Postgres
    PROVE  Spec => [](TypeInv /\ HouseInv)
<1>1. Init => TypeInv /\ HouseInv
  BY InitType, InitSafe
<1>2. (TypeInv /\ HouseInv) /\ [Next]_vars => (TypeInv /\ HouseInv)'
  BY StepType, StepSafe
<1> QED
  BY <1>1, <1>2, PTL DEF Spec

(* A completed listing has given one box, to its leader, on SQLite, however  *)
(* many pages and bids complete it at once.                                  *)
THEOREM SqliteBoxForLeader ==
    ASSUME ~Postgres
    PROVE  Spec => []BoxForLeader
<1>1. HouseInv => BoxForLeader
  BY DEF HouseInv
<1> QED
  BY <1>1, HouseInvariant, PTL

(* The leader of a listing is who placed the highest bid that was taken, and *)
(* that bid is not refunded, on SQLite.                                      *)
THEOREM SqliteHighestBidLeads ==
    ASSUME ~Postgres
    PROVE  Spec => []HighestBidLeads
<1>1. HouseInv => HighestBidLeads
  BY DEF HouseInv, AllLed, LedBy, HighestBidLeads
<1> QED
  BY <1>1, HouseInvariant, PTL

(* A request bids once, however often it is sent, on SQLite.                 *)
THEOREM SqliteRequestBidsOnce ==
    ASSUME ~Postgres
    PROVE  Spec => []RequestBidsOnce
<1>1. HouseInv => RequestBidsOnce
  BY DEF HouseInv
<1> QED
  BY <1>1, HouseInvariant, PTL

(* There are never more live listings than the target, on SQLite.            *)
THEOREM SqliteTargetKept ==
    ASSUME ~Postgres
    PROVE  Spec => []TargetKept
<1>1. HouseInv => TargetKept
  BY DEF HouseInv
<1> QED
  BY <1>1, HouseInvariant, PTL

-----------------------------------------------------------------------------
(* The stakes: what a player has paid is what the listings he leads hold.    *)

OwnPlanets(player) == {p \in Planets : OwnerOf[p] = player}

Led(player) == {l \in DOMAIN listing : listing[l].bidder = player}

Stakes(player) == [l \in Led(player) |-> listing[l].bid]

(* Who pays and who is paid back: the sender from a planet of his, the leader *)
(* on a planet of his.                                                       *)
OwnMoney ==
    /\ \A a \in Actors : actor[a].pc = "write" => OwnerOf[actor[a].planet] = SenderOf[a[1]]
    /\ \A l \in DOMAIN listing : listing[l].bidder \in Players =>
         listing[l].planet \in OwnPlanets(listing[l].bidder)

StakesInv == OwnMoney /\ StakesConserved

(* What is summed is integral, over finitely many planets and listings. *)
LEMMA Summable ==
    ASSUME TypeOK, NEW player
    PROVE  /\ Integral(OwnPlanets(player), money) /\ Integral(OwnPlanets(player), Funds)
           /\ Integral(Led(player), Stakes(player))
<1>1. IsFiniteSet(OwnPlanets(player))
  BY AuctionAssumption, FS_Subset DEF OwnPlanets
<1>2. \A p \in OwnPlanets(player) : money[p] \in Int /\ Funds[p] \in Int
  BY TypeFacts, AuctionAssumption DEF OwnPlanets
<1>3. IsFiniteSet(Led(player))
  <2>1. IsFiniteSet(1..Len(listing)) /\ Led(player) \subseteq 1..Len(listing)
    BY TypeFacts, FS_Interval DEF Led
  <2> QED
    BY <2>1, FS_Subset
<1>4. ASSUME NEW l \in Led(player) PROVE Stakes(player)[l] \in Int
  <2>1. listing[l] \in RowType
    BY TypeFacts DEF Led
  <2> QED
    BY <2>1 DEF Stakes, RowType
<1> QED
  BY <1>1, <1>2, <1>3, <1>4 DEF Integral

(* The property, in the words of the sums. *)
Balance(player) ==
    SumOf(OwnPlanets(player), money) + SumOf(Led(player), Stakes(player))
        = SumOf(OwnPlanets(player), Funds)

(* Stakes are conserved when every player's books balance. *)
LEMMA BalanceOf == StakesConserved <=> \A player \in Players : Balance(player)
  BY DEF StakesConserved, Balance, SumOver, SumOf, OwnPlanets, Led, Stakes

(* The same after a step, for the prover does not prime an equivalence. *)
LEMMA BalanceAfter == StakesConserved' <=> \A player \in Players : Balance(player)'
  BY DEF StakesConserved, Balance, SumOver, SumOf, OwnPlanets, Led, Stakes

(* Steps that neither pay nor change who leads. *)
LEMMA StakesStay ==
    ASSUME TypeOK, StakesConserved, money' = money,
           \A l \in DOMAIN listing :
             /\ l \in DOMAIN listing'
             /\ listing'[l].bidder = listing[l].bidder /\ listing'[l].bid = listing[l].bid,
           \A l \in DOMAIN listing' : l \notin DOMAIN listing => listing'[l].bidder = NoOne
    PROVE  StakesConserved'
<1>1. ASSUME NEW player \in Players PROVE Balance(player)'
  <2>1. Balance(player)
    BY <1>1, BalanceOf
  <2>2. Led(player)' = Led(player)
    BY <1>1, AuctionAssumption DEF Led
  <2>3. \A l \in Led(player) : Stakes(player)'[l] = Stakes(player)[l]
    BY <2>2 DEF Stakes, Led
  <2>4. SumOf(Led(player), Stakes(player)') = SumOf(Led(player), Stakes(player))
    BY <2>3, Summable, SumSame
  <2>5. OwnPlanets(player)' = OwnPlanets(player)
    BY DEF OwnPlanets
  <2> QED
    BY <2>1, <2>2, <2>4, <2>5 DEF Balance
<1> QED
  BY <1>1, BalanceAfter

(* What a bid moves: the bidder pays the amount, who leads gets his bid back *)
(* (the bidder himself, as the part he need not pay again, at the planet he  *)
(* bids from).                                                               *)
LEMMA PaymentOf ==
    ASSUME ~Postgres, TypeInv, HouseInv, OwnMoney, NEW a \in Actors, WriteBid(a)
    PROVE  LET l == ListingOf[a[1]]
               player == SenderOf[a[1]]
               row == listing[l]
               p == actor[a].planet
               amount == offer[a[1]] IN
           /\ l \in DOMAIN listing /\ row \in RowType /\ amount \in Nat /\ player \in Players
           /\ p \in OwnPlanets(player)
           /\ row.bidder \in Players => row.planet \in OwnPlanets(row.bidder)
           /\ \A q \in Planets : money'[q] =
                IF q = p THEN IF row.bidder = player THEN money[q] + (row.bid - amount)
                                                     ELSE money[q] + (0 - amount)
                ELSE IF row.bidder \in Players \ {player} /\ q = row.planet
                     THEN money[q] + row.bid ELSE money[q]
<1> DEFINE r == a[1]
           l == ListingOf[r]
           player == SenderOf[r]
           seen == actor[a].seen[1]
           p == actor[a].planet
           outbid == seen.bidder # NoOne /\ seen.bid > 0 /\ ~Raises(player, seen)
           charge == Charge(player, seen, offer[r])
           row == listing[l]
<1>1. TypeOK /\ BidderOf(a) /\ Fresh(a) /\ AllLed /\ actor[a].pc = "write"
  BY DEF TypeInv, Bidders, HouseInv, AllFresh, WriteBid
<1>2. a \in Handlers /\ p \in Planets /\ l \in DOMAIN listing /\ actor[a].seen = <<row>>
  BY <1>1 DEF BidderOf, Fresh
<1>3. r \in Requests /\ player \in Players /\ seen = row
  BY <1>2, HandlerType
<1>4. row \in RowType /\ offer[r] \in Nat
  BY <1>1, <1>2, <1>3, TypeFacts
<1>5. p \in OwnPlanets(player) /\ (row.bidder \in Players => row.planet \in OwnPlanets(row.bidder))
  BY <1>1, <1>2 DEF OwnMoney, OwnPlanets
<1>6. row.bidder \in Players => row.bid > 0
  BY <1>1, <1>2 DEF AllLed, LedBy
<1>7. money' = [q \in Planets |->
                  money[q] - (IF q = p THEN charge ELSE 0)
                           + (IF outbid /\ q = seen.planet THEN seen.bid ELSE 0)]
  BY DEF WriteBid
<1>8. charge = IF row.bidder = player THEN offer[r] - row.bid ELSE offer[r]
  BY <1>3, <1>6 DEF Charge, Raises
<1>9. outbid <=> row.bidder \in Players \ {player}
  BY <1>3, <1>4, <1>6, AuctionAssumption DEF Raises, RowType
<1>10. outbid => row.planet # p
  BY <1>5, <1>9 DEF OwnPlanets
<1>11. row.bid \in Nat
  BY <1>4 DEF RowType
<1> HIDE DEF charge, outbid, row, p, player, seen
<1>12. ASSUME NEW q \in Planets
       PROVE  money'[q] =
                IF q = p THEN IF row.bidder = player THEN money[q] + (row.bid - offer[r])
                                                     ELSE money[q] + (0 - offer[r])
                ELSE IF row.bidder \in Players \ {player} /\ q = row.planet
                     THEN money[q] + row.bid ELSE money[q]
  <2>1. money[q] \in Nat
    BY <1>1, TypeFacts
  <2>2. money'[q] = money[q] - (IF q = p THEN charge ELSE 0)
                             + (IF outbid /\ q = row.planet THEN row.bid ELSE 0)
    BY <1>3, <1>7
  <2>3. CASE q = p
    <3>1. money'[q] = money[q] - charge
      BY <1>4, <1>8, <1>10, <1>11, <2>1, <2>2, <2>3
    <3> QED
      BY <1>4, <1>8, <1>11, <2>1, <2>3, <3>1
  <2>4. CASE q # p
    BY <1>9, <1>11, <2>1, <2>2, <2>4
  <2> QED
    BY <2>3, <2>4
<1> QED
  BY <1>2, <1>3, <1>4, <1>5, <1>12 DEF row, p, player

(* A bid keeps the balance of every player. *)
LEMMA WriteStakes ==
    ASSUME ~Postgres, TypeInv, HouseInv, StakesInv, NEW a \in Actors, WriteBid(a)
    PROVE  StakesConserved'
<1> DEFINE l == ListingOf[a[1]]
           player == SenderOf[a[1]]
           row == listing[l]
           p == actor[a].planet
           amount == offer[a[1]]
<1>1. TypeOK /\ OwnMoney /\ StakesConserved
  BY DEF TypeInv, StakesInv
<1>2. /\ l \in DOMAIN listing /\ row \in RowType /\ amount \in Nat /\ player \in Players
      /\ p \in OwnPlanets(player)
      /\ row.bidder \in Players => row.planet \in OwnPlanets(row.bidder)
      /\ \A q \in Planets : money'[q] =
           IF q = p THEN IF row.bidder = player THEN money[q] + (row.bid - amount)
                                                ELSE money[q] + (0 - amount)
           ELSE IF row.bidder \in Players \ {player} /\ q = row.planet
                THEN money[q] + row.bid ELSE money[q]
  BY <1>1, PaymentOf
<1>3. /\ listing'[l].bid = amount /\ listing'[l].bidder = player
      /\ DOMAIN listing' = DOMAIN listing
      /\ \A k \in DOMAIN listing : k # l => listing'[k] = listing[k]
  <2>1. /\ listing'[l].bid = amount /\ listing'[l].bidder = player
        /\ RowsGrow /\ Len(listing') = Len(listing)
        /\ \A k \in 1..Len(listing) : k # l => listing'[k] = listing[k]
    BY WriteEffect
  <2>2. DOMAIN listing = 1..Len(listing) /\ DOMAIN listing' = 1..Len(listing')
    BY <1>1, <2>1, TypeFacts DEF RowsGrow
  <2> QED
    BY <2>1, <2>2
<1>4. row.bid \in Nat
  BY <1>2 DEF RowType
<1>5. row = listing[l]
  OBVIOUS
<1> HIDE DEF l, player, row, p, amount
<1>6. ASSUME NEW who \in Players PROVE Balance(who)'
  <2> DEFINE own == OwnPlanets(who)
             led == Led(who)
             stakes == Stakes(who)
  <2>1. /\ Integral(own, money) /\ Integral(led, stakes)
        /\ SumOf(own, money) \in Int /\ SumOf(led, stakes) \in Int /\ SumOf(own, Funds) \in Int
    BY <1>1, Summable, SumType
  <2>2. own \subseteq Planets /\ own' = own /\ \A q \in own : money[q] \in Int
    <3>1. \A q \in Planets : money[q] \in Int
      BY <1>1, TypeFacts
    <3> QED
      BY <3>1 DEF OwnPlanets
  <2>3. /\ stakes = [k \in led |-> listing[k].bid] /\ stakes' = [k \in led' |-> listing'[k].bid]
        /\ led = {k \in DOMAIN listing : listing[k].bidder = who}
        /\ led' = {k \in DOMAIN listing : listing'[k].bidder = who}
    BY <1>3 DEF Stakes, Led
  <2>4. Balance(who)
    BY <1>1, BalanceOf
  <2>5. SumOf(own, money) + SumOf(led, stakes) = SumOf(own, Funds)
    BY <2>4 DEF Balance
  <2>6. SumOf(own, money') + SumOf(led', stakes') = SumOf(own, Funds) => Balance(who)'
    BY <2>2 DEF Balance
  <2>7. \A q, c : q \in OwnPlanets(c) => OwnerOf[q] = c /\ q \in Planets
    BY DEF OwnPlanets
  <2> HIDE DEF own, led, stakes
  <2>8. CASE who = player /\ row.bidder = player
    <3>1. p \in own /\ money'[p] = money[p] + (row.bid - amount)
          /\ \A q \in own \ {p} : money'[q] = money[q]
      BY <1>2, <2>2, <2>8 DEF own
    <3>2. SumOf(own, money') = SumOf(own, money) + (row.bid - amount)
      BY <1>2, <1>4, <2>1, <3>1, SumAfter
    <3>3. led' = led /\ l \in led
      BY <1>2, <1>3, <1>5, <2>3, <2>8
    <3>4. stakes'[l] = stakes[l] + (amount - row.bid)
          /\ \A k \in led \ {l} : stakes'[k] = stakes[k]
      BY <1>2, <1>3, <1>4, <1>5, <2>3, <3>3
    <3>5. SumOf(led, stakes') = SumOf(led, stakes) + (amount - row.bid)
      BY <1>2, <1>4, <2>1, <3>3, <3>4, SumAfter
    <3> QED
      BY <1>2, <1>4, <2>1, <2>5, <2>6, <3>2, <3>3, <3>5
  <2>9. CASE who = player /\ row.bidder # player
    <3>1. p \in own /\ money'[p] = money[p] + (0 - amount)
          /\ \A q \in own \ {p} : money'[q] = money[q]
      BY <1>2, <2>2, <2>7, <2>9 DEF own
    <3>2. SumOf(own, money') = SumOf(own, money) + (0 - amount)
      BY <1>2, <2>1, <3>1, SumAfter
    <3>3. led' = led \cup {l} /\ l \notin led
      BY <1>2, <1>3, <1>5, <2>3, <2>9
    <3>4. stakes'[l] = amount /\ \A k \in led : stakes'[k] = stakes[k]
      BY <1>2, <1>3, <2>3, <3>3
    <3>5. stakes'[l] \in Int /\ SumOf(led', stakes') = SumOf(led, stakes) + stakes'[l]
      BY <1>2, <2>1, <3>3, <3>4, SumAdd
    <3> QED
      BY <1>2, <2>1, <2>5, <2>6, <3>2, <3>4, <3>5
  <2>10. CASE who # player /\ row.bidder = who
    <3>1. row.planet \in own /\ money'[row.planet] = money[row.planet] + row.bid
          /\ \A q \in own \ {row.planet} : money'[q] = money[q]
      BY <1>2, <1>6, <2>2, <2>7, <2>10 DEF own
    <3>2. SumOf(own, money') = SumOf(own, money) + row.bid
      BY <1>4, <2>1, <3>1, SumAfter
    <3>3. led' = led \ {l} /\ l \in led
      BY <1>2, <1>3, <1>5, <2>3, <2>10
    <3>4. stakes[l] = row.bid /\ \A k \in led \ {l} : stakes'[k] = stakes[k]
      BY <1>3, <1>5, <2>3, <3>3
    <3>5. SumOf(led, stakes) = row.bid + SumOf(led \ {l}, stakes)
      BY <2>1, <3>3, <3>4, SumTakeOut
    <3>6. Integral(led \ {l}, stakes)
      BY <2>1, FS_RemoveElement DEF Integral
    <3>7. SumOf(led \ {l}, stakes') = SumOf(led \ {l}, stakes) /\ SumOf(led \ {l}, stakes) \in Int
      BY <3>4, <3>6, SumSame, SumType
    <3>8. SumOf(led', stakes') = SumOf(led \ {l}, stakes)
      BY <3>3, <3>7, Zenon
    <3> QED
      BY <1>4, <2>1, <2>5, <2>6, <3>2, <3>5, <3>7, <3>8
  <2>11. CASE who # player /\ row.bidder # who
    <3>1. \A q \in own : money'[q] = money[q]
      BY <1>2, <2>2, <2>7, <2>11 DEF own
    <3>2. SumOf(own, money') = SumOf(own, money)
      BY <2>1, <3>1, SumSame
    <3>3. led' = led
      BY <1>2, <1>3, <1>5, <2>3, <2>11
    <3>4. \A k \in led : stakes'[k] = stakes[k]
      BY <1>3, <1>5, <2>3, <2>11, <3>3
    <3>5. SumOf(led, stakes') = SumOf(led, stakes)
      BY <2>1, <3>4, SumSame
    <3> QED
      BY <2>5, <2>6, <3>2, <3>3, <3>5
  <2> QED
    BY <2>8, <2>9, <2>10, <2>11
<1> QED
  BY <1>6, BalanceAfter

(* Who moves gets the phase he goes to; the others stay. *)
LEMMA GoesPhase ==
    ASSUME TypeOK, NEW a \in Actors, NEW fields, Goes(a, fields), "pc" \in DOMAIN fields
    PROVE  /\ actor'[a].pc = fields.pc
           /\ \A b \in Actors : b # a => actor'[b] = actor[b]
  BY TypeFacts, GoesFields DEF Fields

(* Who bids from a planet of his own, when no listing gets a leader. *)
LEMMA OwnMoneyStays ==
    ASSUME OwnMoney, NEW a \in Actors, \A b \in Actors : b # a => actor'[b] = actor[b],
           actor'[a].pc = "write" => OwnerOf[actor'[a].planet] = SenderOf[a[1]],
           \A l \in DOMAIN listing' : listing'[l].bidder \in Players =>
             /\ l \in DOMAIN listing
             /\ listing'[l].bidder = listing[l].bidder /\ listing'[l].planet = listing[l].planet
    PROVE  OwnMoney'
  BY DEF OwnMoney, OwnPlanets

(* Steps that change no row. *)
LEMMA ReadsStakes ==
    ASSUME TypeInv, StakesInv, NEW a \in Actors,
           \/ ReadDue(a) \/ CountLive(a) \/ ReadListing(a) \/ RejectBid(a) \/ OpenPage(a)
           \/ Fail(a) \/ Receive(a) \/ Answer(a)
    PROVE  StakesInv'
<1>1. TypeOK /\ OwnMoney /\ StakesConserved
  BY DEF TypeInv, StakesInv
<1>2. UNCHANGED <<money, listing>>
  BY DEF ReadDue, CountLive, ReadListing, RejectBid, OpenPage, Fail, Receive, Answer, Rows
<1>3. StakesConserved'
  BY <1>1, <1>2, StakesStay
<1>4. /\ \A b \in Actors : b # a => actor'[b] = actor[b]
      /\ actor'[a].pc = "write" => OwnerOf[actor'[a].planet] = SenderOf[a[1]]
  <2>1. CASE ReadDue(a)
    <3>1. PICK due : Goes(a, [pc |-> "complete", due |-> due])
      BY <2>1 DEF ReadDue
    <3> QED
      BY <1>1, <3>1, GoesPhase
  <2>2. CASE CountLive(a)
    <3>1. PICK live : Goes(a, [pc |-> "insert", live |-> live])
      BY <2>2 DEF CountLive
    <3> QED
      BY <1>1, <3>1, GoesPhase
  <2>3. CASE ReadListing(a)
    <3>1. PICK p \in Planets :
            /\ OwnerOf[p] = SenderOf[a[1]] /\ Acceptable(a, p)
            /\ Goes(a, [pc |-> "write", planet |-> p, seen |-> <<listing[ListingOf[a[1]]]>>])
      BY <2>3 DEF ReadListing
    <3> DEFINE row == listing[ListingOf[a[1]]]
               s == HasRead(actor[a], p, row)
    <3>2. row \in RowType
      BY <1>1, <3>1, TypeFacts DEF Acceptable
    <3>3. s \in ActorState /\ actor' = [actor EXCEPT ![a] = s]
      BY <1>1, <3>1, <3>2, ReadEffect
    <3>4. s.planet = p
      BY DEF HasRead
    <3> HIDE DEF s
    <3> QED
      BY <1>1, <3>1, <3>3, <3>4, Becomes
  <2>4. CASE RejectBid(a)
    <3> DEFINE s == Rest("done")
    <3>1. Goes(a, s) /\ s.pc # "write" /\ "pc" \in DOMAIN s
      BY <2>4 DEF RejectBid, Rest
    <3> HIDE DEF s
    <3> QED
      BY <1>1, <3>1, GoesPhase
  <2>5. CASE OpenPage(a)
    <3>1. Goes(a, [pc |-> "finish", now |-> clock])
      BY <2>5 DEF OpenPage
    <3> QED
      BY <1>1, <3>1, GoesPhase
  <2>6. CASE Fail(a)
    <3> DEFINE s == Rest(IF a \in Pages THEN "idle" ELSE "done")
    <3>1. Goes(a, s) /\ s.pc # "write" /\ "pc" \in DOMAIN s
      BY <2>6 DEF Fail, Rest
    <3> HIDE DEF s
    <3> QED
      BY <1>1, <3>1, GoesPhase
  <2>7. CASE Receive(a)
    <3>1. Goes(a, [pc |-> "done"]) \/ Goes(a, [pc |-> "finish", now |-> clock])
      BY <2>7 DEF Receive
    <3> QED
      BY <1>1, <3>1, GoesPhase
  <2>8. CASE Answer(a)
    <3>1. actor' = [actor EXCEPT ![a] = Rest("done")] /\ Rest("done") \in ActorState
      BY <1>1, <2>8, RestEffect DEF Answer, Phases
    <3>2. Rest("done").pc = "done"
      BY DEF Rest
    <3> QED
      BY <1>1, <3>1, <3>2, Becomes
  <2> QED
    BY <2>1, <2>2, <2>3, <2>4, <2>5, <2>6, <2>7, <2>8
<1>5. OwnMoney'
  BY <1>1, <1>2, <1>4, OwnMoneyStays
<1> QED
  BY <1>3, <1>5 DEF StakesInv

(* Completing listings and starting new ones moves no money. *)
LEMMA RotationStakes ==
    ASSUME TypeInv, StakesInv, NEW a \in Actors, GrantAndComplete(a) \/ InsertListings(a)
    PROVE  StakesInv'
<1>1. TypeOK /\ OwnMoney /\ StakesConserved
  BY DEF TypeInv, StakesInv
<1>2. UNCHANGED money /\ DOMAIN listing = 1..Len(listing) /\ Len(listing) \in Nat
  BY <1>1, TypeFacts DEF GrantAndComplete, InsertListings
<1>3. /\ \A l \in DOMAIN listing :
           /\ l \in DOMAIN listing'
           /\ listing'[l].bidder = listing[l].bidder /\ listing'[l].bid = listing[l].bid
           /\ listing'[l].planet = listing[l].planet
      /\ \A l \in DOMAIN listing' : l \notin DOMAIN listing => listing'[l].bidder = NoOne
  <2>1. CASE GrantAndComplete(a)
    <3>1. RowsGrow /\ Completed(actor[a].due)
      BY <1>1, <2>1, GrantEffect
    <3>2. DOMAIN listing' = DOMAIN listing
      BY <1>2, <3>1 DEF RowsGrow, Completed
    <3> QED
      BY <1>2, <3>1, <3>2 DEF Completed
  <2>2. CASE InsertListings(a)
    <3>1. RowsGrow /\ Added(a)
      BY <1>1, <2>2, InsertEffect
    <3>2. DOMAIN listing' = 1..Len(listing')
      BY <3>1 DEF RowsGrow
    <3> DEFINE need == Missing(actor[a].live)
    <3>3. /\ need \in Nat /\ Len(listing') = Len(listing) + need
          /\ \A l \in 1..Len(listing) : listing'[l] = listing[l]
          /\ \A l \in Len(listing) + 1..Len(listing) + need : listing'[l].bidder = NoOne
      BY <3>1 DEF Added
    <3> HIDE DEF need
    <3> QED
      BY <1>2, <3>2, <3>3
  <2> QED
    BY <2>1, <2>2
<1>4. StakesConserved'
  BY <1>1, <1>2, <1>3, StakesStay
<1>5. /\ \A b \in Actors : b # a => actor'[b] = actor[b]
      /\ actor'[a].pc # "write"
  <2>1. CASE GrantAndComplete(a)
    <3> DEFINE pc == IF a \in Pages THEN "rotate" ELSE "bid"
    <3>1. Goes(a, [pc |-> pc, due |-> {}, now |-> clock]) /\ pc # "write"
      BY <2>1 DEF GrantAndComplete
    <3> HIDE DEF pc
    <3> QED
      BY <1>1, <3>1, GoesPhase
  <2>2. CASE InsertListings(a)
    <3> DEFINE s == Rest("idle")
    <3>1. Goes(a, s) /\ s.pc # "write" /\ "pc" \in DOMAIN s
      BY <2>2 DEF InsertListings, Rest
    <3> HIDE DEF s
    <3> QED
      BY <1>1, <3>1, GoesPhase
  <2> QED
    BY <2>1, <2>2
<1>6. OwnMoney'
  BY <1>1, <1>3, <1>5, AuctionAssumption, OwnMoneyStays
<1> QED
  BY <1>4, <1>6 DEF StakesInv

(* The bidder leads on the planet he paid from. *)
LEMMA WriteOwnMoney ==
    ASSUME TypeInv, OwnMoney, NEW a \in Actors, WriteBid(a)
    PROVE  OwnMoney'
<1> DEFINE l == ListingOf[a[1]]
           s == Rest("answer")
<1>1. TypeOK /\ BidderOf(a) /\ actor[a].pc = "write"
  BY DEF TypeInv, Bidders, WriteBid
<1>2. /\ RowsGrow /\ Len(listing') = Len(listing)
      /\ listing'[l].bidder = SenderOf[a[1]] /\ listing'[l].planet = actor[a].planet
      /\ \A k \in 1..Len(listing) : k # l => listing'[k] = listing[k]
  BY WriteEffect
<1>3. DOMAIN listing = 1..Len(listing) /\ DOMAIN listing' = DOMAIN listing
  BY <1>1, <1>2, TypeFacts DEF RowsGrow
<1>4. actor[a].planet \in OwnPlanets(SenderOf[a[1]])
  BY <1>1 DEF OwnMoney, OwnPlanets, BidderOf
<1>5. Goes(a, s) /\ s.pc # "write" /\ "pc" \in DOMAIN s
  BY DEF WriteBid, Rest
<1> HIDE DEF s
<1>6. actor'[a].pc # "write" /\ \A b \in Actors : b # a => actor'[b] = actor[b]
  BY <1>1, <1>5, GoesPhase
<1>7. \A k \in DOMAIN listing' : listing'[k].bidder \in Players =>
        listing'[k].planet \in OwnPlanets(listing'[k].bidder)
  BY <1>2, <1>3, <1>4 DEF OwnMoney
<1>8. \A b \in Actors : actor'[b].pc = "write" => OwnerOf[actor'[b].planet] = SenderOf[b[1]]
  BY <1>6 DEF OwnMoney
<1> QED
  BY <1>7, <1>8 DEF OwnMoney, OwnPlanets

(* The stakes at the start, and after every step. *)
LEMMA InitStakes == Init => StakesInv
<1> SUFFICES ASSUME Init PROVE StakesInv
  OBVIOUS
<1>1. TypeOK /\ listing = <<>> /\ money = Funds
  BY InitType DEF Init, TypeInv
<1>2. OwnMoney
  BY DEF Init, OwnMoney, Rest
<1>3. ASSUME NEW player \in Players PROVE Balance(player)
  <2>1. Led(player) = {}
    BY <1>1 DEF Led
  <2>2. SumOf(Led(player), Stakes(player)) = 0
    BY <2>1, SumEmpty, Zenon
  <2>3. SumOf(OwnPlanets(player), Funds) \in Int
    BY <1>1, Summable, SumType
  <2> QED
    BY <1>1, <2>2, <2>3 DEF Balance
<1> QED
  BY <1>2, <1>3, BalanceOf DEF StakesInv

(* Every step keeps the books of every player balanced, on SQLite. *)
LEMMA StepStakes ==
    ASSUME ~Postgres
    PROVE  TypeInv /\ HouseInv /\ StakesInv /\ [Next]_vars => StakesInv'
<1> SUFFICES ASSUME TypeInv, HouseInv, StakesInv, [Next]_vars PROVE StakesInv'
  OBVIOUS
<1>1. TypeOK /\ OwnMoney /\ StakesConserved
  BY DEF TypeInv, StakesInv
<1>2. ASSUME NEW a \in Actors, Step(a) \/ Fail(a) PROVE StakesInv'
  <2>1. CASE WriteBid(a)
    BY <1>1, <2>1, WriteStakes, WriteOwnMoney DEF StakesInv
  <2> QED
    BY <1>2, <2>1, ReadsStakes, RotationStakes DEF Step
<1>3. CASE UNCHANGED <<money, listing, actor>>
  <2>1. StakesConserved'
    BY <1>1, <1>3, StakesStay
  <2>2. OwnMoney'
    BY <1>1, <1>3 DEF OwnMoney, OwnPlanets
  <2> QED
    BY <2>1, <2>2 DEF StakesInv
<1> QED
  BY <1>2, <1>3 DEF Next, Tick, vars, Rows

(* On SQLite no stake is lost and none is paid back twice: a player has on   *)
(* his planets what he started with, less the bids of the listings he leads  *)
(* or has won.                                                               *)
THEOREM SqliteStakesConserved ==
    ASSUME ~Postgres
    PROVE  Spec => []StakesConserved
<1>1. Init => TypeInv /\ HouseInv /\ StakesInv
  BY InitType, InitSafe, InitStakes
<1>2. (TypeInv /\ HouseInv /\ StakesInv) /\ [Next]_vars => (TypeInv /\ HouseInv /\ StakesInv)'
  BY StepType, StepSafe, StepStakes
<1>3. TypeInv /\ HouseInv /\ StakesInv => StakesConserved
  BY DEF StakesInv
<1> QED
  BY <1>1, <1>2, <1>3, PTL DEF Spec
=============================================================================
