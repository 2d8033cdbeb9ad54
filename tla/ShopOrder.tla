------------------------------ MODULE ShopOrder ------------------------------
(***************************************************************************)
(* Orders of the shop from checkout to delivery (game/shop.py,             *)
(* game/shop_recovery.py and the shop routes of app.py), with PayPal.      *)
(*                                                                         *)
(* The same payment is reported several times: by webhooks for the         *)
(* approval and for the capture, each sent again until it is answered, by  *)
(* the buyer's return page, which captures for itself, and by an operator. *)
(* Each report has an event id of its own: only the status of the order    *)
(* keeps the second one from delivering again.                             *)
(*                                                                         *)
(* A PayPal order carries the number of the shop order it was made for, in *)
(* its webhooks (custom_id) and in the address of the return page, and the *)
(* number is looked up first.  When the checkout ran on another            *)
(* installation that number means another order here, or none: then the    *)
(* return page looks for the PayPal order and at last makes an order of    *)
(* its own.                                                                *)
(*                                                                         *)
(* A report is one transaction: it reads, then writes and commits.         *)
(* SQLite: one transaction at a time.  PostgreSQL: no lock before the      *)
(* first write.  PayPal and the buyer are external.                        *)
(***************************************************************************)
EXTENDS Integers, Sequences, FiniteSets, FiniteSetsExt

CONSTANTS
    Tokens,         \* PayPal orders
    Payer,          \* the player who pays each of them
    Promoted,       \* those bought with a creator's code
    Hooks,          \* webhook deliveries, each repeated
    Returns,        \* loads of the return page, each repeated
    Operators,      \* runs of the recovery and repair scripts, each repeated
    Admins,         \* who pays commissions out, repeatedly
    Units,          \* what an order delivers, one grant after the other
    Postgres,       \* TRUE on PostgreSQL, FALSE on SQLite
    MaxOrders,      \* bound: rows of shop_orders
    MaxByHand       \* bound: orders marked by hand

Reporters == Hooks \cup Returns \cup Operators

Actors == Reporters \cup Admins

OrderIds == 1..MaxOrders

ASSUME ShopAssumption ==
    /\ Promoted \subseteq Tokens /\ DOMAIN Payer = Tokens
    /\ {Units, MaxOrders, MaxByHand} \subseteq Nat
    /\ Postgres \in BOOLEAN
    /\ Hooks \cap Returns = {} /\ Hooks \cap Operators = {} /\ Returns \cap Operators = {}
    /\ Admins \cap Reporters = {}

VARIABLES
    paypal,         \* external: the state of each PayPal order
    ref,            \* external: the number of its shop order, where it was made
    order,          \* committed rows of shop_orders, by id
    events,         \* committed rows of shop_payment_events
    repaired,       \* committed rows of shop_fulfillment_repairs
    byHand,         \* history: orders that were marked fulfilled by hand
    granted,        \* of each order, the units delivered and committed
    ledger,         \* of each order, its row of shop_creator_ledger
    payouts,        \* committed rows of shop_creator_payouts: what they paid for
    tx              \* of each actor: its transaction

vars == <<paypal, ref, order, events, repaired, byHand, granted, ledger, payouts, tx>>

Rows == <<order, events, repaired, byHand, granted, ledger, payouts>>

NoTx == [pc |-> "idle",
         kind |-> "none",   \* what it reports or repairs
         token |-> "none",
         id |-> 0,          \* the order it has resolved, 0 for none
         seen |-> "none",   \* the status it read
         known |-> FALSE,   \* the event was recorded before
         batch |-> {}]      \* the commissions it pays out

Init ==
    /\ paypal = [t \in Tokens |-> "none"]
    /\ ref = [t \in Tokens |-> 0]
    /\ order = <<>>
    /\ events = {}
    /\ repaired = {}
    /\ byHand = {}
    /\ granted = [o \in OrderIds |-> 0]
    /\ ledger = [o \in OrderIds |-> "none"]
    /\ payouts = <<>>
    /\ tx = [a \in Actors |-> NoTx]

-----------------------------------------------------------------------------
InTransaction(a) == tx[a].pc \in {"write", "pay"}

\* begin_write_transaction.
CanBegin == Postgres \/ \A a \in Actors : ~InTransaction(a)

OrdersOf(t) == {o \in DOMAIN order : order[o].token = t}

\* Mutant of Resolve: only an order that is still open is found.
ResolveOpen(t) ==
    LET open == {o \in OrdersOf(t) : order[o].status # "failed"} IN
    IF open = {} THEN 0 ELSE Min(open)

\* find_order_by_session
Resolve(t) == IF OrdersOf(t) = {} THEN 0 ELSE Min(OrdersOf(t))

\* get_order
Numbered(n) == IF n \in DOMAIN order THEN n ELSE 0

\* find_order_by_payment, with the id of the capture.
Booked(t) ==
    LET booked == {o \in DOMAIN order : order[o].payment = <<t, "capture">>} IN
    IF booked = {} THEN 0 ELSE Min(booked)

PayerOf(o) == Payer[order[o].token]

StatusOf(o) == IF o = 0 THEN "none" ELSE order[o].status

Set(a, fields) == tx' = [tx EXCEPT ![a] = [f \in DOMAIN @ |->
                            IF f \in DOMAIN fields THEN fields[f] ELSE @[f]]]

Quit(a) == tx' = [tx EXCEPT ![a] = NoTx]

-----------------------------------------------------------------------------
(* The buyer and PayPal. *)

\* Mutant of NewOrder: PayPal's name of the status, which the shop does not know.
NewOrderCreated(t) == [token |-> t, status |-> "created", payment |-> <<>>]

\* create_pending_order. A payment is a PayPal order and which of its two ids
\* was written down: its own or that of its capture.
NewOrder(t) == [token |-> t, status |-> "pending", payment |-> <<>>]

\* start_checkout: the row and the PayPal order are made in one transaction.
Checkout(t) ==
    /\ paypal[t] = "none" /\ Len(order) < MaxOrders
    /\ CanBegin
    /\ paypal' = [paypal EXCEPT ![t] = "created"]
    /\ ref' = [ref EXCEPT ![t] = Len(order) + 1]
    /\ order' = Append(order, NewOrder(t))
    /\ UNCHANGED <<events, repaired, byHand, granted, ledger, payouts, tx>>

\* A checkout on another installation, or one that fails to commit: the
\* number is that of another order here, or of none.
CheckoutElsewhere(t) ==
    /\ paypal[t] = "none"
    /\ paypal' = [paypal EXCEPT ![t] = "created"]
    /\ \E n \in OrderIds : ref' = [ref EXCEPT ![t] = n]
    /\ UNCHANGED <<Rows, tx>>

Approve(t) ==
    /\ paypal[t] = "created"
    /\ paypal' = [paypal EXCEPT ![t] = "approved"]
    /\ UNCHANGED <<ref, Rows, tx>>

Paid(t) == paypal[t] \in {"approved", "captured"}

\* Mutant of Captured: the capture is left to the completed event.
CapturedLater(t) == UNCHANGED paypal

\* paypal_capture_order: what is captured already counts as captured now.
Captured(t) == paypal' = [paypal EXCEPT ![t] = "captured"]

-----------------------------------------------------------------------------
(* Reports begin. *)

\* A webhook arrives, for the first time or again. An approval is captured
\* before the transaction begins.
Deliver(h) ==
    /\ h \in Hooks
    /\ tx[h].pc = "idle"
    /\ \E t \in Tokens, kind \in {"approved", "completed"} :
         /\ kind = "approved" => Paid(t)
         /\ kind = "completed" => paypal[t] = "captured"
         /\ Captured(t)
         /\ Set(h, [pc |-> "read", kind |-> kind, token |-> t])
    /\ UNCHANGED <<ref, Rows>>

\* shop_return_view looks the order up before any transaction: by the number
\* in its address, if there is one and the order is the buyer's, then by the
\* PayPal order.
Shown(t, n) ==
    IF Numbered(n) # 0 /\ PayerOf(n) = Payer[t] THEN n ELSE Resolve(t)

\* One that is neither pending nor paid is only shown; for none that is found
\* the recovery begins.
OpenReturn(r) ==
    /\ r \in Returns
    /\ tx[r].pc = "idle"
    /\ \E t \in Tokens : \E n \in {0, ref[t]} :
         /\ Paid(t)
         /\ \/ /\ Shown(t, n) = 0
               /\ Set(r, [pc |-> "read", kind |-> "recover", token |-> t])
            \/ /\ StatusOf(Shown(t, n)) \in {"pending", "paid"}
               /\ Set(r, [pc |-> "read", kind |-> "return", token |-> t, id |-> Shown(t, n)])
    /\ UNCHANGED <<paypal, ref, Rows>>

\* The operator scripts: recovery of an open order, repair of an order that
\* is marked fulfilled or paid and whose rewards, as the operator has looked
\* up, are missing. Two of them run on PostgreSQL only.
OpenRepair(p) ==
    /\ p \in Operators
    /\ tx[p].pc = "idle"
    /\ \E o \in DOMAIN order :
         LET t == order[o].token IN
         /\ Paid(t)
         /\ \E kind \in {"recover", "repair", "verified"} :
              /\ kind # "repair" => Postgres
              /\ kind = "recover" => order[o].status \in {"pending", "paid", "failed"}
              /\ kind = "repair" => order[o].status = "fulfilled"
              /\ kind = "verified" => order[o].status = "paid"
              /\ kind # "recover" => paypal[t] = "captured" /\ granted[o] = 0
              /\ Set(p, [pc |-> "read", kind |-> kind, token |-> t,
                         id |-> IF kind = "recover" THEN 0 ELSE o])
    /\ UNCHANGED <<paypal, ref, Rows>>

\* What made the repairs necessary: somebody sets the status by hand.
MarkByHand(o) ==
    /\ Cardinality(byHand) < MaxByHand
    /\ paypal[order[o].token] = "captured"
    /\ order[o].status \in {"pending", "failed"}
    /\ CanBegin
    /\ \E status \in {"paid", "fulfilled"} :
         /\ order' = [order EXCEPT ![o].status = status]
         /\ byHand' = IF status = "fulfilled" THEN byHand \cup {o} ELSE byHand
    /\ UNCHANGED <<paypal, ref, events, repaired, granted, ledger, payouts, tx>>

-----------------------------------------------------------------------------
(* process_paid_event, recover_paypal_return_for_player and the repairs: *)
(* what they read. *)

IsEvent(kind) == kind \in {"approved", "completed", "return", "recover"}

\* The number of the order is part of the ids that the shop makes up itself.
EventOf(a, o) ==
    <<tx[a].kind, tx[a].token, IF tx[a].kind \in {"return", "recover"} THEN o ELSE 0>>

\* The order it is about. A recovery takes the order that the capture is
\* booked on before that of the PayPal order.
Target(a) ==
    LET t == tx[a].token IN
    CASE tx[a].kind \in {"approved", "completed"} -> Numbered(ref[t])
      [] tx[a].kind = "recover" -> IF Booked(t) # 0 THEN Booked(t) ELSE Resolve(t)
      [] OTHER -> tx[a].id

\* A recovery first looks at the order of the PayPal order.
KnownFulfilled(a) == tx[a].kind = "recover" /\ StatusOf(Resolve(tx[a].token)) = "fulfilled"

\* Nothing is left to do: an order that is fulfilled, whether or not the
\* event is known, and one that was repaired before.
Done(a, o) ==
    IF IsEvent(tx[a].kind) THEN KnownFulfilled(a) \/ StatusOf(o) = "fulfilled"
    ELSE o \in repaired

\* A webhook whose number means no order here is refused (the event refers to
\* the order), and so is a recovery whose capture is booked on an order of
\* somebody else, and a repair of an order that is not marked as it was when
\* the operator looked.
Refused(a, o) ==
    \/ tx[a].kind \in {"approved", "completed"} /\ o = 0
    \/ tx[a].kind = "recover" /\ o # 0 /\ PayerOf(o) # Payer[tx[a].token]
    \/ tx[a].kind = "repair" /\ order[o].status # "fulfilled"
    \/ tx[a].kind = "verified" /\ order[o].status # "paid"

\* A page or a recovery captures inside the transaction, before it knows
\* whether the order still needs it. A recovery that finds the order
\* fulfilled records no event.
Read(a) ==
    /\ a \in Reporters
    /\ tx[a].pc = "read"
    /\ CanBegin
    /\ LET o == Target(a) IN
       IF Refused(a, o) \/ Done(a, o)
       THEN /\ Quit(a)
            /\ events' = IF tx[a].kind \in {"approved", "completed", "return"} /\ ~Refused(a, o)
                         THEN events \cup {EventOf(a, o)} ELSE events
       ELSE /\ Set(a, [pc |-> "write", id |-> o, seen |-> StatusOf(o),
                       known |-> EventOf(a, o) \in events])
            /\ UNCHANGED events
    /\ IF tx[a].kind = "return" \/ (tx[a].kind = "recover" /\ ~KnownFulfilled(a))
       THEN Captured(tx[a].token)
       ELSE UNCHANGED paypal
    /\ UNCHANGED <<ref, order, repaired, byHand, granted, ledger, payouts>>

-----------------------------------------------------------------------------
(* mark_paid and fulfill_order: what they write. *)

\* What the order is when fulfill_order looks at it: mark_paid has written
\* "paid" over whatever is there when it had read "pending" or "failed".
StatusAtFulfil(a, o) ==
    CASE tx[a].kind = "repair" -> "paid"
      [] tx[a].seen \in {"none", "pending", "failed"} -> "paid"
      [] OTHER -> order[o].status

\* mark_paid writes the id it was given over the one that is there.
PaymentOf(a, o) ==
    IF ~IsEvent(tx[a].kind) \/ tx[a].seen = "paid" THEN order[o].payment
    ELSE <<tx[a].token, IF tx[a].kind = "approved" THEN "token" ELSE "capture">>

\* Unique rows: the event, the payment of an order, the repair of an order.
Collides(a, o, payment) ==
    \/ IsEvent(tx[a].kind) /\ ~tx[a].known /\ EventOf(a, o) \in events
    \/ payment # <<>> /\ \E p \in DOMAIN order \ {o} : order[p].payment = payment
    \/ ~IsEvent(tx[a].kind) /\ o \in repaired

\* credit_commission_for_order and release_held_commissions, in a savepoint
\* whose failure is swallowed. Whether the buyer qualifies is data.
LedgersAfter(o) ==
    {ledger} \cup
    {l \in [OrderIds -> {"none", "held", "available", "paid"}] :
        \A p \in OrderIds :
            \/ l[p] = ledger[p]
            \/ ledger[p] = "held" /\ l[p] = "available"
            \/ /\ p = o /\ ledger[p] = "none" /\ order'[o].token \in Promoted
               /\ l[p] \in {"held", "available"}}

\* Mutant of UnitsKept: no savepoint, the units before a failure stay.
UnitsKeptAll(units) == units

\* What stays of the units granted when one of them fails.
UnitsKept(units) == IF units = Units THEN units ELSE 0

\* Rewards, one unit after the other, then the status; none for an order that
\* somebody else has ended meanwhile (PostgreSQL). The return page commits a
\* failure, everyone else rolls it back.
Write(a) ==
    LET t == tx[a].token
        new == tx[a].id = 0
        o == IF new THEN Len(order) + 1 ELSE tx[a].id
        rows == IF new THEN Append(order, NewOrder(t)) ELSE order
        payment == IF new THEN <<t, "capture">> ELSE PaymentOf(a, o) IN
    /\ tx[a].pc = "write"
    /\ o \in OrderIds
    /\ ~Collides(a, o, payment)
    /\ IF ~new /\ StatusAtFulfil(a, o) \in {"fulfilled", "failed"}
       THEN /\ StatusAtFulfil(a, o) = "failed" => tx[a].kind = "return"
            /\ repaired' = IF IsEvent(tx[a].kind) THEN repaired ELSE repaired \cup {o}
            /\ UNCHANGED <<order, granted, ledger, byHand>>
       ELSE \E units \in 0..Units :
              LET ok == units = Units IN
              /\ ok \/ tx[a].kind = "return"
              /\ order' = [rows EXCEPT ![o] =
                             [@ EXCEPT !.status = IF ok THEN "fulfilled" ELSE "failed",
                                       !.payment = payment]]
              /\ granted' = [granted EXCEPT ![o] = @ + UnitsKept(units)]
              /\ ledger' \in IF ok THEN LedgersAfter(o) ELSE {ledger}
              /\ repaired' = IF IsEvent(tx[a].kind) THEN repaired ELSE repaired \cup {o}
              /\ byHand' = IF ok THEN byHand \ {o} ELSE byHand
    /\ events' = IF IsEvent(tx[a].kind) THEN events \cup {EventOf(a, o)} ELSE events
    /\ Quit(a)
    /\ UNCHANGED <<paypal, ref, payouts>>

\* A capture that fails, a reward that cannot be granted, a unique row that
\* is there already, an exception, a dead process: rolled back.
RollBack(a) ==
    /\ tx[a].pc # "idle"
    /\ Quit(a)
    /\ UNCHANGED <<paypal, ref, Rows>>

-----------------------------------------------------------------------------
(* create_payout_batch *)

\* Mutant of MayPay: every commission of the creator may be paid out.
MayPayAny(o) == ledger[o] # "none"

\* Held commissions of buyers who qualify by now are released first.
MayPay(o) == ledger[o] \in {"held", "available"}

ReadPayout(d) ==
    /\ d \in Admins
    /\ tx[d].pc = "idle"
    /\ CanBegin
    /\ \E batch \in SUBSET {o \in OrderIds : MayPay(o)} \ {{}} :
         Set(d, [pc |-> "pay", batch |-> batch])
    /\ UNCHANGED <<paypal, ref, Rows>>

Pay(d) ==
    /\ tx[d].pc = "pay"
    /\ payouts' = Append(payouts, tx[d].batch)
    /\ ledger' = [o \in OrderIds |-> IF o \in tx[d].batch THEN "paid" ELSE ledger[o]]
    /\ Quit(d)
    /\ UNCHANGED <<paypal, ref, order, events, repaired, byHand, granted>>

-----------------------------------------------------------------------------
Next ==
    \/ \E t \in Tokens : Checkout(t) \/ CheckoutElsewhere(t) \/ Approve(t)
    \/ \E o \in DOMAIN order : MarkByHand(o)
    \/ \E a \in Actors :
         \/ Deliver(a) \/ OpenReturn(a) \/ OpenRepair(a) \/ ReadPayout(a)
         \/ Read(a) \/ Write(a) \/ Pay(a) \/ RollBack(a)

Spec == Init /\ [][Next]_vars

-----------------------------------------------------------------------------
Status == {"pending", "paid", "fulfilled", "failed"}

(* Every variable has its type.                                              *)
TypeOK ==
    /\ paypal \in [Tokens -> {"none", "created", "approved", "captured"}]
    /\ order \in Seq([token : Tokens, status : Status,
                      payment : {<<>>} \cup (Tokens \X {"token", "capture"})])
    /\ ref \in [Tokens -> 0..MaxOrders]
    /\ events \subseteq {"approved", "completed", "return", "recover"}
                          \X Tokens \X (0..MaxOrders)
    /\ repaired \subseteq DOMAIN order /\ byHand \subseteq DOMAIN order
    /\ granted \in [OrderIds -> Nat]
    /\ ledger \in [OrderIds -> {"none", "held", "available", "paid"}]
    /\ payouts \in Seq(SUBSET OrderIds)
    /\ tx \in [Actors ->
         [pc : {"idle", "read", "write", "pay"},
          kind : {"none", "approved", "completed", "return", "recover",
                  "repair", "verified"},
          token : Tokens \cup {"none"}, id : 0..MaxOrders,
          seen : Status \cup {"none"}, known : BOOLEAN, batch : SUBSET OrderIds]]

(* shop.py:1551 "grants rewards once, then status=fulfilled": an order has   *)
(* delivered all its units exactly when it is fulfilled and nobody marked it *)
(* so by hand; before, after a failed attempt, and however often and by whom *)
(* the payment is reported or a repair is run, nothing less and nothing more. *)
RewardsMatchStatus ==
    \A o \in DOMAIN order :
        granted[o] = IF order[o].status = "fulfilled" /\ o \notin byHand THEN Units ELSE 0

(* PAYMENT_SHOP.md, Flow: nothing is delivered before PayPal has the money.  *)
(* It need not be the money of the PayPal order that was made with the order *)
(* (the number decides first), but it is that of the payment booked on it,   *)
(* or its own when an operator marked it as paid and none is booked.         *)
DeliveredIsCaptured ==
    \A o \in DOMAIN order : granted[o] > 0 =>
        LET payment == order[o].payment IN
        paypal[IF payment = <<>> THEN order[o].token ELSE payment[1]] = "captured"

(* A PayPal order never has two orders made for it here, although the return *)
(* page makes the one it does not find, and neither of its two ids is booked *)
(* on two orders, although numbers from elsewhere point to foreign ones.     *)
OneOrderPerPayment ==
    \A t \in Tokens :
        /\ Cardinality(OrdersOf(t)) <= 1
        /\ \A id \in {"token", "capture"} :
              Cardinality({o \in DOMAIN order : order[o].payment = <<t, id>>}) <= 1

(* PAYMENT_SHOP.md, Creator Partner Program: a commission belongs to a       *)
(* delivered order, and is in one payout exactly when it is marked as paid.  *)
CommissionPaidOnce ==
    \A o \in OrderIds :
        /\ ledger[o] # "none" => o \in DOMAIN order /\ order[o].status = "fulfilled"
        /\ Cardinality({i \in DOMAIN payouts : o \in payouts[i]})
               = IF ledger[o] = "paid" THEN 1 ELSE 0
=============================================================================
