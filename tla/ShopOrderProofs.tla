--------------------------- MODULE ShopOrderProofs ---------------------------
(***************************************************************************)
(* Proofs about the orders of the shop, for any number of payments,        *)
(* reporters and orders: however often and by whom a payment is reported,  *)
(* it has one order, which delivers only once the payment is captured (on  *)
(* both databases), grants its rewards once and pays one commission (on    *)
(* SQLite).                                                                *)
(***************************************************************************)
EXTENDS ShopOrder, FiniteSetTheorems, TLAPS

-----------------------------------------------------------------------------
(* The inductive invariant. *)

Columns == {"pc", "kind", "token", "id", "seen", "known", "batch"}

(* What a transaction names is there: a payment, and an order.               *)
NamesRowsOf(a) ==
    /\ tx[a].pc \in {"read", "write"} =>
         /\ a \in Reporters /\ tx[a].token \in Tokens
         /\ tx[a].kind # "none"
         /\ tx[a].id # 0 => tx[a].id \in DOMAIN order
         /\ tx[a].kind \in {"repair", "verified"} => tx[a].id # 0
         /\ tx[a].kind = "verified" => Postgres
    /\ tx[a].pc = "pay" => a \in Admins
    /\ tx[a].pc = "idle" => tx[a] = NoTx

NamesRows == \A a \in Actors : NamesRowsOf(a)

TypeInv == TypeOK /\ NamesRows /\ Len(order) <= MaxOrders

(* The database lets one transaction in at a time.                           *)
OneWriter ==
    \A a, b \in Actors : InTransaction(a) /\ InTransaction(b) => a = b

(* What a reporter has read still holds when it writes.                      *)
FreshWriter(a) ==
    tx[a].pc = "write" =>
        /\ tx[a].id # 0 => tx[a].seen = order[tx[a].id].status
        /\ tx[a].kind # "repair" => tx[a].seen # "fulfilled"
        /\ tx[a].kind = "repair" => tx[a].id \notin repaired

WriterIsFresh == \A a \in Actors : FreshWriter(a)

(* An order an operator repairs has delivered nothing, unless somebody else  *)
(* has repaired it meanwhile.                                                *)
DueRepair(a) ==
    tx[a].pc \in {"read", "write"} /\ tx[a].kind = "repair" =>
        /\ order[tx[a].id].status = "fulfilled"
        /\ granted[tx[a].id] = 0 \/ tx[a].id \in repaired

RepairIsDue == \A a \in Actors : DueRepair(a)

(* Nothing is granted for an order that is not there.                        *)
GrantsMatch ==
    /\ RewardsMatchStatus
    /\ \A o \in OrderIds \ DOMAIN order : granted[o] = 0

ShopInv == OneWriter /\ WriterIsFresh /\ RepairIsDue /\ GrantsMatch

(* The payouts that paid for an order.                                       *)
PaidIn(o) == {i \in DOMAIN payouts : o \in payouts[i]}

(* A commission is of a delivered order, marked as paid with its one payout, *)
(* and still payable when an administrator pays it.                          *)
LedgerMatches(o) ==
    /\ ledger[o] # "none" => o \in DOMAIN order /\ order[o].status = "fulfilled"
    /\ ledger[o] # "paid" => PaidIn(o) = {}
    /\ ledger[o] = "paid" => \E i \in DOMAIN payouts : PaidIn(o) = {i}

CommissionInv ==
    /\ \A o \in OrderIds : LedgerMatches(o)
    /\ \A d \in Actors : tx[d].pc = "pay" =>
         tx[d].batch \subseteq {o \in OrderIds : MayPay(o)}

-----------------------------------------------------------------------------
(* Lemmas about the operators. *)

Statuses == Status \cup {"none"}

Kinds == {"none", "approved", "completed", "return", "recover", "repair", "verified"}

Transactions ==
    [pc : {"idle", "read", "write", "pay"}, kind : Kinds, token : Tokens \cup {"none"},
     id : 0..MaxOrders, seen : Statuses, known : BOOLEAN, batch : SUBSET OrderIds]

Payments == {<<>>} \cup (Tokens \X {"token", "capture"})

Order == [token : Tokens, status : Status, payment : Payments]

(* An idle transaction is a transaction. *)
LEMMA NoTxType == NoTx \in Transactions
  BY ShopAssumption DEF NoTx, Transactions, Kinds, Statuses

(* Set changes the fields it names of the transaction it names, and no other. *)
LEMMA SetFields ==
    ASSUME TypeOK, NEW a \in Actors, NEW fields, Set(a, fields)
    PROVE  /\ tx[a] \in Transactions
           /\ tx' = [tx EXCEPT ![a] = [f \in Columns |->
                        IF f \in DOMAIN fields THEN fields[f] ELSE tx[a][f]]]
<1>1. tx[a] \in Transactions
  BY DEF TypeOK, Transactions, Kinds, Statuses
<1>2. DOMAIN tx[a] = Columns
  BY <1>1 DEF Transactions, Columns
<1> QED
  BY <1>1, <1>2 DEF Set, TypeOK

(* A report that begins: what it is and of which payment. *)
Begun(r, kind, t, i) == [pc |-> "read", kind |-> kind, token |-> t, id |-> i,
                         seen |-> r.seen, known |-> r.known, batch |-> r.batch]

(* A report that has read: the order it found and its status. *)
HasRead(r, o, status, known) ==
    [pc |-> "write", kind |-> r.kind, token |-> r.token, id |-> o,
     seen |-> status, known |-> known, batch |-> r.batch]

(* An administrator who has chosen what to pay. *)
Paying(r, batch) ==
    [pc |-> "pay", kind |-> r.kind, token |-> r.token, id |-> r.id,
     seen |-> r.seen, known |-> r.known, batch |-> batch]

(* What a report that begins leaves of its transaction. *)
LEMMA BeginEffect ==
    ASSUME TypeInv, NEW a \in Actors, NEW kind \in Kinds, NEW t \in Tokens, NEW i \in 0..MaxOrders,
           \/ Set(a, [pc |-> "read", kind |-> kind, token |-> t]) /\ i = tx[a].id
           \/ Set(a, [pc |-> "read", kind |-> kind, token |-> t, id |-> i])
    PROVE  /\ tx' = [tx EXCEPT ![a] = Begun(tx[a], kind, t, i)]
           /\ tx' \in [Actors -> Transactions]
<1> DEFINE three == [pc |-> "read", kind |-> kind, token |-> t]
           four == [pc |-> "read", kind |-> kind, token |-> t, id |-> i]
<1>1. TypeOK /\ tx \in [Actors -> Transactions] /\ tx[a] \in Transactions
  BY DEF TypeInv, TypeOK, Transactions, Kinds, Statuses
<1>2. Begun(tx[a], kind, t, i) \in Transactions
  BY <1>1 DEF Begun, Transactions
<1>3. i = tx[a].id => [f \in Columns |-> IF f \in DOMAIN three THEN three[f] ELSE tx[a][f]]
                        = Begun(tx[a], kind, t, i)
  BY <1>1 DEF Begun, Columns
<1>4. [f \in Columns |-> IF f \in DOMAIN four THEN four[f] ELSE tx[a][f]]
        = Begun(tx[a], kind, t, i)
  BY <1>1 DEF Begun, Columns
<1>5. tx' = [tx EXCEPT ![a] = Begun(tx[a], kind, t, i)]
  BY <1>1, <1>3, <1>4, SetFields
<1> QED
  BY <1>1, <1>2, <1>5

(* What a report that has read leaves of its transaction. *)
LEMMA ReadEffect ==
    ASSUME TypeInv, NEW a \in Actors, NEW o \in 0..MaxOrders, NEW status \in Statuses,
           NEW known \in BOOLEAN,
           Set(a, [pc |-> "write", id |-> o, seen |-> status, known |-> known])
    PROVE  /\ tx' = [tx EXCEPT ![a] = HasRead(tx[a], o, status, known)]
           /\ tx' \in [Actors -> Transactions]
<1> DEFINE fields == [pc |-> "write", id |-> o, seen |-> status, known |-> known]
<1>1. TypeOK /\ tx \in [Actors -> Transactions] /\ tx[a] \in Transactions
  BY DEF TypeInv, TypeOK, Transactions, Kinds, Statuses
<1>2. HasRead(tx[a], o, status, known) \in Transactions
  BY <1>1 DEF HasRead, Transactions
<1>3. [f \in Columns |-> IF f \in DOMAIN fields THEN fields[f] ELSE tx[a][f]]
        = HasRead(tx[a], o, status, known)
  BY <1>1 DEF HasRead, Columns
<1>4. tx' = [tx EXCEPT ![a] = HasRead(tx[a], o, status, known)]
  BY <1>1, <1>3, SetFields
<1> QED
  BY <1>1, <1>2, <1>4

(* What an administrator who has chosen a batch leaves of the transaction. *)
LEMMA PayEffect ==
    ASSUME TypeInv, NEW a \in Actors, NEW batch \in SUBSET OrderIds,
           Set(a, [pc |-> "pay", batch |-> batch])
    PROVE  /\ tx' = [tx EXCEPT ![a] = Paying(tx[a], batch)]
           /\ tx' \in [Actors -> Transactions]
<1> DEFINE fields == [pc |-> "pay", batch |-> batch]
<1>1. TypeOK /\ tx \in [Actors -> Transactions] /\ tx[a] \in Transactions
  BY DEF TypeInv, TypeOK, Transactions, Kinds, Statuses
<1>2. Paying(tx[a], batch) \in Transactions
  BY <1>1 DEF Paying, Transactions
<1>3. [f \in Columns |-> IF f \in DOMAIN fields THEN fields[f] ELSE tx[a][f]]
        = Paying(tx[a], batch)
  BY <1>1 DEF Paying, Columns
<1>4. tx' = [tx EXCEPT ![a] = Paying(tx[a], batch)]
  BY <1>1, <1>3, SetFields
<1> QED
  BY <1>1, <1>2, <1>4

(* Who quits holds nothing. *)
LEMMA QuitEffect ==
    ASSUME TypeInv, NEW a \in Actors, Quit(a)
    PROVE  tx' = [tx EXCEPT ![a] = NoTx] /\ tx' \in [Actors -> Transactions]
<1>1. tx \in [Actors -> Transactions]
  BY DEF TypeInv, TypeOK, Transactions, Kinds, Statuses
<1> QED
  BY <1>1, NoTxType DEF Quit

(* A set of naturals that is not empty has a least element. *)
LEMMA LeastNatural ==
    ASSUME NEW S \in SUBSET Nat, S # {}
    PROVE  Min(S) \in S /\ \A y \in S : Min(S) <= y
<1> DEFINE below == {pair \in Nat \X Nat : pair[1] < pair[2]}
<1>1. IsWellFoundedOn(below, Nat)
  BY NatLessThanWellFounded DEF OpToRel
<1>2. PICK x \in S : \A y \in S : <<y, x>> \notin below
  <2> HIDE DEF below
  <2> QED
    BY <1>1, WFMin
<1>3. ASSUME NEW y \in S PROVE x <= y
  <2>1. x \in Nat /\ y \in Nat /\ <<y, x>> \notin below
    BY <1>2
  <2> QED
    BY <2>1
<1> QED
  BY <1>3, Zenon DEF Min

(* The order of a payment that is looked up is one of them, if there is any. *)
LEMMA ResolveType ==
    ASSUME TypeInv, NEW t
    PROVE  /\ Resolve(t) \in 0..MaxOrders
           /\ Resolve(t) # 0 => Resolve(t) \in DOMAIN order /\ order[Resolve(t)].token = t
           /\ Resolve(t) = 0 <=> OrdersOf(t) = {}
<1>1. DOMAIN order = 1..Len(order) /\ Len(order) \in Nat /\ Len(order) <= MaxOrders
  BY DEF TypeInv, TypeOK
<1>2. MaxOrders \in Nat
  BY ShopAssumption
<1>3. OrdersOf(t) \subseteq 1..Len(order)
  BY <1>1 DEF OrdersOf
<1>4. CASE OrdersOf(t) = {}
  BY <1>2, <1>4 DEF Resolve
<1>5. CASE OrdersOf(t) # {}
  <2>1. Min(OrdersOf(t)) \in OrdersOf(t)
    BY <1>3, <1>5, LeastNatural
  <2> QED
    BY <1>1, <1>2, <1>3, <1>5, <2>1 DEF Resolve, OrdersOf
<1> QED
  BY <1>4, <1>5

(* An order that is looked up by its number or its payment is there, if any. *)
LEMMA LookupTypes ==
    ASSUME TypeInv, NEW t, NEW n \in 0..MaxOrders
    PROVE  /\ Numbered(n) \in 0..MaxOrders /\ (Numbered(n) # 0 => Numbered(n) \in DOMAIN order)
           /\ Booked(t) \in 0..MaxOrders /\ (Booked(t) # 0 => Booked(t) \in DOMAIN order)
           /\ Shown(t, n) \in 0..MaxOrders /\ (Shown(t, n) # 0 => Shown(t, n) \in DOMAIN order)
<1>1. DOMAIN order = 1..Len(order) /\ Len(order) \in Nat /\ Len(order) <= MaxOrders
  BY DEF TypeInv, TypeOK
<1>2. MaxOrders \in Nat
  BY ShopAssumption
<1>3. Numbered(n) \in 0..MaxOrders /\ (Numbered(n) # 0 => Numbered(n) \in DOMAIN order)
  BY <1>2 DEF Numbered
<1>4. Booked(t) \in 0..MaxOrders /\ (Booked(t) # 0 => Booked(t) \in DOMAIN order)
  <2> DEFINE booked == {o \in DOMAIN order : order[o].payment = <<t, "capture">>}
  <2>1. CASE booked = {}
    BY <1>2, <2>1 DEF Booked
  <2>2. CASE booked # {}
    <3>1. booked \in SUBSET Nat
      BY <1>1
    <3>2. Min(booked) \in booked
      <4> HIDE DEF booked
      <4> QED
        BY <2>2, <3>1, LeastNatural
    <3>3. Booked(t) = IF booked = {} THEN 0 ELSE Min(booked)
      BY DEF Booked
    <3>4. booked \subseteq DOMAIN order
      OBVIOUS
    <3> HIDE DEF booked
    <3> QED
      BY <1>1, <1>2, <2>2, <3>2, <3>3, <3>4
  <2> QED
    BY <2>1, <2>2
<1>5. Shown(t, n) \in 0..MaxOrders /\ (Shown(t, n) # 0 => Shown(t, n) \in DOMAIN order)
  <2>1. CASE Numbered(n) # 0 /\ PayerOf(n) = Payer[t]
    <3>1. Shown(t, n) = n /\ n \in DOMAIN order
      BY <2>1 DEF Shown, Numbered
    <3> QED
      BY <3>1
  <2>2. CASE ~(Numbered(n) # 0 /\ PayerOf(n) = Payer[t])
    BY <2>2, ResolveType DEF Shown
  <2> QED
    BY <2>1, <2>2
<1> QED
  BY <1>3, <1>4, <1>5

(* The row a writer leaves. *)
LEMMA ReplaceRow ==
    ASSUME NEW rows \in Seq(Order), NEW o \in 1..Len(rows), NEW row \in Order,
           NEW after, after = [rows EXCEPT ![o] = row]
    PROVE  /\ after \in Seq(Order) /\ Len(after) = Len(rows) /\ after[o] = row
           /\ \A p \in 1..Len(rows) : p # o => after[p] = rows[p]
  OBVIOUS

-----------------------------------------------------------------------------
(* Type correctness, on both databases. A report carries the order it found, *)
(* so TypeOK needs to know that this order is there and stays there.         *)

PayPalStates == {"none", "created", "approved", "captured"}

Events == {"approved", "completed", "return", "recover"} \X Tokens \X (0..MaxOrders)

LedgerStates == {"none", "held", "available", "paid"}

(* Rows are only added, and keep their payment. *)
OrderGrows ==
    /\ order' \in Seq(Order) /\ Len(order') <= MaxOrders
    /\ DOMAIN order \subseteq DOMAIN order'
    /\ \A o \in DOMAIN order : order'[o].token = order[o].token

(* The parts of TypeOK, in the words of the lemmas. *)
LEMMA TypeFacts ==
    ASSUME TypeInv
    PROVE  /\ paypal \in [Tokens -> PayPalStates] /\ order \in Seq(Order)
           /\ ref \in [Tokens -> 0..MaxOrders]
           /\ Len(order) \in Nat /\ Len(order) <= MaxOrders /\ MaxOrders \in Nat
           /\ DOMAIN order = 1..Len(order) /\ DOMAIN order \subseteq OrderIds
           /\ events \subseteq Events
           /\ repaired \subseteq DOMAIN order /\ byHand \subseteq DOMAIN order
           /\ granted \in [OrderIds -> Nat] /\ ledger \in [OrderIds -> LedgerStates]
           /\ payouts \in Seq(SUBSET OrderIds) /\ tx \in [Actors -> Transactions]
  BY ShopAssumption DEF TypeInv, TypeOK, PayPalStates, Order, Payments, Events, LedgerStates,
     Transactions, Kinds, Statuses, OrderIds

(* The type invariant from its parts, when one actor moves. *)
LEMMA StepKeepsType ==
    ASSUME TypeInv, OrderGrows, paypal' \in [Tokens -> PayPalStates],
           ref' \in [Tokens -> 0..MaxOrders],
           events' \subseteq Events, repaired' \subseteq DOMAIN order',
           byHand' \subseteq DOMAIN order', granted' \in [OrderIds -> Nat],
           ledger' \in [OrderIds -> LedgerStates], payouts' \in Seq(SUBSET OrderIds),
           tx' \in [Actors -> Transactions],
           \A b \in Actors : tx'[b] = tx[b] \/ NamesRowsOf(b)'
    PROVE  TypeInv'
<1>1. ASSUME NEW b \in Actors, tx'[b] = tx[b] PROVE NamesRowsOf(b)'
  BY <1>1 DEF TypeInv, NamesRows, NamesRowsOf, OrderGrows
<1>2. NamesRows'
  BY <1>1 DEF NamesRows
<1> QED
  BY <1>2 DEF TypeInv, TypeOK, OrderGrows, PayPalStates, Order, Payments, Events,
     LedgerStates, Transactions, Kinds, Statuses

(* Orders that do not change have grown. *)
LEMMA SameOrderGrows ==
    ASSUME TypeInv, order' = order
    PROVE  OrderGrows
  BY TypeFacts DEF OrderGrows

(* The buyer and PayPal. *)
LEMMA BuyerType ==
    ASSUME TypeInv, NEW t \in Tokens, Checkout(t) \/ CheckoutElsewhere(t) \/ Approve(t)
    PROVE  TypeInv'
<1>1. paypal' \in [Tokens -> PayPalStates] /\ tx' = tx
  BY TypeFacts DEF Checkout, CheckoutElsewhere, Approve, PayPalStates, Rows
<1>2. ref' \in [Tokens -> 0..MaxOrders]
  <2>1. CASE Checkout(t)
    <3>1. Len(order) + 1 \in 0..MaxOrders /\ ref' = [ref EXCEPT ![t] = Len(order) + 1]
      BY <2>1, TypeFacts DEF Checkout
    <3> QED
      BY <3>1, TypeFacts
  <2>2. CASE CheckoutElsewhere(t)
    <3>1. PICK n \in OrderIds : ref' = [ref EXCEPT ![t] = n]
      BY <2>2 DEF CheckoutElsewhere
    <3> QED
      BY <3>1, TypeFacts DEF OrderIds
  <2>3. CASE Approve(t)
    BY <2>3, TypeFacts DEF Approve
  <2> QED
    BY <2>1, <2>2, <2>3
<1>3. CASE Checkout(t)
  <2>1. NewOrder(t) \in Order
    BY DEF NewOrder, Order, Payments, Status
  <2>2. OrderGrows
    BY <1>3, <2>1, TypeFacts DEF Checkout, OrderGrows
  <2> QED
    BY <1>1, <1>2, <1>3, <2>2, TypeFacts, StepKeepsType DEF Checkout, OrderGrows
<1>4. CASE CheckoutElsewhere(t) \/ Approve(t)
  BY <1>1, <1>2, <1>4, TypeFacts, SameOrderGrows, StepKeepsType
     DEF CheckoutElsewhere, Approve, Rows
<1> QED
  BY <1>3, <1>4

(* Reports begin. *)
LEMMA ReportsType ==
    ASSUME TypeInv, NEW a \in Actors, Deliver(a) \/ OpenReturn(a) \/ OpenRepair(a)
    PROVE  TypeInv'
<1>1. UNCHANGED Rows /\ ref' = ref /\ tx[a].pc = "idle" /\ a \in Reporters
  BY DEF Deliver, OpenReturn, OpenRepair, Rows, Reporters
<1>2. paypal' \in [Tokens -> PayPalStates]
  BY TypeFacts DEF Deliver, OpenReturn, OpenRepair, PayPalStates, Captured
<1>3. OrderGrows
  BY <1>1, SameOrderGrows DEF Rows
<1>4. tx[a].id = 0
  BY <1>1 DEF TypeInv, NamesRows, NamesRowsOf, NoTx
<1> DEFINE Begins(kind, t, i) ==
        /\ kind # "none" /\ (kind \in {"repair", "verified"} => i # 0)
        /\ kind = "verified" => Postgres
        /\ i # 0 => i \in DOMAIN order
        /\ \/ Set(a, [pc |-> "read", kind |-> kind, token |-> t]) /\ i = tx[a].id
           \/ Set(a, [pc |-> "read", kind |-> kind, token |-> t, id |-> i])
<1>5. \E kind \in Kinds, t \in Tokens, i \in 0..MaxOrders : Begins(kind, t, i)
  <2>1. CASE Deliver(a)
    <3>1. PICK t \in Tokens, kind \in {"approved", "completed"} :
            Set(a, [pc |-> "read", kind |-> kind, token |-> t])
      BY <2>1 DEF Deliver
    <3>2. kind \in Kinds /\ 0 \in 0..MaxOrders
      BY TypeFacts DEF Kinds
    <3>3. Begins(kind, t, 0)
      BY <1>4, <3>1
    <3> QED
      BY <3>2, <3>3
  <2>2. CASE OpenReturn(a)
    <3>1. PICK t \in Tokens, n \in 0..MaxOrders :
            \/ Set(a, [pc |-> "read", kind |-> "recover", token |-> t])
            \/ Set(a, [pc |-> "read", kind |-> "return", token |-> t, id |-> Shown(t, n)])
      BY <2>2, TypeFacts DEF OpenReturn
    <3>2. Shown(t, n) \in 0..MaxOrders /\ (Shown(t, n) # 0 => Shown(t, n) \in DOMAIN order)
      BY LookupTypes
    <3>3. CASE Set(a, [pc |-> "read", kind |-> "recover", token |-> t])
      <4>1. "recover" \in Kinds /\ 0 \in 0..MaxOrders /\ Begins("recover", t, 0)
        BY <1>4, <3>3, TypeFacts DEF Kinds
      <4> QED
        BY <4>1
    <3>4. CASE Set(a, [pc |-> "read", kind |-> "return", token |-> t, id |-> Shown(t, n)])
      <4>1. "return" \in Kinds /\ Begins("return", t, Shown(t, n))
        BY <3>2, <3>4 DEF Kinds
      <4> QED
        BY <3>2, <4>1
    <3> QED
      BY <3>1, <3>3, <3>4
  <2>3. CASE OpenRepair(a)
    <3>1. PICK o \in DOMAIN order, kind \in {"recover", "repair", "verified"} :
            /\ kind # "repair" => Postgres
            /\ Set(a, [pc |-> "read", kind |-> kind, token |-> order[o].token,
                       id |-> IF kind = "recover" THEN 0 ELSE o])
      BY <2>3 DEF OpenRepair
    <3> DEFINE i == IF kind = "recover" THEN 0 ELSE o
    <3>2. order[o].token \in Tokens /\ i \in 0..MaxOrders /\ kind \in Kinds
      <4>1. order[o] \in Order /\ o \in 1..Len(order)
        BY TypeFacts
      <4>2. i \in 0..MaxOrders
        BY <4>1, TypeFacts
      <4> QED
        BY <4>1, <4>2 DEF Order, Kinds
    <3>3. i # 0 => i = o
      OBVIOUS
    <3>4. kind \in {"repair", "verified"} => i # 0
      BY TypeFacts
    <3>5. Set(a, [pc |-> "read", kind |-> kind, token |-> order[o].token, id |-> i])
      BY <3>1
    <3>6. kind # "none" /\ (kind = "verified" => Postgres)
      BY <3>1
    <3> HIDE DEF i
    <3>7. Begins(kind, order[o].token, i)
      BY <3>3, <3>4, <3>5, <3>6
    <3> HIDE DEF Begins
    <3> QED
      BY <3>2, <3>7
  <2> QED
    BY <2>1, <2>2, <2>3
<1>6. PICK kind \in Kinds, t \in Tokens, i \in 0..MaxOrders : Begins(kind, t, i)
  BY <1>5
<1>7. tx' = [tx EXCEPT ![a] = Begun(tx[a], kind, t, i)] /\ tx' \in [Actors -> Transactions]
  BY <1>6, BeginEffect
<1>8. NamesRowsOf(a)'
  BY <1>1, <1>6, <1>7, TypeFacts DEF NamesRowsOf, Begun, Rows
<1>9. \A b \in Actors : tx'[b] = tx[b] \/ NamesRowsOf(b)'
  BY <1>7, <1>8, TypeFacts
<1> QED
  BY <1>1, <1>2, <1>3, <1>7, <1>9, TypeFacts, StepKeepsType DEF Rows

(* What a report finds. *)
LEMMA TargetType ==
    ASSUME TypeInv, NEW a \in Actors, tx[a].pc = "read"
    PROVE  /\ Target(a) \in 0..MaxOrders
           /\ Target(a) # 0 => Target(a) \in DOMAIN order
           /\ tx[a].kind \in {"repair", "verified"} => Target(a) # 0 /\ Target(a) = tx[a].id
           /\ StatusOf(Target(a)) \in Statuses
<1>1. /\ tx[a].id # 0 => tx[a].id \in DOMAIN order
      /\ tx[a].token \in Tokens /\ tx[a].id \in 0..MaxOrders
  BY TypeFacts DEF TypeInv, NamesRows, NamesRowsOf, Transactions
<1>2. tx[a].kind \in {"repair", "verified"} => tx[a].id # 0
  BY DEF TypeInv, NamesRows, NamesRowsOf
<1>3. /\ Target(a) \in 0..MaxOrders
      /\ Target(a) # 0 => Target(a) \in DOMAIN order
  <2>1. ref[tx[a].token] \in 0..MaxOrders
    BY <1>1, TypeFacts
  <2> QED
    BY <1>1, <2>1, ResolveType, LookupTypes DEF Target
<1>4. ASSUME NEW o \in DOMAIN order PROVE order[o].status \in Status
  <2>1. order[o] \in Order
    BY TypeFacts
  <2> QED
    BY <2>1 DEF Order
<1>5. StatusOf(Target(a)) \in Statuses
  BY <1>3, <1>4 DEF StatusOf, Statuses
<1> QED
  BY <1>2, <1>3, <1>5 DEF Target

(* A report that reads keeps the types. *)
LEMMA ReadType ==
    ASSUME TypeInv, NEW a \in Actors, Read(a)
    PROVE  TypeInv'
<1> DEFINE o == Target(a)
<1>1. tx[a].pc = "read" /\ UNCHANGED <<ref, order, repaired, byHand, granted, ledger, payouts>>
  BY DEF Read
<1>2. a \in Reporters /\ tx[a].token \in Tokens /\ tx[a].kind # "none"
      /\ tx[a].kind \in Kinds /\ (tx[a].kind = "verified" => Postgres)
  BY <1>1, TypeFacts DEF TypeInv, NamesRows, NamesRowsOf, Transactions
<1>3. OrderGrows
  BY <1>1, SameOrderGrows
<1>4. paypal' \in [Tokens -> PayPalStates]
  BY <1>2, TypeFacts DEF Read, Captured, PayPalStates
<1>5. o \in 0..MaxOrders /\ StatusOf(o) \in Statuses
      /\ (o # 0 => o \in DOMAIN order)
      /\ (tx[a].kind \in {"repair", "verified"} => o # 0)
  BY <1>1, TargetType
<1>6. CASE Refused(a, o) \/ Done(a, o)
  <2>1. Quit(a)
    BY <1>6 DEF Read
  <2>2. events' \subseteq Events
    <3>1. \/ events' = events
          \/ /\ tx[a].kind \in {"approved", "completed", "return"}
             /\ events' = events \cup {EventOf(a, o)}
      <4>1. events' = IF tx[a].kind \in {"approved", "completed", "return"} /\ ~Refused(a, o)
                      THEN events \cup {EventOf(a, o)} ELSE events
        BY <1>6, Zenon DEF Read
      <4> QED
        BY <4>1
    <3> HIDE DEF o
    <3> QED
      BY <1>2, <1>5, <3>1, TypeFacts DEF EventOf, Events
  <2>3. tx' = [tx EXCEPT ![a] = NoTx] /\ tx' \in [Actors -> Transactions]
    BY <2>1, QuitEffect
  <2>4. \A b \in Actors : tx'[b] = tx[b] \/ NamesRowsOf(b)'
    BY <2>3, TypeFacts DEF NamesRowsOf, NoTx
  <2> QED
    BY <1>1, <1>3, <1>4, <2>2, <2>3, <2>4, TypeFacts, StepKeepsType
<1>7. CASE ~(Refused(a, o) \/ Done(a, o))
  <2> DEFINE known == EventOf(a, o) \in events
  <2>1. /\ Set(a, [pc |-> "write", id |-> o, seen |-> StatusOf(o), known |-> known])
        /\ events' = events
    BY <1>7 DEF Read
  <2>2. known \in BOOLEAN
    OBVIOUS
  <2> HIDE DEF o, known
  <2>3. /\ tx' = [tx EXCEPT ![a] = HasRead(tx[a], o, StatusOf(o), known)]
        /\ tx' \in [Actors -> Transactions]
    BY <1>5, <2>1, <2>2, ReadEffect
  <2>4. NamesRowsOf(a)'
    BY <1>1, <1>2, <1>5, <2>3, TypeFacts DEF NamesRowsOf, HasRead
  <2>5. \A b \in Actors : tx'[b] = tx[b] \/ NamesRowsOf(b)'
    BY <2>3, <2>4, TypeFacts
  <2> QED
    BY <1>1, <1>3, <1>4, <2>1, <2>3, <2>5, TypeFacts, StepKeepsType
<1> QED
  BY <1>6, <1>7

(* What a writer writes: the row it writes, among the rows with a new one.   *)
WrittenId(a) == IF tx[a].id = 0 THEN Len(order) + 1 ELSE tx[a].id

WrittenRows(a) == IF tx[a].id = 0 THEN Append(order, NewOrder(tx[a].token)) ELSE order

WrittenPayment(a) ==
    IF tx[a].id = 0 THEN <<tx[a].token, "capture">> ELSE PaymentOf(a, WrittenId(a))

(* The outcome of a delivery that grants so many units. *)
Wrote(a, units) ==
    LET o == WrittenId(a)
        ok == units = Units IN
    /\ ok \/ tx[a].kind = "return"
    /\ order' \in Seq(Order) /\ Len(order') = Len(WrittenRows(a))
    /\ \A p \in 1..Len(order') :
         /\ order'[p].token = WrittenRows(a)[p].token
         /\ p # o => order'[p] = WrittenRows(a)[p]
    /\ order'[o].status = IF ok THEN "fulfilled" ELSE "failed"
    /\ order'[o].payment = WrittenPayment(a)
    /\ granted' = [granted EXCEPT ![o] = @ + UnitsKept(units)]
    /\ ledger' \in IF ok THEN LedgersAfter(o) ELSE {ledger}
    /\ repaired' = IF IsEvent(tx[a].kind) THEN repaired ELSE repaired \cup {o}
    /\ byHand' = IF ok THEN byHand \ {o} ELSE byHand

(* What a report leaves of its order is a row. *)
LEMMA WrittenType ==
    ASSUME TypeInv, NEW a \in Actors, tx[a].pc = "write"
    PROVE  /\ WrittenRows(a) \in Seq(Order) /\ WrittenId(a) \in 1..Len(WrittenRows(a))
           /\ Len(order) <= Len(WrittenRows(a))
           /\ tx[a].id = 0 => WrittenRows(a)[WrittenId(a)].token = tx[a].token
           /\ \A p \in DOMAIN order : WrittenRows(a)[p] = order[p]
           /\ \A p \in 1..Len(WrittenRows(a)) : p # WrittenId(a) => p \in DOMAIN order
           /\ WrittenId(a) \in OrderIds => Len(WrittenRows(a)) <= MaxOrders
<1>1. tx[a].token \in Tokens /\ tx[a].id \in 0..MaxOrders
  BY TypeFacts DEF TypeInv, NamesRows, NamesRowsOf, Transactions
<1>2. CASE tx[a].id = 0
  <2>1. NewOrder(tx[a].token) \in Order /\ NewOrder(tx[a].token).token = tx[a].token
    BY <1>1 DEF NewOrder, Order, Payments, Status
  <2> QED
    BY <1>2, <2>1, TypeFacts DEF WrittenRows, WrittenId, OrderIds
<1>3. CASE tx[a].id # 0
  <2>1. tx[a].id \in DOMAIN order
    BY <1>3 DEF TypeInv, NamesRows, NamesRowsOf
  <2> QED
    BY <1>3, <2>1, TypeFacts DEF WrittenRows, WrittenId, OrderIds
<1> QED
  BY <1>2, <1>3

(* An order that somebody else has ended meanwhile is left alone. *)
LeftAlone(a) ==
    /\ tx[a].id # 0 /\ StatusAtFulfil(a, tx[a].id) \in {"fulfilled", "failed"}
    /\ UNCHANGED <<order, granted, ledger, byHand>>
    /\ repaired' = IF IsEvent(tx[a].kind) THEN repaired ELSE repaired \cup {tx[a].id}

(* What a report that writes changes, whether it delivers or not. *)
LEMMA WriteEffect ==
    ASSUME TypeInv, NEW a \in Actors, Write(a)
    PROVE  /\ tx[a].pc = "write" /\ WrittenId(a) \in OrderIds
           /\ ~Collides(a, WrittenId(a), WrittenPayment(a))
           /\ \/ LeftAlone(a)
              \/ \E units \in 0..Units : Wrote(a, units)
           /\ events' = IF IsEvent(tx[a].kind) THEN events \cup {EventOf(a, WrittenId(a))} ELSE events
           /\ Quit(a) /\ UNCHANGED <<paypal, ref, payouts>>
<1> DEFINE o == WrittenId(a)
           rows == WrittenRows(a)
           payment == WrittenPayment(a)
<1>1. tx[a].pc = "write" /\ o \in OrderIds
  BY DEF Write, WrittenId
<1>2. /\ ~Collides(a, o, payment)
      /\ \/ LeftAlone(a)
         \/ \E units \in 0..Units :
              LET ok == units = Units IN
              /\ ok \/ tx[a].kind = "return"
              /\ order' = [rows EXCEPT ![o] =
                             [rows[o] EXCEPT !.status = IF ok THEN "fulfilled" ELSE "failed",
                                             !.payment = payment]]
              /\ granted' = [granted EXCEPT ![o] = @ + UnitsKept(units)]
              /\ ledger' \in IF ok THEN LedgersAfter(o) ELSE {ledger}
              /\ repaired' = IF IsEvent(tx[a].kind) THEN repaired ELSE repaired \cup {o}
              /\ byHand' = IF ok THEN byHand \ {o} ELSE byHand
  BY DEF Write, WrittenId, WrittenRows, WrittenPayment, LeftAlone
<1>3. events' = (IF IsEvent(tx[a].kind) THEN events \cup {EventOf(a, o)} ELSE events)
      /\ Quit(a) /\ UNCHANGED <<paypal, ref, payouts>>
  BY DEF Write, WrittenId
<1>4. payment \in Payments
  <2>1. tx[a].token \in Tokens
    BY <1>1 DEF TypeInv, NamesRows, NamesRowsOf
  <2>2. CASE tx[a].id = 0
    BY <2>1, <2>2 DEF WrittenPayment, Payments
  <2>3. CASE tx[a].id # 0
    <3>1. order[o] \in Order
      BY <1>1, <2>3, TypeFacts DEF WrittenId, TypeInv, NamesRows, NamesRowsOf
    <3> QED
      BY <2>1, <2>3, <3>1 DEF WrittenPayment, PaymentOf, Order, Payments
  <2> QED
    BY <2>2, <2>3
<1>5. rows \in Seq(Order) /\ o \in 1..Len(rows)
  BY <1>1, WrittenType
<1> HIDE DEF o, rows, payment
<1>6. ASSUME NEW units \in 0..Units,
             units = Units \/ tx[a].kind = "return",
             order' = [rows EXCEPT ![o] =
                         [rows[o] EXCEPT !.status = IF units = Units THEN "fulfilled" ELSE "failed",
                                         !.payment = payment]],
             granted' = [granted EXCEPT ![o] = @ + UnitsKept(units)],
             ledger' \in IF units = Units THEN LedgersAfter(o) ELSE {ledger},
             repaired' = IF IsEvent(tx[a].kind) THEN repaired ELSE repaired \cup {o},
             byHand' = IF units = Units THEN byHand \ {o} ELSE byHand
      PROVE  Wrote(a, units)
  <2> DEFINE status == IF units = Units THEN "fulfilled" ELSE "failed"
             old == rows[o]
             row == [old EXCEPT !.status = status, !.payment = payment]
  <2>1. status \in Status
    BY DEF Status
  <2>2. order' = [rows EXCEPT ![o] = row]
    BY <1>6
  <2>3. /\ row \in Order /\ row.token = rows[o].token
        /\ row.status = status /\ row.payment = payment
    <3> HIDE DEF status
    <3>1. old \in Order
      BY <1>5
    <3> HIDE DEF old
    <3>2. row \in Order /\ row.token = old.token /\ row.status = status /\ row.payment = payment
      BY <1>4, <2>1, <3>1 DEF Order
    <3> HIDE DEF row
    <3> QED
      BY <3>2 DEF old
  <2> HIDE DEF status, row
  <2>5. /\ order' \in Seq(Order) /\ Len(order') = Len(rows) /\ order'[o] = row
        /\ \A p \in 1..Len(rows) : p # o => order'[p] = rows[p]
    BY <1>5, <2>2, <2>3, ReplaceRow
  <2>6. \A p \in 1..Len(order') :
          order'[p].token = rows[p].token /\ (p # o => order'[p] = rows[p])
    BY <2>3, <2>5
  <2>7. order'[o].status = status /\ order'[o].payment = payment
    BY <2>3, <2>5
  <2> QED
    BY <1>6, <2>5, <2>6, <2>7, Zenon DEF Wrote, o, rows, status, payment
<1> QED
  BY <1>1, <1>2, <1>3, <1>6 DEF o, payment

(* A commission on top leaves a ledger. *)
LEMMA LedgersType ==
    ASSUME TypeInv, NEW o, ledger' \in LedgersAfter(o)
    PROVE  ledger' \in [OrderIds -> LedgerStates]
  BY TypeFacts DEF LedgersAfter, LedgerStates

(* A report that writes keeps the types. *)
LEMMA WriteType ==
    ASSUME TypeInv, NEW a \in Actors, Write(a)
    PROVE  TypeInv'
<1> DEFINE o == WrittenId(a)
           rows == WrittenRows(a)
<1>1. tx[a].pc = "write" /\ o \in OrderIds /\ Quit(a) /\ UNCHANGED <<paypal, ref, payouts>>
  BY WriteEffect
<1>2. tx[a].token \in Tokens /\ tx[a].kind \in Kinds
  BY <1>1, TypeFacts DEF TypeInv, NamesRows, NamesRowsOf, Transactions
<1>3. events' \subseteq Events
  <2>1. events' = IF IsEvent(tx[a].kind) THEN events \cup {EventOf(a, o)} ELSE events
    BY WriteEffect
  <2> HIDE DEF o
  <2> QED
    BY <1>1, <1>2, <2>1, TypeFacts DEF EventOf, IsEvent, Events, OrderIds
<1>4. tx' = [tx EXCEPT ![a] = NoTx] /\ tx' \in [Actors -> Transactions]
  BY <1>1, QuitEffect
<1>5. \A b \in Actors : tx'[b] = tx[b] \/ NamesRowsOf(b)'
  BY <1>4, TypeFacts DEF NamesRowsOf, NoTx
<1>6. CASE LeftAlone(a)
  <2>1. tx[a].id \in DOMAIN order
    BY <1>1, <1>6 DEF LeftAlone, TypeInv, NamesRows, NamesRowsOf
  <2>2. order' = order /\ repaired' \subseteq DOMAIN order'
    BY <1>6, <2>1, TypeFacts DEF LeftAlone
  <2> QED
    BY <1>1, <1>3, <1>4, <1>5, <1>6, <2>2, TypeFacts, SameOrderGrows, StepKeepsType
       DEF LeftAlone
<1>7. ASSUME NEW units \in 0..Units, Wrote(a, units) PROVE TypeInv'
  <2>1. /\ rows \in Seq(Order) /\ o \in 1..Len(rows) /\ Len(order) <= Len(rows)
        /\ \A p \in DOMAIN order : rows[p] = order[p]
        /\ Len(rows) <= MaxOrders
    BY <1>1, WrittenType
  <2>2. /\ order' \in Seq(Order) /\ Len(order') = Len(rows)
        /\ \A p \in 1..Len(order') : order'[p].token = rows[p].token
    BY <1>7 DEF Wrote
  <2>3. DOMAIN order \subseteq DOMAIN order' /\ o \in DOMAIN order'
    BY <2>1, <2>2, TypeFacts
  <2>4. OrderGrows
    BY <2>1, <2>2, <2>3 DEF OrderGrows
  <2>5. repaired' \subseteq DOMAIN order' /\ byHand' \subseteq DOMAIN order'
    BY <1>7, <2>3, TypeFacts DEF Wrote
  <2>6. granted' \in [OrderIds -> Nat]
    <3>1. UnitsKept(units) \in Nat
      BY ShopAssumption DEF UnitsKept
    <3>2. granted' = [granted EXCEPT ![o] = granted[o] + UnitsKept(units)]
      BY <1>7 DEF Wrote
    <3> QED
      BY <1>1, <3>1, <3>2, TypeFacts
  <2>7. ledger' \in [OrderIds -> LedgerStates]
    <3>1. ledger' = ledger \/ ledger' \in LedgersAfter(o)
      BY <1>7 DEF Wrote
    <3> QED
      BY <3>1, LedgersType, TypeFacts
  <2> QED
    BY <1>1, <1>3, <1>4, <1>5, <2>4, <2>5, <2>6, <2>7, TypeFacts, StepKeepsType
<1> QED
  BY <1>6, <1>7, WriteEffect

(* Somebody sets the status by hand. *)
LEMMA MarkEffect ==
    ASSUME TypeInv, NEW o \in DOMAIN order, MarkByHand(o)
    PROVE  \E status \in {"paid", "fulfilled"} :
             /\ order' \in Seq(Order) /\ Len(order') = Len(order)
             /\ order'[o].status = status /\ order'[o].token = order[o].token
             /\ order'[o].payment = order[o].payment
             /\ \A p \in DOMAIN order : p # o => order'[p] = order[p]
             /\ byHand' = IF status = "fulfilled" THEN byHand \cup {o} ELSE byHand
<1>1. PICK status \in {"paid", "fulfilled"} :
        /\ order' = [order EXCEPT ![o].status = status]
        /\ byHand' = IF status = "fulfilled" THEN byHand \cup {o} ELSE byHand
  BY DEF MarkByHand
<1> DEFINE old == order[o]
           row == [old EXCEPT !.status = status]
<1>2. order' = [order EXCEPT ![o] = row]
  BY <1>1
<1>3. old \in Order /\ status \in Status
  BY TypeFacts DEF Status
<1>4. /\ row \in Order /\ row.token = order[o].token /\ row.status = status
      /\ row.payment = order[o].payment
  <2> HIDE DEF old
  <2>1. /\ row \in Order /\ row.token = old.token /\ row.status = status
        /\ row.payment = old.payment
    BY <1>3 DEF Order
  <2> HIDE DEF row
  <2> QED
    BY <2>1 DEF old
<1> HIDE DEF row
<1>5. order \in Seq(Order) /\ o \in 1..Len(order) /\ DOMAIN order = 1..Len(order)
  BY TypeFacts
<1>6. /\ order' \in Seq(Order) /\ Len(order') = Len(order) /\ order'[o] = row
      /\ \A p \in DOMAIN order : p # o => order'[p] = order[p]
  BY <1>2, <1>4, <1>5, ReplaceRow
<1> QED
  BY <1>1, <1>4, <1>6

(* A change by hand keeps the types. *)
LEMMA MarkType ==
    ASSUME TypeInv, NEW o \in DOMAIN order, MarkByHand(o)
    PROVE  TypeInv'
<1>1. PICK status \in {"paid", "fulfilled"} :
        /\ order' \in Seq(Order) /\ Len(order') = Len(order)
        /\ order'[o].token = order[o].token
        /\ \A p \in DOMAIN order : p # o => order'[p] = order[p]
        /\ byHand' = IF status = "fulfilled" THEN byHand \cup {o} ELSE byHand
  BY MarkEffect
<1>2. UNCHANGED <<paypal, ref, events, repaired, granted, ledger, payouts, tx>>
  BY DEF MarkByHand
<1>3. OrderGrows
  <2>1. \A p \in DOMAIN order : order'[p].token = order[p].token
    BY <1>1
  <2>2. DOMAIN order' = DOMAIN order
    BY <1>1, TypeFacts
  <2> QED
    BY <1>1, <2>1, <2>2, TypeFacts DEF OrderGrows
<1>4. byHand' \subseteq DOMAIN order' /\ repaired' \subseteq DOMAIN order'
  BY <1>1, <1>2, <1>3, TypeFacts DEF OrderGrows
<1> QED
  BY <1>2, <1>3, <1>4, TypeFacts, StepKeepsType

(* Transactions that pay out, and those that end without writing. *)
LEMMA PayoutType ==
    ASSUME TypeInv, NEW a \in Actors, ReadPayout(a) \/ Pay(a) \/ RollBack(a)
    PROVE  TypeInv'
<1>1. UNCHANGED <<paypal, ref, order, events, repaired, byHand, granted>>
  BY DEF ReadPayout, Pay, RollBack, Rows
<1>2. OrderGrows
  BY <1>1, SameOrderGrows
<1>3. CASE ReadPayout(a)
  <2>1. PICK batch \in SUBSET OrderIds : Set(a, [pc |-> "pay", batch |-> batch])
    BY <1>3 DEF ReadPayout
  <2>2. tx' = [tx EXCEPT ![a] = Paying(tx[a], batch)] /\ tx' \in [Actors -> Transactions]
    BY <2>1, PayEffect
  <2>3. \A b \in Actors : tx'[b] = tx[b] \/ NamesRowsOf(b)'
    BY <1>3, <2>2, TypeFacts DEF ReadPayout, NamesRowsOf, Paying
  <2> QED
    BY <1>1, <1>2, <1>3, <2>2, <2>3, TypeFacts, StepKeepsType DEF ReadPayout, Rows
<1>4. ASSUME Quit(a), payouts' \in Seq(SUBSET OrderIds), ledger' \in [OrderIds -> LedgerStates]
      PROVE  TypeInv'
  <2>1. tx' = [tx EXCEPT ![a] = NoTx] /\ tx' \in [Actors -> Transactions]
    BY <1>4, QuitEffect
  <2>2. \A b \in Actors : tx'[b] = tx[b] \/ NamesRowsOf(b)'
    BY <2>1, TypeFacts DEF NamesRowsOf, NoTx
  <2> QED
    BY <1>1, <1>2, <1>4, <2>1, <2>2, TypeFacts, StepKeepsType
<1>5. CASE Pay(a)
  <2>1. tx[a].batch \in SUBSET OrderIds
    BY TypeFacts DEF Transactions
  <2>2. payouts' \in Seq(SUBSET OrderIds) /\ ledger' \in [OrderIds -> LedgerStates]
    BY <1>5, <2>1, TypeFacts DEF Pay, LedgerStates
  <2> QED
    BY <1>4, <1>5, <2>2 DEF Pay
<1>6. CASE RollBack(a)
  BY <1>4, <1>6, TypeFacts DEF RollBack, Rows
<1> QED
  BY <1>3, <1>5, <1>6

(* The types hold at the start. *)
LEMMA InitType == Init => TypeInv
<1> SUFFICES ASSUME Init PROVE TypeInv
  OBVIOUS
<1>1. tx \in [Actors -> Transactions]
  BY NoTxType DEF Init
<1>2. /\ order \in Seq(Order) /\ payouts \in Seq(SUBSET OrderIds) /\ Len(order) <= MaxOrders
      /\ ref \in [Tokens -> 0..MaxOrders]
  BY ShopAssumption DEF Init
<1>3. NamesRows
  BY DEF Init, NamesRows, NamesRowsOf, NoTx
<1> QED
  BY <1>1, <1>2, <1>3 DEF Init, TypeInv, TypeOK, Order, Payments, Transactions, Kinds, Statuses

(* Every step keeps the types, on both databases. *)
LEMMA StepType == TypeInv /\ [Next]_vars => TypeInv'
<1> SUFFICES ASSUME TypeInv, [Next]_vars PROVE TypeInv'
  OBVIOUS
<1>1. ASSUME NEW t \in Tokens, Checkout(t) \/ CheckoutElsewhere(t) \/ Approve(t) PROVE TypeInv'
  BY <1>1, BuyerType
<1>2. ASSUME NEW o \in DOMAIN order, MarkByHand(o) PROVE TypeInv'
  BY <1>2, MarkType
<1>3. ASSUME NEW a \in Actors,
             \/ Deliver(a) \/ OpenReturn(a) \/ OpenRepair(a) \/ ReadPayout(a)
             \/ Read(a) \/ Write(a) \/ Pay(a) \/ RollBack(a)
      PROVE  TypeInv'
  BY <1>3, ReportsType, ReadType, WriteType, PayoutType
<1>4. CASE UNCHANGED vars
  <2>1. \A b \in Actors : NamesRowsOf(b)' <=> NamesRowsOf(b)
    BY <1>4 DEF vars, NamesRowsOf
  <2> QED
    BY <1>4, <2>1 DEF vars, TypeInv, TypeOK, NamesRows
<1> QED
  BY <1>1, <1>2, <1>3, <1>4 DEF Next

(* Every variable has its type, on SQLite and on PostgreSQL.                 *)
THEOREM TypeCorrect == Spec => []TypeOK
<1>1. Spec => []TypeInv
  BY InitType, StepType, PTL DEF Spec
<1>2. TypeInv => TypeOK
  BY DEF TypeInv
<1> QED
  BY <1>1, <1>2, PTL

-----------------------------------------------------------------------------
(* Payments, on both databases. Any report may book its payment on an order  *)
(* that was made for another, and two return pages may look for the order of *)
(* a payment before either makes it. What keeps an order covered by money is *)
(* that a report captures its own payment first; what keeps a payment to one *)
(* order is that the one a recovery makes stays booked on the capture, which *)
(* the next recovery would have to book again.                               *)

(* A captured payment stays captured, one that was made stays made.          *)
PayPalGrows ==
    \A t \in Tokens : /\ paypal[t] # "none" => paypal'[t] # "none"
                      /\ paypal[t] = "captured" => paypal'[t] = "captured"

(* A captured payment stays captured. *)
LEMMA CaptureGrows ==
    ASSUME TypeInv, NEW t, UNCHANGED paypal \/ Captured(t)
    PROVE  PayPalGrows
  BY TypeFacts DEF Captured, PayPalGrows

(* The columns of an order, spelled out. *)
LEMMA TokensOfOrders ==
    ASSUME TypeInv, NEW o \in DOMAIN order
    PROVE  /\ order[o].token \in Tokens /\ order[o].status \in Status
           /\ order[o].payment \in Payments
           /\ order[o].payment # <<>> => order[o].payment[1] \in Tokens
<1>1. order[o] \in Order
  BY TypeFacts
<1>2. order[o].payment \in Payments
  BY <1>1 DEF Order
<1>3. ASSUME NEW payment \in Payments, payment # <<>> PROVE payment[1] \in Tokens
  BY <1>3 DEF Payments
<1> QED
  BY <1>1, <1>2, <1>3 DEF Order

(* What is booked on an order is captured; its own payment is when an        *)
(* operator marked it as paid, and when it delivered with none booked.       *)
CoveredOrder(o) ==
    /\ paypal[order[o].token] # "none"
    /\ order[o].status = "paid" => paypal[order[o].token] = "captured"
    /\ order[o].payment # <<>> => paypal[order[o].payment[1]] = "captured"
    /\ granted[o] > 0 => order[o].payment # <<>> \/ paypal[order[o].token] = "captured"

AllCovered == \A o \in DOMAIN order : CoveredOrder(o)

(* No two orders are made for one PayPal order or booked on one payment.     *)
OneOfEach ==
    \A o, p \in DOMAIN order : o # p =>
        /\ order[o].token # order[p].token
        /\ order[o].payment = <<>> \/ order[o].payment # order[p].payment

(* A report has captured its payment when it writes, a repair is about an    *)
(* order of that payment, and only a recovery makes an order.                *)
Backed(a) ==
    /\ tx[a].pc \in {"read", "write"} =>
         /\ tx[a].kind = "return" => tx[a].id # 0
         /\ tx[a].pc = "write" \/ tx[a].kind \notin {"return", "recover"}
              => paypal[tx[a].token] = "captured"
         /\ tx[a].kind \in {"repair", "verified"} => order[tx[a].id].token = tx[a].token
    /\ tx[a].pc = "write" =>
         /\ tx[a].seen = "paid" =>
              tx[a].id # 0 /\ paypal[order[tx[a].id].token] = "captured"
         /\ tx[a].id = 0 => tx[a].kind = "recover"

AllBacked == \A a \in Actors : Backed(a)

(* An order that a recovery made: it is fulfilled for good and stays booked  *)
(* on the capture, since only a repair writes it again.                      *)
Sealed(o) ==
    /\ order[o].status = "fulfilled"
    /\ order[o].payment = <<order[o].token, "capture">>
    /\ \A b \in Actors : tx[b].pc = "write" /\ tx[b].id = o => tx[b].kind = "repair"

(* Where a recovery will make an order, those made since it looked are such. *)
RecoveriesMeetSealed ==
    \A a \in Actors : tx[a].pc = "write" /\ tx[a].id = 0 =>
        \A o \in OrdersOf(tx[a].token) : Sealed(o)

NothingGrantedYet == \A o \in OrderIds \ DOMAIN order : granted[o] = 0

PaymentsInv ==
    /\ AllCovered /\ OneOfEach /\ AllBacked /\ RecoveriesMeetSealed
    /\ NothingGrantedYet

(* Rows that keep their payments; only one that is not fulfilled changes.    *)
SamePayments ==
    /\ DOMAIN order' = DOMAIN order
    /\ \A o \in DOMAIN order :
         /\ order'[o].token = order[o].token /\ order'[o].payment = order[o].payment
         /\ \/ order'[o].status = order[o].status
            \/ order[o].status # "fulfilled" /\ paypal'[order[o].token] = "captured"

(* A transaction that begins to write has found no order that is fulfilled,  *)
(* unless it repairs it, and makes one only where there is none.             *)
Enters(b) ==
    /\ Backed(b)'
    /\ tx'[b].pc = "write" =>
         /\ tx'[b].id # 0 /\ order[tx'[b].id].status = "fulfilled" => tx'[b].kind = "repair"
         /\ tx'[b].id = 0 => OrdersOf(tx'[b].token) = {}

(* Orders that do not change belong to the same payments. *)
LEMMA SameOrders ==
    ASSUME order' = order
    PROVE  SamePayments
  BY DEF SamePayments

(* A step that adds no order and delivers nothing keeps the payments right.  *)
LEMMA PaymentsStay ==
    ASSUME TypeInv, PaymentsInv, PayPalGrows, SamePayments, granted' = granted,
           \A b \in Actors : tx'[b] = tx[b] \/ Enters(b)
    PROVE  PaymentsInv'
<1>1. ASSUME NEW o \in DOMAIN order PROVE CoveredOrder(o)'
  <2>1. CoveredOrder(o)
    BY DEF PaymentsInv, AllCovered
  <2> QED
    BY <2>1, TokensOfOrders DEF CoveredOrder, PayPalGrows, SamePayments
<1>2. AllCovered'
  BY <1>1 DEF AllCovered, SamePayments
<1>3. OneOfEach'
  BY DEF PaymentsInv, OneOfEach, SamePayments
<1>4. NothingGrantedYet'
  BY DEF PaymentsInv, NothingGrantedYet, SamePayments
<1>5. ASSUME NEW b \in Actors, tx'[b] = tx[b] PROVE Backed(b)'
  <2>1. Backed(b) /\ NamesRowsOf(b)
    BY DEF PaymentsInv, AllBacked, TypeInv, NamesRows
  <2>2. tx[b].pc \in {"read", "write"} =>
          /\ tx[b].token \in Tokens
          /\ tx[b].id # 0 => tx[b].id \in DOMAIN order /\ order[tx[b].id].token \in Tokens
                             /\ order'[tx[b].id].token = order[tx[b].id].token
          /\ tx[b].kind \in {"repair", "verified"} => tx[b].id # 0
    BY <2>1, TokensOfOrders DEF NamesRowsOf, SamePayments
  <2> QED
    BY <1>5, <2>1, <2>2 DEF Backed, PayPalGrows
<1>6. AllBacked'
  BY <1>5 DEF AllBacked, Enters
<1>7. ASSUME NEW o \in DOMAIN order, Sealed(o) PROVE Sealed(o)'
  <2>1. order'[o].status = "fulfilled" /\ order'[o].payment = <<order'[o].token, "capture">>
    BY <1>7 DEF Sealed, SamePayments
  <2>2. ASSUME NEW b \in Actors, tx'[b].pc = "write", tx'[b].id = o
        PROVE  tx'[b].kind = "repair"
    <3>1. o # 0
      BY TypeFacts
    <3> QED
      BY <1>7, <2>2, <3>1 DEF Sealed, Enters
  <2> QED
    BY <2>1, <2>2 DEF Sealed
<1>8. \A t : {o \in DOMAIN order' : order'[o].token = t} = OrdersOf(t)
  BY DEF OrdersOf, SamePayments
<1>9. ASSUME NEW b \in Actors, tx'[b].pc = "write", tx'[b].id = 0,
             NEW o \in OrdersOf(tx'[b].token)
      PROVE  Sealed(o)'
  <2>1. tx'[b] = tx[b]
    BY <1>9 DEF Enters
  <2>2. Sealed(o) /\ o \in DOMAIN order
    BY <1>9, <2>1 DEF PaymentsInv, RecoveriesMeetSealed, OrdersOf
  <2> QED
    BY <1>7, <2>2
<1>10. RecoveriesMeetSealed'
  BY <1>8, <1>9 DEF RecoveriesMeetSealed, OrdersOf
<1> QED
  BY <1>2, <1>3, <1>4, <1>6, <1>10 DEF PaymentsInv

(* The buyer: a payment that is only made now has no order and no writer.    *)
LEMMA BuyerPays ==
    ASSUME TypeInv, PaymentsInv, NEW t \in Tokens,
           Checkout(t) \/ CheckoutElsewhere(t) \/ Approve(t)
    PROVE  PaymentsInv'
<1>1. tx' = tx /\ granted' = granted
  BY DEF Checkout, CheckoutElsewhere, Approve, Rows
<1>2. PayPalGrows
  BY TypeFacts DEF Checkout, CheckoutElsewhere, Approve, PayPalGrows
<1>3. CASE CheckoutElsewhere(t) \/ Approve(t)
  <2>1. order' = order
    BY <1>3 DEF CheckoutElsewhere, Approve, Rows
  <2> QED
    BY <1>1, <1>2, <2>1, SameOrders, PaymentsStay
<1>4. CASE Checkout(t)
  <2>1. PICK n \in OrderIds :
        /\ order' = Append(order, NewOrder(t)) /\ n = Len(order) + 1
        /\ paypal[t] = "none" /\ paypal' = [paypal EXCEPT ![t] = "created"]
    BY <1>4, TypeFacts DEF Checkout, OrderIds
  <2>2. /\ DOMAIN order' = DOMAIN order \cup {n} /\ n \notin DOMAIN order
        /\ \A o \in DOMAIN order : order'[o] = order[o]
        /\ order'[n].token = t /\ order'[n].status = "pending" /\ order'[n].payment = <<>>
    BY <2>1, TypeFacts DEF NewOrder
  <2>3. \A o \in DOMAIN order : order[o].token # t
    BY <2>1 DEF PaymentsInv, AllCovered, CoveredOrder
  <2>4. granted[n] = 0 /\ paypal'[t] # "none"
    BY <2>1, <2>2, TypeFacts DEF PaymentsInv, NothingGrantedYet
  <2>5. AllCovered'
    <3>1. ASSUME NEW o \in DOMAIN order PROVE CoveredOrder(o)'
      <4>1. CoveredOrder(o)
        BY DEF PaymentsInv, AllCovered
      <4> QED
        <5>1. order'[o] = order[o] /\ granted'[o] = granted[o]
          BY <1>1, <2>2
        <5>2. /\ order[o].token \in Tokens
              /\ order[o].payment # <<>> => order[o].payment[1] \in Tokens
          BY TokensOfOrders
        <5> QED
          BY <1>2, <4>1, <5>1, <5>2 DEF CoveredOrder, PayPalGrows
    <3>2. CoveredOrder(n)'
      <4>1. ~(granted'[n] > 0)
        BY <1>1, <2>4
      <4> QED
        BY <2>2, <2>4, <4>1 DEF CoveredOrder
    <3> QED
      BY <2>2, <3>1, <3>2 DEF AllCovered
  <2>6. OneOfEach'
    BY <2>2, <2>3 DEF PaymentsInv, OneOfEach
  <2>7. NothingGrantedYet'
    BY <1>1, <2>2 DEF PaymentsInv, NothingGrantedYet
  <2>8. ASSUME NEW b \in Actors PROVE Backed(b)'
    <3>1. Backed(b) /\ NamesRowsOf(b)
      BY DEF PaymentsInv, AllBacked, TypeInv, NamesRows
    <3>2. tx[b].pc \in {"read", "write"} =>
            /\ tx[b].token \in Tokens
            /\ tx[b].id # 0 => tx[b].id \in DOMAIN order /\ order[tx[b].id].token \in Tokens
                               /\ order'[tx[b].id].token = order[tx[b].id].token
            /\ tx[b].kind \in {"repair", "verified"} => tx[b].id # 0
      BY <2>2, <3>1, TokensOfOrders DEF NamesRowsOf
    <3> QED
      BY <1>1, <1>2, <3>1, <3>2 DEF Backed, PayPalGrows
  <2>9. RecoveriesMeetSealed'
    <3>1. ASSUME NEW b \in Actors, tx'[b].pc = "write", tx'[b].id = 0,
                 NEW o \in DOMAIN order', order'[o].token = tx'[b].token
          PROVE  Sealed(o)'
      <4>1. tx'[b].token # t
        BY <1>1, <2>1, <3>1 DEF PaymentsInv, AllBacked, Backed
      <4>2. o \in DOMAIN order /\ order'[o] = order[o]
        BY <2>2, <3>1, <4>1
      <4>3. Sealed(o)
        BY <1>1, <3>1, <4>2 DEF PaymentsInv, RecoveriesMeetSealed, OrdersOf
      <4> QED
        BY <1>1, <4>2, <4>3 DEF Sealed
    <3> QED
      BY <3>1 DEF RecoveriesMeetSealed, OrdersOf
  <2> QED
    BY <2>5, <2>6, <2>7, <2>8, <2>9 DEF PaymentsInv, AllBacked
<1> QED
  BY <1>3, <1>4

(* A status set by hand delivers nothing. *)
LEMMA MarkPays ==
    ASSUME TypeInv, PaymentsInv, NEW o \in DOMAIN order, MarkByHand(o)
    PROVE  PaymentsInv'
<1>1. /\ UNCHANGED <<paypal, granted, tx>> /\ paypal[order[o].token] = "captured"
      /\ order[o].status # "fulfilled"
  BY DEF MarkByHand
<1>2. /\ order' \in Seq(Order) /\ Len(order') = Len(order)
      /\ order'[o].token = order[o].token /\ order'[o].payment = order[o].payment
      /\ \A p \in DOMAIN order : p # o => order'[p] = order[p]
  BY MarkEffect
<1>3. SamePayments
  <2>1. DOMAIN order' = DOMAIN order
    BY <1>2, TypeFacts
  <2> QED
    BY <1>1, <1>2, <2>1 DEF SamePayments
<1>4. PayPalGrows
  BY <1>1 DEF PayPalGrows
<1> QED
  BY <1>1, <1>3, <1>4, PaymentsStay

(* Reports begin: a webhook and a repair with the money, a return page of an *)
(* order that is there with its number.                                      *)
LEMMA ReportsPay ==
    ASSUME TypeInv, PaymentsInv, NEW a \in Actors,
           Deliver(a) \/ OpenReturn(a) \/ OpenRepair(a)
    PROVE  PaymentsInv'
<1>1. UNCHANGED <<order, granted>>
  BY DEF Deliver, OpenReturn, OpenRepair, Rows
<1>2. PayPalGrows
  <2>1. CASE Deliver(a)
    BY <2>1, CaptureGrows DEF Deliver
  <2>2. CASE OpenReturn(a) \/ OpenRepair(a)
    BY <2>2, CaptureGrows DEF OpenReturn, OpenRepair
  <2> QED
    BY <2>1, <2>2
<1>3. tx[a].id = 0
  BY DEF Deliver, OpenReturn, OpenRepair, TypeInv, NamesRows, NamesRowsOf, NoTx
<1>4. ASSUME NEW kind \in Kinds, NEW t \in Tokens, NEW i \in 0..MaxOrders,
             \/ Set(a, [pc |-> "read", kind |-> kind, token |-> t]) /\ i = tx[a].id
             \/ Set(a, [pc |-> "read", kind |-> kind, token |-> t, id |-> i]),
             kind = "return" => i # 0,
             kind \notin {"return", "recover"} => paypal'[t] = "captured",
             kind \in {"repair", "verified"} => order[i].token = t
      PROVE  PaymentsInv'
  <2>1. tx' = [tx EXCEPT ![a] = Begun(tx[a], kind, t, i)]
    BY <1>4, BeginEffect
  <2>2. /\ \A b \in Actors : b # a => tx'[b] = tx[b]
        /\ tx'[a].pc = "read" /\ tx'[a].kind = kind /\ tx'[a].id = i /\ tx'[a].token = t
    BY <2>1, TypeFacts DEF Begun
  <2>3. Enters(a)
    BY <1>1, <1>4, <2>2 DEF Enters, Backed
  <2> QED
    BY <1>1, <1>2, <2>2, <2>3, SameOrders, PaymentsStay
<1>5. CASE Deliver(a)
  <2>1. PICK t \in Tokens, kind \in {"approved", "completed"} :
          Captured(t) /\ Set(a, [pc |-> "read", kind |-> kind, token |-> t])
    BY <1>5 DEF Deliver
  <2>2. /\ kind \in Kinds /\ 0 \in 0..MaxOrders /\ kind \notin {"repair", "verified", "return"}
        /\ paypal'[t] = "captured"
    BY <2>1, TypeFacts DEF Kinds, Captured
  <2> QED
    BY <1>3, <1>4, <2>1, <2>2
<1>6. CASE OpenReturn(a)
  <2>1. PICK t \in Tokens, n \in 0..MaxOrders :
          \/ Set(a, [pc |-> "read", kind |-> "recover", token |-> t])
          \/ /\ StatusOf(Shown(t, n)) \in {"pending", "paid"}
             /\ Set(a, [pc |-> "read", kind |-> "return", token |-> t, id |-> Shown(t, n)])
    BY <1>6, TypeFacts DEF OpenReturn
  <2>2. Shown(t, n) \in 0..MaxOrders /\ 0 \in 0..MaxOrders
        /\ "recover" \in Kinds /\ "return" \in Kinds
    BY LookupTypes, TypeFacts DEF Kinds
  <2>3. CASE Set(a, [pc |-> "read", kind |-> "recover", token |-> t])
    BY <1>3, <1>4, <2>2, <2>3
  <2>4. CASE /\ StatusOf(Shown(t, n)) \in {"pending", "paid"}
             /\ Set(a, [pc |-> "read", kind |-> "return", token |-> t, id |-> Shown(t, n)])
    <3>1. Shown(t, n) # 0
      BY <2>4 DEF StatusOf
    <3> QED
      BY <1>4, <2>2, <2>4, <3>1
  <2> QED
    BY <2>1, <2>3, <2>4
<1>7. CASE OpenRepair(a)
  <2>1. PICK o \in DOMAIN order, kind \in {"recover", "repair", "verified"} :
          /\ kind # "recover" => paypal[order[o].token] = "captured"
          /\ Set(a, [pc |-> "read", kind |-> kind, token |-> order[o].token,
                     id |-> IF kind = "recover" THEN 0 ELSE o])
          /\ UNCHANGED paypal
    BY <1>7 DEF OpenRepair
  <2> DEFINE i == IF kind = "recover" THEN 0 ELSE o
             t == order[o].token
  <2>2. t \in Tokens /\ i \in 0..MaxOrders /\ kind \in Kinds
    BY TokensOfOrders, TypeFacts DEF Kinds
  <2>3. kind \in {"repair", "verified"} => order[i].token = t
    OBVIOUS
  <2>4. Set(a, [pc |-> "read", kind |-> kind, token |-> t, id |-> i])
    BY <2>1
  <2>5. kind # "return" /\ (kind \notin {"return", "recover"} => paypal'[t] = "captured")
    BY <2>1
  <2> HIDE DEF i, t
  <2> QED
    BY <1>4, <2>2, <2>3, <2>4, <2>5
<1> QED
  BY <1>5, <1>6, <1>7

(* A report that reads has its money, and leaves what is fulfilled alone.    *)
LEMMA ReadPays ==
    ASSUME TypeInv, PaymentsInv, NEW a \in Actors, Read(a)
    PROVE  PaymentsInv'
<1> DEFINE o == Target(a)
           known == EventOf(a, o) \in events
<1>1. /\ tx[a].pc = "read" /\ UNCHANGED <<order, granted>>
      /\ tx[a].token \in Tokens /\ tx[a].kind \in Kinds /\ tx[a].kind # "none"
  BY TypeFacts DEF Read, TypeInv, NamesRows, NamesRowsOf, Transactions
<1>2. PayPalGrows
  BY CaptureGrows DEF Read
<1>3. CASE Refused(a, o) \/ Done(a, o)
  <2>1. tx'[a] = NoTx /\ \A b \in Actors : b # a => tx'[b] = tx[b]
    BY <1>3, QuitEffect, TypeFacts DEF Read
  <2>2. Enters(a)
    BY <2>1 DEF NoTx, Enters, Backed
  <2> QED
    BY <1>1, <1>2, <2>1, <2>2, SameOrders, PaymentsStay
<1>4. CASE ~(Refused(a, o) \/ Done(a, o))
  <2>1. /\ Set(a, [pc |-> "write", id |-> o, seen |-> StatusOf(o), known |-> known])
        /\ tx[a].kind = "return" \/ (tx[a].kind = "recover" /\ ~KnownFulfilled(a))
             => Captured(tx[a].token)
    BY <1>4 DEF Read
  <2>2. /\ o \in 0..MaxOrders /\ StatusOf(o) \in Statuses
        /\ o # 0 => o \in DOMAIN order
        /\ tx[a].kind \in {"repair", "verified"} => o # 0 /\ o = tx[a].id
    BY <1>1, TargetType
  <2>3. Backed(a)
    BY DEF PaymentsInv, AllBacked
  <2>4. tx[a].kind = "return" => o # 0
    BY <1>1, <2>3 DEF Target, Backed
  <2>5. o = 0 => tx[a].kind = "recover"
    <3>1. o = 0 => tx[a].kind \notin {"approved", "completed"}
      BY <1>4 DEF Refused
    <3> HIDE DEF o
    <3> QED
      BY <1>1, <2>2, <2>4, <3>1 DEF Kinds
  <2>6. o = 0 => OrdersOf(tx[a].token) = {}
    <3>1. tx[a].kind = "recover" /\ o = 0 => Resolve(tx[a].token) = 0
      BY DEF Target
    <3> HIDE DEF o
    <3> QED
      BY <2>5, <3>1, ResolveType
  <2>7. StatusOf(o) = IF o = 0 THEN "none" ELSE order[o].status
    BY DEF StatusOf
  <2>8. o # 0 /\ order[o].status = "fulfilled" => tx[a].kind = "repair"
    <3>1. IsEvent(tx[a].kind) => StatusOf(o) # "fulfilled"
      BY <1>4 DEF Done
    <3>2. tx[a].kind = "verified" => order[o].status = "paid"
      BY <1>4 DEF Refused
    <3> HIDE DEF o
    <3> QED
      BY <1>1, <2>7, <3>1, <3>2 DEF IsEvent, Kinds
  <2>9. tx[a].kind = "recover" => ~KnownFulfilled(a)
    BY <1>4 DEF Done, IsEvent
  <2>10. known \in BOOLEAN
    OBVIOUS
  <2> HIDE DEF o, known
  <2>11. tx' = [tx EXCEPT ![a] = HasRead(tx[a], o, StatusOf(o), known)]
    BY <2>1, <2>2, <2>10, ReadEffect
  <2>12. /\ tx'[a].pc = "write" /\ tx'[a].token = tx[a].token /\ tx'[a].id = o
         /\ tx'[a].kind = tx[a].kind /\ tx'[a].seen = StatusOf(o)
         /\ \A b \in Actors : b # a => tx'[b] = tx[b]
    BY <2>11, TypeFacts DEF HasRead
  <2>13. paypal'[tx[a].token] = "captured"
    <3>1. CASE tx[a].kind \in {"return", "recover"}
      BY <1>1, <2>1, <2>9, <3>1, TypeFacts DEF Captured
    <3>2. CASE tx[a].kind \notin {"return", "recover"}
      BY <1>1, <1>2, <2>3, <3>2 DEF Backed, PayPalGrows
    <3> QED
      BY <3>1, <3>2
  <2>14. StatusOf(o) = "paid" => o # 0 /\ paypal'[order[o].token] = "captured"
    <3>1. ASSUME o # 0, order[o].status = "paid" PROVE paypal'[order[o].token] = "captured"
      <4>1. o \in DOMAIN order
        BY <2>2, <3>1
      <4>2. paypal[order[o].token] = "captured" /\ order[o].token \in Tokens
        BY <3>1, <4>1, TokensOfOrders DEF PaymentsInv, AllCovered, CoveredOrder
      <4> QED
        BY <1>2, <4>2 DEF PayPalGrows
    <3> QED
      BY <2>7, <3>1
  <2>15. tx[a].kind \in {"repair", "verified"} => order[o].token = tx[a].token
    BY <1>1, <2>2, <2>3 DEF Backed
  <2>16. Backed(a)'
    BY <1>1, <2>4, <2>5, <2>12, <2>13, <2>14, <2>15 DEF Backed
  <2>17. Enters(a)
    BY <2>6, <2>8, <2>12, <2>16 DEF Enters
  <2> QED
    BY <1>1, <1>2, <2>12, <2>17, SameOrders, PaymentsStay
<1> QED
  BY <1>3, <1>4

(* What a writer books is captured, and booked nowhere else; without a       *)
(* payment to book, its order has its own. An order is made only where there *)
(* is none.                                                                  *)
LEMMA WriterPays ==
    ASSUME TypeInv, PaymentsInv, NEW a \in Actors, Write(a)
    PROVE  LET payment == WrittenPayment(a) IN
           /\ payment # <<>> => paypal[payment[1]] = "captured"
           /\ payment = <<>> => tx[a].id # 0 /\ paypal[order[tx[a].id].token] = "captured"
           /\ payment # <<>> =>
                \A p \in DOMAIN order : p # WrittenId(a) => order[p].payment # payment
           /\ tx[a].id = 0 => /\ tx[a].kind = "recover" /\ OrdersOf(tx[a].token) = {}
                              /\ payment = <<tx[a].token, "capture">>
                              /\ paypal[tx[a].token] = "captured"
           /\ tx[a].kind = "repair" => payment = order[tx[a].id].payment
<1> DEFINE payment == WrittenPayment(a)
           o == WrittenId(a)
<1>1. tx[a].pc = "write" /\ ~Collides(a, o, payment)
  BY WriteEffect
<1>2. Backed(a) /\ NamesRowsOf(a) /\ tx[a].kind \in Kinds
  BY TypeFacts DEF PaymentsInv, AllBacked, TypeInv, NamesRows, Transactions
<1>3. tx[a].token \in Tokens /\ paypal[tx[a].token] = "captured" /\ tx[a].kind # "none"
  BY <1>1, <1>2 DEF Backed, NamesRowsOf
<1>4. payment # <<>> => \A p \in DOMAIN order : p # o => order[p].payment # payment
  BY <1>1 DEF Collides
<1>5. CASE tx[a].id = 0
  <2>1. payment = <<tx[a].token, "capture">>
    BY <1>5 DEF WrittenPayment
  <2>2. payment # <<>> /\ payment[1] = tx[a].token
    BY <2>1
  <2>3. tx[a].kind = "recover"
    BY <1>1, <1>2, <1>5 DEF Backed
  <2>4. OrdersOf(tx[a].token) = {}
    <3>1. ASSUME NEW p \in OrdersOf(tx[a].token) PROVE FALSE
      <4>1. p \in DOMAIN order /\ order[p].payment = <<tx[a].token, "capture">>
        BY <1>1, <1>5, <3>1 DEF PaymentsInv, RecoveriesMeetSealed, Sealed, OrdersOf
      <4>2. p # o
        BY <1>5, <4>1, TypeFacts DEF WrittenId
      <4> HIDE DEF payment, o
      <4> QED
        BY <1>4, <2>1, <2>2, <4>1, <4>2
    <3> QED
      BY <3>1
  <2> HIDE DEF payment, o
  <2> QED
    BY <1>3, <1>4, <1>5, <2>1, <2>2, <2>3, <2>4 DEF payment, o
<1>6. CASE tx[a].id # 0
  <2>1. o = tx[a].id /\ o \in DOMAIN order /\ payment = PaymentOf(a, o)
    BY <1>1, <1>2, <1>6 DEF NamesRowsOf, WrittenId, WrittenPayment
  <2>2. CoveredOrder(o)
    BY <2>1 DEF PaymentsInv, AllCovered
  <2>3. CASE ~IsEvent(tx[a].kind) \/ tx[a].seen = "paid"
    <3>1. payment = order[o].payment
      BY <2>1, <2>3 DEF PaymentOf
    <3>2. paypal[order[o].token] = "captured"
      <4>1. CASE tx[a].seen = "paid"
        BY <1>1, <1>2, <2>1, <4>1 DEF Backed
      <4>2. CASE ~IsEvent(tx[a].kind)
        <5>1. tx[a].kind \in {"repair", "verified"}
          BY <1>2, <1>3, <4>2 DEF IsEvent, Kinds
        <5> QED
          BY <1>1, <1>2, <1>3, <2>1, <5>1 DEF Backed
      <4> QED
        BY <2>3, <4>1, <4>2
    <3> HIDE DEF payment, o
    <3> QED
      BY <1>4, <1>6, <2>1, <2>2, <3>1, <3>2 DEF CoveredOrder, payment, o
  <2>4. CASE IsEvent(tx[a].kind) /\ tx[a].seen # "paid"
    <3>1. payment \in {<<tx[a].token, "token">>, <<tx[a].token, "capture">>}
      BY <2>1, <2>4 DEF PaymentOf
    <3>2. payment # <<>> /\ payment[1] = tx[a].token
      BY <3>1
    <3>3. tx[a].kind # "repair"
      BY <2>4 DEF IsEvent
    <3> HIDE DEF payment, o
    <3> QED
      BY <1>3, <1>4, <1>6, <3>2, <3>3 DEF payment, o
  <2> QED
    BY <2>3, <2>4
<1> QED
  BY <1>5, <1>6

(* A report that writes keeps the payments right. *)
LEMMA WritePays ==
    ASSUME TypeInv, PaymentsInv, NEW a \in Actors, Write(a)
    PROVE  PaymentsInv'
<1> DEFINE rows == WrittenRows(a)
           payment == WrittenPayment(a)
<1>1. PICK o \in OrderIds :
        o = WrittenId(a) /\ tx[a].pc = "write" /\ Quit(a) /\ paypal' = paypal
  BY WriteEffect
<1>2. /\ payment # <<>> => paypal[payment[1]] = "captured"
      /\ payment = <<>> => tx[a].id # 0 /\ paypal[order[tx[a].id].token] = "captured"
      /\ payment # <<>> => \A p \in DOMAIN order : p # o => order[p].payment # payment
      /\ tx[a].id = 0 => /\ tx[a].kind = "recover" /\ OrdersOf(tx[a].token) = {}
                         /\ payment = <<tx[a].token, "capture">>
                         /\ paypal[tx[a].token] = "captured"
      /\ tx[a].kind = "repair" => payment = order[tx[a].id].payment
  BY <1>1, WriterPays
<1>3. tx'[a] = NoTx /\ \A b \in Actors : b # a => tx'[b] = tx[b]
  BY <1>1, QuitEffect, TypeFacts
<1>4. Backed(a)'
  BY <1>3 DEF NoTx, Backed
<1>5. CASE LeftAlone(a)
  <2>1. order' = order /\ granted' = granted /\ PayPalGrows
    BY <1>1, <1>5 DEF LeftAlone, PayPalGrows
  <2>2. Enters(a)
    BY <1>3, <1>4 DEF NoTx, Enters
  <2> QED
    BY <1>3, <2>1, <2>2, SameOrders, PaymentsStay
<1>6. ASSUME NEW units \in 0..Units, Wrote(a, units) PROVE PaymentsInv'
  <2>1. /\ rows \in Seq(Order) /\ o \in 1..Len(rows) /\ Len(order) <= Len(rows)
        /\ tx[a].id = 0 => rows[o].token = tx[a].token
        /\ \A p \in DOMAIN order : rows[p] = order[p]
        /\ \A p \in 1..Len(rows) : p # o => p \in DOMAIN order
    BY <1>1, WrittenType
  <2>2. /\ order' \in Seq(Order) /\ Len(order') = Len(rows)
        /\ \A p \in 1..Len(order') :
             order'[p].token = rows[p].token /\ (p # o => order'[p] = rows[p])
        /\ order'[o].status = IF units = Units THEN "fulfilled" ELSE "failed"
        /\ order'[o].payment = payment
        /\ units = Units \/ tx[a].kind = "return"
        /\ granted' = [granted EXCEPT ![o] = @ + UnitsKept(units)]
    BY <1>1, <1>6 DEF Wrote
  <2>3. /\ tx[a].id = 0 => o \notin DOMAIN order
        /\ tx[a].id # 0 => o = tx[a].id /\ o \in DOMAIN order
    BY <1>1, TypeFacts DEF WrittenId, TypeInv, NamesRows, NamesRowsOf
  <2> HIDE DEF rows, payment
  <2>4. /\ DOMAIN order' = DOMAIN order \cup {o}
        /\ \A p \in DOMAIN order : order'[p].token = order[p].token
        /\ \A p \in DOMAIN order : p # o => order'[p] = order[p]
        /\ tx[a].id = 0 => order'[o].token = tx[a].token
    <3>1. /\ DOMAIN order' = 1..Len(rows) /\ DOMAIN order = 1..Len(order)
          /\ Len(order) \in Nat /\ Len(rows) \in Nat
      BY <2>1, <2>2, TypeFacts
    <3>2. DOMAIN order \subseteq 1..Len(rows)
      BY <2>1, <3>1
    <3>3. 1..Len(rows) = DOMAIN order \cup {o}
      BY <2>1, <3>2
    <3> QED
      BY <2>1, <2>2, <3>1, <3>2, <3>3
  <2>5. \A p \in OrderIds : p # o => granted'[p] = granted[p]
    BY <2>2, TypeFacts
  <2>6. AllCovered'
    <3>1. ASSUME NEW p \in DOMAIN order, p # o PROVE CoveredOrder(p)'
      <4>1. CoveredOrder(p) /\ p \in OrderIds
        BY TypeFacts DEF PaymentsInv, AllCovered
      <4> QED
        BY <1>1, <2>4, <2>5, <3>1, <4>1 DEF CoveredOrder
    <3>2. CoveredOrder(o)'
      <4>1. paypal[order'[o].token] # "none"
        <5>1. CASE tx[a].id = 0
          BY <1>2, <2>4, <5>1
        <5>2. CASE tx[a].id # 0
          <6>1. CoveredOrder(o)
            BY <2>3, <5>2 DEF PaymentsInv, AllCovered
          <6> QED
            BY <2>3, <2>4, <5>2, <6>1 DEF CoveredOrder
        <5> QED
          BY <5>1, <5>2
      <4>2. ASSUME payment = <<>> PROVE paypal[order'[o].token] = "captured"
        <5>1. tx[a].id # 0 /\ paypal[order[tx[a].id].token] = "captured"
          BY <1>2, <4>2
        <5>2. o = tx[a].id /\ order'[o].token = order[o].token
          BY <2>3, <2>4, <5>1
        <5> QED
          BY <5>1, <5>2
      <4>3. order'[o].status # "paid" /\ order'[o].payment = payment
        BY <2>2
      <4> QED
        BY <1>1, <1>2, <4>1, <4>2, <4>3 DEF CoveredOrder
    <3> QED
      BY <2>4, <3>1, <3>2 DEF AllCovered
  <2>7. OneOfEach'
    <3>1. ASSUME NEW p \in DOMAIN order, p # o
          PROVE  /\ order'[p].token # order'[o].token
                 /\ order'[p].payment = <<>> \/ order'[p].payment # order'[o].payment
      <4>1. order'[p] = order[p]
        BY <2>4, <3>1
      <4>2. order[p].payment = <<>> \/ order[p].payment # payment
        BY <1>2, <3>1
      <4>3. order[p].token # order'[o].token
        <5>1. CASE tx[a].id = 0
          BY <1>2, <2>4, <5>1 DEF OrdersOf
        <5>2. CASE tx[a].id # 0
          BY <2>3, <2>4, <3>1, <5>2 DEF PaymentsInv, OneOfEach
        <5> QED
          BY <5>1, <5>2
      <4> QED
        BY <2>2, <4>1, <4>2, <4>3
    <3>2. ASSUME NEW p \in DOMAIN order, NEW q \in DOMAIN order, p # o, q # o, p # q
          PROVE  /\ order'[p].token # order'[q].token
                 /\ order'[p].payment = <<>> \/ order'[p].payment # order'[q].payment
      <4>1. order'[p] = order[p] /\ order'[q] = order[q]
        BY <2>4, <3>2
      <4> QED
        BY <3>2, <4>1 DEF PaymentsInv, OneOfEach
    <3>3. ASSUME NEW p \in DOMAIN order', NEW q \in DOMAIN order', p # q
          PROVE  /\ order'[p].token # order'[q].token
                 /\ order'[p].payment = <<>> \/ order'[p].payment # order'[q].payment
      BY <2>4, <3>1, <3>2, <3>3
    <3> QED
      BY <3>3 DEF OneOfEach
  <2>8. NothingGrantedYet'
    BY <2>4, <2>5 DEF PaymentsInv, NothingGrantedYet
  <2>9. ASSUME NEW b \in Actors, b # a PROVE Backed(b)'
    <3>1. Backed(b) /\ NamesRowsOf(b) /\ tx'[b] = tx[b]
      BY <1>3, <2>9 DEF PaymentsInv, AllBacked, TypeInv, NamesRows
    <3>2. tx[b].pc \in {"read", "write"} =>
            /\ tx[b].id # 0 => order'[tx[b].id].token = order[tx[b].id].token
            /\ tx[b].kind \in {"repair", "verified"} => tx[b].id # 0
      BY <2>4, <3>1 DEF NamesRowsOf
    <3> QED
      BY <1>1, <3>1, <3>2 DEF Backed
  <2>10. ASSUME NEW b \in Actors, tx'[b].pc = "write", tx'[b].id = 0,
                NEW q \in DOMAIN order', order'[q].token = tx'[b].token
         PROVE  Sealed(q)'
    <3>1. b # a /\ tx'[b] = tx[b]
      BY <1>3, <2>10 DEF NoTx
    <3>2. CASE q \in DOMAIN order
      <4>1. Sealed(q)
        BY <2>4, <2>10, <3>1, <3>2 DEF PaymentsInv, RecoveriesMeetSealed, OrdersOf
      <4>2. \A c \in Actors : tx'[c].pc = "write" /\ tx'[c].id = q => tx'[c].kind = "repair"
        BY <1>3, <4>1 DEF Sealed, NoTx
      <4>3. CASE q # o
        BY <2>4, <3>2, <4>1, <4>2, <4>3 DEF Sealed
      <4>4. CASE q = o
        <5>1. tx[a].id = q
          BY <2>3, <3>2, <4>4
        <5>2. tx[a].kind = "repair"
          BY <1>1, <4>1, <5>1 DEF Sealed
        <5>3. order'[q].status = "fulfilled" /\ order'[q].payment = order[q].payment
          BY <1>2, <2>2, <4>4, <5>1, <5>2
        <5> QED
          BY <2>4, <3>2, <4>1, <4>2, <5>3 DEF Sealed
      <4> QED
        BY <4>3, <4>4
    <3>3. CASE q \notin DOMAIN order
      <4>1. q = o /\ tx[a].id = 0
        BY <2>3, <2>4, <2>10, <3>3
      <4>2. /\ order'[q].status = "fulfilled"
            /\ order'[q].payment = <<order'[q].token, "capture">>
        BY <1>2, <2>2, <2>4, <4>1
      <4>3. ASSUME NEW c \in Actors, tx'[c].pc = "write", tx'[c].id = q PROVE FALSE
        <5>1. tx'[c] = tx[c] /\ q # 0
          BY <1>1, <1>3, <4>1, <4>3 DEF NoTx, OrderIds
        <5>2. q \in DOMAIN order
          BY <4>3, <5>1 DEF TypeInv, NamesRows, NamesRowsOf
        <5> QED
          BY <3>3, <5>2
      <4> QED
        BY <4>2, <4>3 DEF Sealed
    <3> QED
      BY <3>2, <3>3
  <2>11. RecoveriesMeetSealed'
    BY <2>10 DEF RecoveriesMeetSealed, OrdersOf
  <2> QED
    BY <1>4, <2>6, <2>7, <2>8, <2>9, <2>11 DEF PaymentsInv, AllBacked
<1> QED
  BY <1>5, <1>6, WriteEffect

(* Payouts and transactions that end without writing. *)
LEMMA PayoutsPay ==
    ASSUME TypeInv, PaymentsInv, NEW a \in Actors, ReadPayout(a) \/ Pay(a) \/ RollBack(a)
    PROVE  PaymentsInv'
<1>1. UNCHANGED <<paypal, order, granted>> /\ TypeOK
  BY DEF ReadPayout, Pay, RollBack, Rows, TypeInv
<1>2. PayPalGrows
  BY <1>1 DEF PayPalGrows
<1>3. \A b \in Actors : tx'[b] = tx[b] \/ Enters(b)
  <2>1. CASE Quit(a)
    BY <2>1, QuitEffect, TypeFacts DEF NoTx, Enters, Backed
  <2>2. ASSUME NEW batch, Set(a, [pc |-> "pay", batch |-> batch])
        PROVE  \A b \in Actors : tx'[b] = tx[b] \/ Enters(b)
    <3>1. tx'[a].pc = "pay"
      BY <1>1, <2>2, SetFields, TypeFacts DEF Columns
    <3>2. \A b \in Actors : b # a => tx'[b] = tx[b]
      BY <1>1, <2>2, SetFields, TypeFacts
    <3> QED
      BY <3>1, <3>2 DEF Enters, Backed
  <2> QED
    BY <2>1, <2>2 DEF ReadPayout, Pay, RollBack
<1> QED
  BY <1>1, <1>2, <1>3, SameOrders, PaymentsStay

(* There are no payments at the start. *)
LEMMA InitPays == Init => PaymentsInv
<1> SUFFICES ASSUME Init PROVE PaymentsInv
  OBVIOUS
<1>1. DOMAIN order = {}
  BY DEF Init
<1> QED
  BY <1>1 DEF Init, PaymentsInv, AllCovered, OneOfEach, NothingGrantedYet,
     AllBacked, Backed, RecoveriesMeetSealed, NoTx

(* Every step keeps the payments right, on both databases. *)
LEMMA StepPays == TypeInv /\ PaymentsInv /\ [Next]_vars => PaymentsInv'
<1> SUFFICES ASSUME TypeInv, PaymentsInv, [Next]_vars PROVE PaymentsInv'
  OBVIOUS
<1>1. ASSUME NEW t \in Tokens, Checkout(t) \/ CheckoutElsewhere(t) \/ Approve(t)
      PROVE  PaymentsInv'
  BY <1>1, BuyerPays
<1>2. ASSUME NEW o \in DOMAIN order, MarkByHand(o) PROVE PaymentsInv'
  BY <1>2, MarkPays
<1>3. ASSUME NEW a \in Actors,
             \/ Deliver(a) \/ OpenReturn(a) \/ OpenRepair(a) \/ ReadPayout(a)
             \/ Read(a) \/ Write(a) \/ Pay(a) \/ RollBack(a)
      PROVE  PaymentsInv'
  BY <1>3, ReportsPay, ReadPays, WritePays, PayoutsPay
<1>4. CASE UNCHANGED vars
  <2>1. PayPalGrows /\ UNCHANGED <<order, granted, tx>>
    BY <1>4 DEF vars, PayPalGrows
  <2> QED
    BY <2>1, SameOrders, PaymentsStay
<1> QED
  BY <1>1, <1>2, <1>3, <1>4 DEF Next

(* The invariant of the payments holds in every reachable state.             *)
LEMMA PaymentsInvariant == Spec => [](TypeInv /\ PaymentsInv)
<1>1. Init => TypeInv /\ PaymentsInv
  BY InitType, InitPays
<1>2. TypeInv /\ PaymentsInv /\ [Next]_vars => (TypeInv /\ PaymentsInv)'
  BY StepType, StepPays
<1> QED
  BY <1>1, <1>2, PTL DEF Spec

(* Nothing is delivered before PayPal has the money (PAYMENT_SHOP.md, Flow), *)
(* on SQLite and on PostgreSQL, whoever reports the payment and whatever     *)
(* order its number means here: an order with rewards has the payment that   *)
(* is booked on it captured, or its own if none is.                          *)
THEOREM DeliveryAfterCapture == Spec => []DeliveredIsCaptured
<1>1. PaymentsInv => DeliveredIsCaptured
  BY DEF PaymentsInv, AllCovered, CoveredOrder, DeliveredIsCaptured
<1> QED
  BY <1>1, PaymentsInvariant, PTL

(* A set whose elements are all one has at most one element. *)
LEMMA AtMostOne ==
    ASSUME NEW S, \A x, y \in S : x = y
    PROVE  Cardinality(S) <= 1
<1>1. CASE S = {}
  <2>1. Cardinality(S) = 0
    BY <1>1, FS_EmptySet
  <2> QED
    BY <2>1
<1>2. ASSUME NEW x \in S PROVE Cardinality(S) <= 1
  <2>1. S = {x}
    OBVIOUS
  <2>2. Cardinality(S) = 1
    BY <2>1, FS_Singleton
  <2> QED
    BY <2>2
<1> QED
  BY <1>1, <1>2

(* A payment has one order, on SQLite and on PostgreSQL, although any number *)
(* of return pages may look for it at once and make the one they do not find, *)
(* and neither of its ids is booked on two orders, although a number may     *)
(* lead a report to an order made for another payment.                       *)
THEOREM OneOrder == Spec => []OneOrderPerPayment
<1>1. ASSUME PaymentsInv, NEW t \in Tokens PROVE Cardinality(OrdersOf(t)) <= 1
  <2>1. \A o, p \in OrdersOf(t) : o = p
    BY <1>1 DEF PaymentsInv, OneOfEach, OrdersOf
  <2> QED
    BY <2>1, AtMostOne
<1>2. ASSUME PaymentsInv, NEW t \in Tokens, NEW id
      PROVE  Cardinality({o \in DOMAIN order : order[o].payment = <<t, id>>}) <= 1
  <2>1. <<t, id>> # <<>>
    OBVIOUS
  <2>2. \A o, p \in {q \in DOMAIN order : order[q].payment = <<t, id>>} : o = p
    BY <1>2, <2>1 DEF PaymentsInv, OneOfEach
  <2> QED
    BY <2>2, AtMostOne
<1>3. PaymentsInv => OneOrderPerPayment
  BY <1>1, <1>2 DEF OneOrderPerPayment
<1> QED
  BY <1>3, PaymentsInvariant, PTL

-----------------------------------------------------------------------------
(* On SQLite: one transaction at a time, so what a reporter has read still   *)
(* holds when it writes, whichever order its report is about.                *)

(* A step that leaves the orders alone leaves what is said of them.          *)
LEMMA OrdersStay ==
    ASSUME TypeInv, ShopInv, UNCHANGED <<order, repaired, byHand, granted>>
    PROVE  /\ GrantsMatch'
           /\ \A b \in Actors : tx'[b] = tx[b] => FreshWriter(b)' /\ DueRepair(b)'
<1>1. GrantsMatch'
  BY DEF ShopInv, GrantsMatch, RewardsMatchStatus
<1>2. ASSUME NEW b \in Actors, tx'[b] = tx[b] PROVE FreshWriter(b)' /\ DueRepair(b)'
  BY <1>2 DEF ShopInv, WriterIsFresh, RepairIsDue, FreshWriter, DueRepair
<1> QED
  BY <1>1, <1>2

(* A transaction that begins is alone, one that ends leaves the others.      *)
LEMMA OneWriterStays ==
    ASSUME TypeInv, OneWriter, NEW a \in Actors,
           \A b \in Actors : b # a => tx'[b] = tx[b],
           \/ tx'[a].pc \notin {"write", "pay"} \/ InTransaction(a)
           \/ \A b \in Actors : ~InTransaction(b)
    PROVE  OneWriter'
  BY DEF OneWriter, InTransaction

(* The buyer, PayPal and a status set by hand. *)
LEMMA BuyerSafe ==
    ASSUME ~Postgres, TypeInv, ShopInv, NEW t \in Tokens,
           Checkout(t) \/ CheckoutElsewhere(t) \/ Approve(t)
    PROVE  ShopInv'
<1>1. tx' = tx /\ UNCHANGED <<repaired, byHand, granted>>
  BY DEF Checkout, CheckoutElsewhere, Approve, Rows
<1>2. OneWriter'
  BY <1>1 DEF ShopInv, OneWriter, InTransaction
<1>3. CASE CheckoutElsewhere(t) \/ Approve(t)
  <2>1. order' = order
    BY <1>3 DEF CheckoutElsewhere, Approve, Rows
  <2> QED
    BY <1>1, <1>2, <2>1, OrdersStay DEF ShopInv, WriterIsFresh, RepairIsDue
<1>4. CASE Checkout(t)
  <2> DEFINE n == Len(order) + 1
  <2>1. /\ order' = Append(order, NewOrder(t)) /\ n \in OrderIds
        /\ \A b \in Actors : ~InTransaction(b)
    BY <1>4, TypeFacts DEF Checkout, CanBegin, OrderIds
  <2>2. /\ DOMAIN order' = DOMAIN order \cup {n} /\ n \notin DOMAIN order
        /\ \A o \in DOMAIN order : order'[o] = order[o]
        /\ order'[n].status = "pending"
    BY <2>1, TypeFacts DEF NewOrder
  <2>3. granted[n] = 0
    BY <2>1, <2>2 DEF ShopInv, GrantsMatch
  <2>4. GrantsMatch'
    BY <1>1, <2>1, <2>2, <2>3 DEF ShopInv, GrantsMatch, RewardsMatchStatus
  <2>5. WriterIsFresh'
    BY <1>1, <2>1 DEF WriterIsFresh, FreshWriter, InTransaction
  <2>6. RepairIsDue'
    <3>1. ASSUME NEW b \in Actors, tx[b].pc \in {"read", "write"}, tx[b].kind = "repair"
          PROVE  tx[b].id \in DOMAIN order
      BY <3>1 DEF TypeInv, NamesRows, NamesRowsOf
    <3> QED
      BY <1>1, <2>2, <3>1 DEF ShopInv, RepairIsDue, DueRepair
  <2> QED
    BY <1>2, <2>4, <2>5, <2>6 DEF ShopInv
<1> QED
  BY <1>3, <1>4

(* A change by hand keeps the invariant of the orders. *)
LEMMA MarkSafe ==
    ASSUME ~Postgres, TypeInv, ShopInv, NEW o \in DOMAIN order, MarkByHand(o)
    PROVE  ShopInv'
<1>1. PICK status \in {"paid", "fulfilled"} :
        /\ order' \in Seq(Order) /\ Len(order') = Len(order)
        /\ order'[o].status = status /\ order'[o].token = order[o].token
        /\ \A p \in DOMAIN order : p # o => order'[p] = order[p]
        /\ byHand' = IF status = "fulfilled" THEN byHand \cup {o} ELSE byHand
  BY MarkEffect
<1>2. /\ UNCHANGED <<paypal, repaired, granted, tx>>
      /\ order[o].status \in {"pending", "failed"}
      /\ \A b \in Actors : ~InTransaction(b)
  BY DEF MarkByHand, CanBegin
<1>3. DOMAIN order' = DOMAIN order
  BY <1>1, TypeFacts
<1>4. OneWriter' /\ WriterIsFresh'
  BY <1>2 DEF OneWriter, WriterIsFresh, FreshWriter, InTransaction
<1>5. RepairIsDue'
  <2>1. ASSUME NEW b \in Actors, tx[b].pc \in {"read", "write"}, tx[b].kind = "repair"
        PROVE  order'[tx[b].id] = order[tx[b].id]
    <3>1. tx[b].id \in DOMAIN order
      BY <2>1 DEF TypeInv, NamesRows, NamesRowsOf
    <3>2. order[tx[b].id].status = "fulfilled"
      BY <2>1 DEF ShopInv, RepairIsDue, DueRepair
    <3> QED
      BY <1>1, <1>2, <3>1, <3>2
  <2> QED
    BY <1>2, <2>1 DEF ShopInv, RepairIsDue, DueRepair
<1>6. GrantsMatch'
  <2>1. granted[o] = 0
    BY <1>2 DEF ShopInv, GrantsMatch, RewardsMatchStatus
  <2>2. ASSUME NEW p \in DOMAIN order
        PROVE  granted[p] = IF order'[p].status = "fulfilled" /\ p \notin byHand' THEN Units ELSE 0
    <3>1. CASE p = o
      BY <1>1, <2>1, <3>1
    <3>2. CASE p # o
      BY <1>1, <3>2 DEF ShopInv, GrantsMatch, RewardsMatchStatus
    <3> QED
      BY <3>1, <3>2
  <2> QED
    BY <1>2, <1>3, <2>2 DEF ShopInv, GrantsMatch, RewardsMatchStatus
<1> QED
  BY <1>4, <1>5, <1>6 DEF ShopInv

(* Reports begin: an operator repairs what has delivered nothing.            *)
LEMMA ReportsSafe ==
    ASSUME ~Postgres, TypeInv, ShopInv, NEW a \in Actors,
           Deliver(a) \/ OpenReturn(a) \/ OpenRepair(a)
    PROVE  ShopInv'
<1>1. UNCHANGED <<order, repaired, byHand, granted>>
  BY DEF Deliver, OpenReturn, OpenRepair, Rows
<1>2. tx[a].pc = "idle" /\ tx[a].id = 0 /\ TypeOK
  BY DEF Deliver, OpenReturn, OpenRepair, TypeInv, NamesRows, NamesRowsOf, NoTx
<1>3. ASSUME NEW kind \in Kinds, NEW t \in Tokens, NEW i \in 0..MaxOrders,
             \/ Set(a, [pc |-> "read", kind |-> kind, token |-> t]) /\ i = tx[a].id
             \/ Set(a, [pc |-> "read", kind |-> kind, token |-> t, id |-> i]),
             kind = "repair" => order[i].status = "fulfilled" /\ granted[i] = 0
      PROVE  ShopInv'
  <2>1. tx' = [tx EXCEPT ![a] = Begun(tx[a], kind, t, i)] /\ tx' \in [Actors -> Transactions]
    BY <1>3, BeginEffect
  <2>2. /\ \A b \in Actors : b # a => tx'[b] = tx[b]
        /\ tx'[a].pc = "read" /\ tx'[a].kind = kind /\ tx'[a].id = i
    BY <2>1, TypeFacts DEF Begun
  <2>3. FreshWriter(a)' /\ DueRepair(a)'
    BY <1>1, <1>3, <2>2 DEF FreshWriter, DueRepair
  <2>4. WriterIsFresh' /\ RepairIsDue'
    BY <1>1, <2>2, <2>3, OrdersStay DEF WriterIsFresh, RepairIsDue
  <2>5. OneWriter'
    BY <2>2, OneWriterStays DEF ShopInv
  <2> QED
    BY <1>1, <2>4, <2>5, OrdersStay DEF ShopInv
<1>4. CASE Deliver(a)
  <2>1. PICK t \in Tokens, kind \in {"approved", "completed"} :
          Set(a, [pc |-> "read", kind |-> kind, token |-> t])
    BY <1>4 DEF Deliver
  <2>2. kind \in Kinds /\ 0 \in 0..MaxOrders /\ kind # "repair"
    BY TypeFacts DEF Kinds
  <2> QED
    BY <1>2, <1>3, <2>1, <2>2
<1>5. CASE OpenReturn(a)
  <2>1. PICK t \in Tokens, n \in 0..MaxOrders :
          \/ Set(a, [pc |-> "read", kind |-> "recover", token |-> t])
          \/ Set(a, [pc |-> "read", kind |-> "return", token |-> t, id |-> Shown(t, n)])
    BY <1>5, TypeFacts DEF OpenReturn
  <2>2. Shown(t, n) \in 0..MaxOrders /\ 0 \in 0..MaxOrders
        /\ "recover" \in Kinds /\ "return" \in Kinds
    BY LookupTypes, TypeFacts DEF Kinds
  <2> QED
    BY <1>2, <1>3, <2>1, <2>2
<1>6. CASE OpenRepair(a)
  <2>1. PICK o \in DOMAIN order :
          /\ order[o].status = "fulfilled" /\ granted[o] = 0
          /\ Set(a, [pc |-> "read", kind |-> "repair", token |-> order[o].token, id |-> o])
    BY <1>6 DEF OpenRepair
  <2>2. order[o].token \in Tokens /\ o \in 0..MaxOrders /\ "repair" \in Kinds
    BY TokensOfOrders, TypeFacts DEF Kinds
  <2> QED
    BY <1>3, <2>1, <2>2
<1> QED
  BY <1>4, <1>5, <1>6

(* A reporter begins its transaction alone and reads what is there.          *)
LEMMA ReadSafe ==
    ASSUME ~Postgres, TypeInv, ShopInv, NEW a \in Actors, Read(a)
    PROVE  ShopInv'
<1> DEFINE o == Target(a)
<1>1. /\ tx[a].pc = "read" /\ UNCHANGED <<order, repaired, byHand, granted>>
      /\ \A b \in Actors : ~InTransaction(b)
  BY DEF Read, CanBegin
<1>2. CASE Refused(a, o) \/ Done(a, o)
  <2>1. tx' = [tx EXCEPT ![a] = NoTx]
    BY <1>2, QuitEffect DEF Read
  <2>2. tx'[a].pc = "idle" /\ \A b \in Actors : b # a => tx'[b] = tx[b]
    BY <2>1, TypeFacts DEF NoTx
  <2>3. WriterIsFresh' /\ RepairIsDue'
    <3>1. FreshWriter(a)' /\ DueRepair(a)'
      BY <2>2 DEF FreshWriter, DueRepair
    <3> QED
      BY <1>1, <2>2, <3>1, OrdersStay DEF WriterIsFresh, RepairIsDue
  <2>4. OneWriter'
    BY <2>2, OneWriterStays DEF ShopInv
  <2> QED
    BY <1>1, <2>3, <2>4, OrdersStay DEF ShopInv
<1>3. CASE ~(Refused(a, o) \/ Done(a, o))
  <2> DEFINE known == EventOf(a, o) \in events
  <2>1. Set(a, [pc |-> "write", id |-> o, seen |-> StatusOf(o), known |-> known])
    BY <1>3 DEF Read
  <2>2. /\ o \in 0..MaxOrders /\ StatusOf(o) \in Statuses
        /\ tx[a].kind \in {"repair", "verified"} => o # 0 /\ o = tx[a].id
    BY <1>1, TargetType
  <2>3. tx[a].kind \in {"approved", "completed", "return", "recover", "repair"}
    BY <1>1, TypeFacts DEF TypeInv, NamesRows, NamesRowsOf, Transactions, Kinds
  <2>4. /\ tx[a].kind # "repair" => StatusOf(o) # "fulfilled"
        /\ tx[a].kind = "repair" => o \notin repaired
    BY <1>3, <2>3 DEF Done, IsEvent
  <2>5. StatusOf(o) = IF o = 0 THEN "none" ELSE order[o].status
    BY DEF StatusOf
  <2>6. known \in BOOLEAN
    OBVIOUS
  <2> HIDE DEF o, known
  <2>7. tx' = [tx EXCEPT ![a] = HasRead(tx[a], o, StatusOf(o), known)]
    BY <2>1, <2>2, <2>6, ReadEffect
  <2>8. /\ \A b \in Actors : b # a => tx'[b] = tx[b]
        /\ tx'[a].kind = tx[a].kind /\ tx'[a].id = o /\ tx'[a].seen = StatusOf(o)
    BY <2>7, TypeFacts DEF HasRead
  <2>9. FreshWriter(a)'
    BY <1>1, <2>4, <2>5, <2>8 DEF FreshWriter
  <2>10. DueRepair(a)'
    <3>1. tx[a].kind = "repair" => tx[a].id = o
      BY <2>2
    <3> QED
      BY <1>1, <2>8, <3>1 DEF ShopInv, RepairIsDue, DueRepair
  <2>11. WriterIsFresh' /\ RepairIsDue'
    BY <1>1, <2>8, <2>9, <2>10, OrdersStay DEF WriterIsFresh, RepairIsDue
  <2>12. OneWriter'
    BY <1>1, <2>8, OneWriterStays DEF ShopInv
  <2> QED
    BY <1>1, <2>11, <2>12, OrdersStay DEF ShopInv
<1> QED
  BY <1>2, <1>3

(* A payout keeps the invariant of the orders. *)
LEMMA PayoutSafe ==
    ASSUME ~Postgres, TypeInv, ShopInv, NEW a \in Actors, ReadPayout(a) \/ Pay(a) \/ RollBack(a)
    PROVE  ShopInv'
<1>1. UNCHANGED <<order, repaired, byHand, granted>>
  BY DEF ReadPayout, Pay, RollBack, Rows
<1>2. /\ \A b \in Actors : b # a => tx'[b] = tx[b]
      /\ tx'[a].pc = "idle" \/ (tx'[a].pc = "pay" /\ \A b \in Actors : ~InTransaction(b))
  <2>1. CASE ReadPayout(a)
    <3>1. PICK batch \in SUBSET {p \in OrderIds : MayPay(p)} :
            Set(a, [pc |-> "pay", batch |-> batch])
      BY <2>1 DEF ReadPayout
    <3>2. tx' = [tx EXCEPT ![a] = Paying(tx[a], batch)]
      BY <3>1, PayEffect
    <3>3. tx'[a].pc = "pay" /\ \A b \in Actors : b # a => tx'[b] = tx[b]
      BY <3>2, TypeFacts DEF Paying
    <3>4. \A b \in Actors : ~InTransaction(b)
      BY <2>1 DEF ReadPayout, CanBegin
    <3> QED
      BY <3>3, <3>4
  <2>2. CASE Pay(a) \/ RollBack(a)
    <3>1. tx' = [tx EXCEPT ![a] = NoTx]
      BY <2>2, QuitEffect DEF Pay, RollBack
    <3> QED
      BY <3>1, TypeFacts DEF NoTx
  <2> QED
    BY <2>1, <2>2
<1>3. WriterIsFresh' /\ RepairIsDue'
  <2>1. FreshWriter(a)' /\ DueRepair(a)'
    BY <1>2 DEF FreshWriter, DueRepair
  <2> QED
    BY <1>1, <1>2, <2>1, OrdersStay DEF WriterIsFresh, RepairIsDue
<1>4. OneWriter'
  BY <1>2, OneWriterStays DEF ShopInv
<1> QED
  BY <1>1, <1>3, <1>4, OrdersStay DEF ShopInv

(* A writer writes an order that has delivered nothing yet.                  *)
LEMMA WriterFindsNothing ==
    ASSUME ~Postgres, TypeInv, ShopInv, NEW a \in Actors, tx[a].pc = "write",
           WrittenId(a) \in OrderIds
    PROVE  /\ granted[WrittenId(a)] = 0
           /\ ~LeftAlone(a)
           /\ tx[a].kind # "repair" /\ WrittenId(a) \in DOMAIN order
                => order[WrittenId(a)].status # "fulfilled"
           /\ IsEvent(tx[a].kind) \/ tx[a].kind = "repair"
<1>1. /\ tx[a].kind \in {"approved", "completed", "return", "recover", "repair"}
      /\ tx[a].id # 0 => tx[a].id \in DOMAIN order
  BY TypeFacts DEF TypeInv, NamesRows, NamesRowsOf, Transactions, Kinds
<1>2. FreshWriter(a) /\ DueRepair(a)
  BY DEF ShopInv, WriterIsFresh, RepairIsDue
<1>3. CASE tx[a].id = 0
  <2>1. WrittenId(a) \notin DOMAIN order
    BY <1>3, TypeFacts DEF WrittenId
  <2>2. granted[WrittenId(a)] = 0
    BY <2>1 DEF ShopInv, GrantsMatch
  <2> QED
    BY <1>1, <1>3, <2>1, <2>2 DEF LeftAlone, IsEvent
<1>4. CASE tx[a].id # 0
  <2>1. WrittenId(a) = tx[a].id /\ tx[a].seen = order[tx[a].id].status
    BY <1>2, <1>4 DEF WrittenId, FreshWriter
  <2>2. tx[a].kind # "repair" => order[tx[a].id].status # "fulfilled"
    BY <1>2, <2>1 DEF FreshWriter
  <2>3. granted[tx[a].id] = 0
    BY <1>1, <1>2, <1>4, <2>2 DEF FreshWriter, DueRepair, ShopInv, GrantsMatch, RewardsMatchStatus
  <2>4. StatusAtFulfil(a, tx[a].id) = "paid"
    <3>1. order[tx[a].id].status \in Status
      BY <1>1, <1>4, TokensOfOrders
    <3> QED
      BY <2>1, <2>2, <3>1 DEF StatusAtFulfil, Status
  <2> QED
    BY <1>1, <2>1, <2>2, <2>3, <2>4 DEF LeftAlone, IsEvent
<1> QED
  BY <1>3, <1>4

(* Rewards and status go together, whoever delivers.                         *)
LEMMA WriteSafe ==
    ASSUME ~Postgres, TypeInv, ShopInv, NEW a \in Actors, Write(a)
    PROVE  ShopInv'
<1> DEFINE o == WrittenId(a)
           rows == WrittenRows(a)
<1>1. /\ tx[a].pc = "write" /\ o \in OrderIds /\ Quit(a)
  BY WriteEffect
<1>2. /\ granted[o] = 0 /\ ~LeftAlone(a)
      /\ tx[a].kind # "repair" /\ o \in DOMAIN order => order[o].status # "fulfilled"
      /\ IsEvent(tx[a].kind) \/ tx[a].kind = "repair"
  BY <1>1, WriterFindsNothing
<1>3. PICK units \in 0..Units : Wrote(a, units)
  BY <1>2, WriteEffect
<1>4. /\ rows \in Seq(Order) /\ o \in 1..Len(rows) /\ Len(order) <= Len(rows)
      /\ \A p \in DOMAIN order : rows[p] = order[p]
      /\ \A p \in 1..Len(rows) : p # o => p \in DOMAIN order
  BY <1>1, WrittenType
<1>5. /\ DOMAIN order' = 1..Len(rows)
      /\ \A p \in DOMAIN order : p # o => order'[p] = order[p]
      /\ order'[o].status = IF units = Units THEN "fulfilled" ELSE "failed"
  BY <1>3, <1>4, TypeFacts DEF Wrote
<1>6. /\ granted' = [granted EXCEPT ![o] = UnitsKept(units)]
      /\ repaired' = IF IsEvent(tx[a].kind) THEN repaired ELSE repaired \cup {o}
      /\ byHand' = IF units = Units THEN byHand \ {o} ELSE byHand
  <2>1. granted' = [granted EXCEPT ![o] = granted[o] + UnitsKept(units)]
    BY <1>3 DEF Wrote
  <2>2. UnitsKept(units) \in Nat
    BY ShopAssumption DEF UnitsKept
  <2>3. granted[o] + UnitsKept(units) = UnitsKept(units)
    BY <1>2, <2>2
  <2>4. granted' = [granted EXCEPT ![o] = UnitsKept(units)]
    BY <2>1, <2>3
  <2> QED
    BY <1>3, <2>4 DEF Wrote
<1>7. /\ tx'[a].pc = "idle" /\ \A b \in Actors : b # a => tx'[b] = tx[b]
  BY <1>1, QuitEffect, TypeFacts DEF NoTx
<1>8. OneWriter' /\ WriterIsFresh'
  BY <1>1, <1>7 DEF ShopInv, OneWriter, WriterIsFresh, FreshWriter, InTransaction
<1> HIDE DEF o, rows
<1>9. GrantsMatch'
  <2>1. ASSUME NEW p \in 1..Len(rows)
        PROVE  granted'[p] = IF order'[p].status = "fulfilled" /\ p \notin byHand' THEN Units ELSE 0
    <3>1. CASE p = o
      <4>1. granted'[o] = UnitsKept(units)
        BY <1>1, <1>6, TypeFacts DEF o
      <4> QED
        BY <1>5, <1>6, <3>1, <4>1 DEF UnitsKept
    <3>2. CASE p # o
      <4>1. p \in DOMAIN order /\ p \in OrderIds
        BY <1>4, <3>2, TypeFacts
      <4>2. granted'[p] = granted[p]
        BY <1>6, <3>2, <4>1, TypeFacts
      <4>3. order'[p] = order[p] /\ (p \in byHand' <=> p \in byHand)
        BY <1>5, <1>6, <3>2, <4>1
      <4> QED
        BY <4>1, <4>2, <4>3 DEF ShopInv, GrantsMatch, RewardsMatchStatus
    <3> QED
      BY <3>1, <3>2
  <2>2. ASSUME NEW p \in OrderIds, p \notin 1..Len(rows) PROVE granted'[p] = 0
    <3>1. p # o /\ p \notin DOMAIN order
      BY <1>4, <2>2, TypeFacts
    <3> QED
      BY <1>6, <3>1, TypeFacts DEF ShopInv, GrantsMatch
  <2> QED
    BY <1>5, <2>1, <2>2 DEF GrantsMatch, RewardsMatchStatus
<1>10. RepairIsDue'
  <2>1. ASSUME NEW b \in Actors, tx'[b].pc \in {"read", "write"}, tx'[b].kind = "repair"
        PROVE  /\ order'[tx'[b].id].status = "fulfilled"
               /\ granted'[tx'[b].id] = 0 \/ tx'[b].id \in repaired'
    <3> DEFINE p == tx[b].id
    <3>1. b # a /\ tx'[b] = tx[b]
      BY <1>7, <2>1
    <3>2. p \in DOMAIN order
      BY <2>1, <3>1 DEF TypeInv, NamesRows, NamesRowsOf
    <3>3. order[p].status = "fulfilled" /\ (granted[p] = 0 \/ p \in repaired)
      BY <2>1, <3>1 DEF ShopInv, RepairIsDue, DueRepair
    <3> HIDE DEF p
    <3>4. CASE p = o
      <4>1. tx[a].kind = "repair"
        BY <1>2, <3>2, <3>3, <3>4
      <4>2. units = Units /\ repaired' = repaired \cup {o}
        BY <1>3, <1>6, <4>1 DEF Wrote, IsEvent
      <4> QED
        BY <1>5, <3>1, <3>4, <4>2 DEF p
    <3>5. CASE p # o
      <4>1. granted'[p] = granted[p] /\ order'[p] = order[p]
        BY <1>5, <1>6, <3>2, <3>5, TypeFacts
      <4> QED
        BY <1>6, <3>1, <3>3, <4>1 DEF p
    <3> QED
      BY <3>4, <3>5
  <2> QED
    BY <2>1 DEF RepairIsDue, DueRepair
<1> QED
  BY <1>8, <1>9, <1>10 DEF ShopInv

(* The invariant of the orders holds at the start. *)
LEMMA InitSafe == Init => ShopInv
<1> SUFFICES ASSUME Init PROVE ShopInv
  OBVIOUS
<1>1. DOMAIN order = {}
  BY DEF Init
<1>2. GrantsMatch
  BY <1>1 DEF Init, GrantsMatch, RewardsMatchStatus
<1> QED
  BY <1>1, <1>2 DEF Init, ShopInv, NoTx, OneWriter, InTransaction,
     WriterIsFresh, FreshWriter, RepairIsDue, DueRepair

(* Every step keeps the invariant of the orders, on SQLite. *)
LEMMA StepSafe ==
    ASSUME ~Postgres, TypeInv, ShopInv, [Next]_vars
    PROVE  ShopInv'
<1>1. ASSUME NEW t \in Tokens, Checkout(t) \/ CheckoutElsewhere(t) \/ Approve(t) PROVE ShopInv'
  BY <1>1, BuyerSafe
<1>2. ASSUME NEW o \in DOMAIN order, MarkByHand(o) PROVE ShopInv'
  BY <1>2, MarkSafe
<1>3. ASSUME NEW a \in Actors,
             \/ Deliver(a) \/ OpenReturn(a) \/ OpenRepair(a) \/ ReadPayout(a)
             \/ Read(a) \/ Write(a) \/ Pay(a) \/ RollBack(a)
      PROVE  ShopInv'
  BY <1>3, ReportsSafe, ReadSafe, WriteSafe, PayoutSafe
<1>4. CASE UNCHANGED vars
  <2>1. UNCHANGED <<order, repaired, byHand, granted>> /\ tx' = tx
    BY <1>4 DEF vars
  <2>2. OneWriter'
    BY <2>1 DEF ShopInv, OneWriter, InTransaction
  <2> QED
    BY <2>1, <2>2, OrdersStay DEF ShopInv, WriterIsFresh, RepairIsDue
<1> QED
  BY <1>1, <1>2, <1>3, <1>4 DEF Next

-----------------------------------------------------------------------------
(* Commissions, on SQLite.                                                   *)

(* What is delivered stays delivered.                                        *)
FulfilledStays ==
    \A o \in DOMAIN order : order[o].status = "fulfilled" =>
        o \in DOMAIN order' /\ order'[o].status = "fulfilled"

(* The commissions stay right while nobody books or pays any. *)
LEMMA LedgerStays ==
    ASSUME CommissionInv, FulfilledStays, UNCHANGED <<ledger, payouts>>,
           \A d \in Actors : tx'[d].pc = "pay" =>
             tx'[d] = tx[d] \/ tx'[d].batch \subseteq {o \in OrderIds : MayPay(o)}
    PROVE  CommissionInv'
<1>1. ASSUME NEW o \in OrderIds PROVE LedgerMatches(o)'
  BY DEF CommissionInv, LedgerMatches, FulfilledStays, PaidIn
<1>2. {o \in OrderIds : MayPay(o)}' = {o \in OrderIds : MayPay(o)}
  BY DEF MayPay
<1> QED
  BY <1>1, <1>2 DEF CommissionInv

(* A report that writes books at most one commission. *)
LEMMA WriteCommission ==
    ASSUME ~Postgres, TypeInv, ShopInv, CommissionInv, NEW a \in Actors, Write(a)
    PROVE  CommissionInv'
<1> DEFINE o == WrittenId(a)
<1>1. /\ tx[a].pc = "write" /\ o \in OrderIds /\ Quit(a) /\ payouts' = payouts
  BY WriteEffect
<1>2. /\ ~LeftAlone(a)
      /\ tx[a].kind # "repair" /\ o \in DOMAIN order => order[o].status # "fulfilled"
  BY <1>1, WriterFindsNothing
<1>3. PICK units \in 0..Units : Wrote(a, units)
  BY <1>2, WriteEffect
<1>4. /\ o \in DOMAIN order'
      /\ \A p \in DOMAIN order : p \in DOMAIN order' /\ (p # o => order'[p] = order[p])
      /\ order'[o].status = IF units = Units THEN "fulfilled" ELSE "failed"
  BY <1>1, <1>3, WrittenType, TypeFacts DEF Wrote
<1>5. \A d \in Actors : tx'[d].pc # "pay"
  <2>1. tx'[a].pc = "idle" /\ \A b \in Actors : b # a => tx'[b] = tx[b]
    BY <1>1, QuitEffect, TypeFacts DEF NoTx
  <2> QED
    BY <1>1, <2>1 DEF ShopInv, OneWriter, InTransaction
<1>6. units # Units => ledger' = ledger /\ ledger[o] = "none"
  <2>1. units # Units => ledger' = ledger /\ tx[a].kind # "repair"
    BY <1>3 DEF Wrote
  <2> QED
    BY <1>1, <1>2, <2>1 DEF CommissionInv, LedgerMatches
<1>7. \A p \in OrderIds :
        /\ ledger'[p] = "paid" <=> ledger[p] = "paid"
        /\ ledger'[p] # "none" => ledger[p] # "none" \/ (p = o /\ units = Units)
  <2>1. CASE units = Units
    <3>1. ledger' \in LedgersAfter(o)
      BY <1>3, <2>1 DEF Wrote
    <3>2. CASE ledger' = ledger
      BY <3>2
    <3>3. CASE \A p \in OrderIds :
                 \/ ledger'[p] = ledger[p]
                 \/ ledger[p] = "held" /\ ledger'[p] = "available"
                 \/ p = o /\ ledger[p] = "none" /\ ledger'[p] \in {"held", "available"}
      BY <2>1, <3>3
    <3> QED
      BY <3>1, <3>2, <3>3 DEF LedgersAfter
  <2>2. CASE units # Units
    BY <1>6, <2>2
  <2> QED
    BY <2>1, <2>2
<1> HIDE DEF o
<1>8. ASSUME NEW p \in OrderIds PROVE LedgerMatches(p)'
  <2>1. LedgerMatches(p)
    BY DEF CommissionInv
  <2>2. PaidIn(p)' = PaidIn(p)
    BY <1>1 DEF PaidIn
  <2>3. ASSUME ledger'[p] # "none"
        PROVE  p \in DOMAIN order' /\ order'[p].status = "fulfilled"
    <3>1. CASE p = o
      BY <1>4, <1>6, <2>3, <3>1
    <3>2. CASE p # o
      BY <1>4, <1>7, <2>1, <2>3, <3>2 DEF LedgerMatches
    <3> QED
      BY <3>1, <3>2
  <2> QED
    BY <1>1, <1>7, <2>1, <2>2, <2>3 DEF LedgerMatches
<1> QED
  BY <1>5, <1>8 DEF CommissionInv

(* A payout marks what it pays, once. *)
LEMMA PayCommission ==
    ASSUME ~Postgres, TypeInv, ShopInv, CommissionInv, NEW a \in Actors, Pay(a)
    PROVE  CommissionInv'
<1> DEFINE batch == tx[a].batch
           n == Len(payouts) + 1
<1>1. /\ tx[a].pc = "pay" /\ payouts' = Append(payouts, batch) /\ order' = order
      /\ ledger' = [o \in OrderIds |-> IF o \in batch THEN "paid" ELSE ledger[o]]
      /\ Quit(a)
  BY DEF Pay
<1>2. \A o \in batch : o \in OrderIds /\ ledger[o] \in {"held", "available"}
  BY <1>1 DEF CommissionInv, MayPay
<1>3. \A d \in Actors : tx'[d].pc # "pay"
  <2>1. tx'[a].pc = "idle" /\ \A b \in Actors : b # a => tx'[b] = tx[b]
    BY <1>1, QuitEffect, TypeFacts DEF NoTx
  <2> QED
    BY <1>1, <2>1 DEF ShopInv, OneWriter, InTransaction
<1>4. /\ DOMAIN payouts' = DOMAIN payouts \cup {n}
      /\ payouts'[n] = batch /\ \A i \in DOMAIN payouts : payouts'[i] = payouts[i]
  BY <1>1, TypeFacts
<1> HIDE DEF batch, n
<1>5. \A o : PaidIn(o)' = IF o \in batch THEN PaidIn(o) \cup {n} ELSE PaidIn(o)
  <2>1. n \notin DOMAIN payouts
    BY TypeFacts DEF n
  <2> QED
    BY <1>4, <2>1 DEF PaidIn
<1>6. ASSUME NEW o \in OrderIds PROVE LedgerMatches(o)'
  <2>1. LedgerMatches(o)
    BY DEF CommissionInv
  <2>2. CASE o \in batch
    <3>1. PaidIn(o)' = {n} /\ n \in DOMAIN payouts'
      BY <1>2, <1>4, <1>5, <2>1, <2>2 DEF LedgerMatches
    <3> QED
      BY <1>1, <1>2, <2>1, <2>2, <3>1 DEF LedgerMatches
  <2>3. CASE o \notin batch
    BY <1>1, <1>4, <1>5, <2>1, <2>3 DEF LedgerMatches
  <2> QED
    BY <2>2, <2>3
<1> QED
  BY <1>3, <1>6 DEF CommissionInv

(* The invariant of the commissions holds at the start. *)
LEMMA InitCommission == Init => CommissionInv
<1> SUFFICES ASSUME Init PROVE CommissionInv
  OBVIOUS
<1>1. \A o : PaidIn(o) = {}
  BY DEF Init, PaidIn
<1> QED
  BY <1>1 DEF Init, CommissionInv, LedgerMatches, NoTx

(* Every step keeps the invariant of the commissions, on SQLite. *)
LEMMA StepCommission ==
    ASSUME ~Postgres, TypeInv, ShopInv, CommissionInv, [Next]_vars
    PROVE  CommissionInv'
<1>1. ASSUME NEW t \in Tokens, Checkout(t) \/ CheckoutElsewhere(t) \/ Approve(t)
      PROVE  CommissionInv'
  <2>1. UNCHANGED <<ledger, payouts, tx>>
    BY <1>1 DEF Checkout, CheckoutElsewhere, Approve, Rows
  <2>2. FulfilledStays
    BY <1>1, TypeFacts DEF Checkout, CheckoutElsewhere, Approve, Rows, FulfilledStays
  <2> QED
    BY <2>1, <2>2, LedgerStays
<1>2. ASSUME NEW o \in DOMAIN order, MarkByHand(o) PROVE CommissionInv'
  <2>1. UNCHANGED <<ledger, payouts, tx>> /\ order[o].status # "fulfilled"
    BY <1>2 DEF MarkByHand
  <2>2. /\ Len(order') = Len(order) /\ order' \in Seq(Order)
        /\ \A p \in DOMAIN order : p # o => order'[p] = order[p]
    BY <1>2, MarkEffect
  <2>3. DOMAIN order' = DOMAIN order
    BY <2>2, TypeFacts
  <2>4. FulfilledStays
    BY <2>1, <2>2, <2>3 DEF FulfilledStays
  <2> QED
    BY <2>1, <2>4, LedgerStays
<1>3. ASSUME NEW a \in Actors,
             Deliver(a) \/ OpenReturn(a) \/ OpenRepair(a) \/ Read(a) \/ RollBack(a)
      PROVE  CommissionInv'
  <2>1. UNCHANGED <<order, ledger, payouts>>
    BY <1>3 DEF Deliver, OpenReturn, OpenRepair, Read, RollBack, Rows
  <2>2. FulfilledStays
    BY <2>1 DEF FulfilledStays
  <2>3. \A d \in Actors : tx'[d] = tx[d] \/ tx'[d].pc # "pay"
    <3>1. CASE Quit(a)
      BY <3>1, QuitEffect, TypeFacts DEF NoTx
    <3>2. CASE \E fields : fields.pc # "pay" /\ "pc" \in DOMAIN fields /\ Set(a, fields)
      BY <3>2, SetFields, TypeFacts DEF Columns, TypeInv
    <3>3. CASE Deliver(a)
      BY <3>2, <3>3 DEF Deliver
    <3>4. CASE OpenReturn(a)
      BY <3>2, <3>4 DEF OpenReturn
    <3>5. CASE OpenRepair(a)
      BY <3>2, <3>5 DEF OpenRepair
    <3>6. CASE Read(a)
      BY <3>1, <3>2, <3>6 DEF Read
    <3>7. CASE RollBack(a)
      BY <3>1, <3>7 DEF RollBack
    <3> QED
      BY <1>3, <3>3, <3>4, <3>5, <3>6, <3>7
  <2> QED
    BY <2>1, <2>2, <2>3, LedgerStays
<1>4. ASSUME NEW a \in Actors, ReadPayout(a) PROVE CommissionInv'
  <2>1. UNCHANGED <<order, ledger, payouts>>
    BY <1>4 DEF ReadPayout, Rows
  <2>2. FulfilledStays
    BY <2>1 DEF FulfilledStays
  <2>3. PICK batch \in SUBSET {o \in OrderIds : MayPay(o)} :
          Set(a, [pc |-> "pay", batch |-> batch])
    BY <1>4 DEF ReadPayout
  <2>4. tx' = [tx EXCEPT ![a] = Paying(tx[a], batch)]
    BY <2>3, PayEffect
  <2>5. tx'[a].batch = batch /\ \A d \in Actors : d # a => tx'[d] = tx[d]
    BY <2>4, TypeFacts DEF Paying
  <2> QED
    BY <2>1, <2>2, <2>5, LedgerStays
<1>5. CASE UNCHANGED vars
  BY <1>5, LedgerStays DEF vars, FulfilledStays
<1> QED
  BY <1>1, <1>2, <1>3, <1>4, <1>5, WriteCommission, PayCommission DEF Next

(* The inductive invariant holds in every reachable state. *)
LEMMA ShopInvariant ==
    ASSUME ~Postgres
    PROVE  Spec => [](TypeInv /\ ShopInv /\ CommissionInv)
<1>1. Init => TypeInv /\ ShopInv /\ CommissionInv
  BY InitType, InitSafe, InitCommission
<1>2. TypeInv /\ ShopInv /\ CommissionInv /\ [Next]_vars
        => (TypeInv /\ ShopInv /\ CommissionInv)'
  BY StepType, StepSafe, StepCommission
<1> QED
  BY <1>1, <1>2, PTL DEF Spec

(* Rewards are granted once and together with the status (shop.py:1551), on  *)
(* SQLite: any number of webhooks, return pages, operators and orders.       *)
THEOREM SqliteRewardsMatch ==
    ASSUME ~Postgres
    PROVE  Spec => []RewardsMatchStatus
<1>1. ShopInv => RewardsMatchStatus
  BY DEF ShopInv, GrantsMatch
<1> QED
  BY <1>1, ShopInvariant, PTL

(* A commission belongs to a delivered order, and is in one payout exactly   *)
(* when it is marked as paid, on SQLite.                                     *)
THEOREM SqliteCommissionPaidOnce ==
    ASSUME ~Postgres
    PROVE  Spec => []CommissionPaidOnce
<1>1. ASSUME TypeInv, CommissionInv, NEW o \in OrderIds
      PROVE  Cardinality(PaidIn(o)) = IF ledger[o] = "paid" THEN 1 ELSE 0
  <2>1. LedgerMatches(o)
    BY <1>1 DEF CommissionInv
  <2>2. CASE ledger[o] = "paid"
    <3>1. PICK i \in DOMAIN payouts : PaidIn(o) = {i}
      BY <2>1, <2>2 DEF LedgerMatches
    <3>2. Cardinality(PaidIn(o)) = 1
      BY <3>1, FS_Singleton
    <3> QED
      BY <2>2, <3>2
  <2>3. CASE ledger[o] # "paid"
    <3>1. Cardinality(PaidIn(o)) = 0
      BY <2>1, <2>3, FS_EmptySet DEF LedgerMatches
    <3> QED
      BY <2>3, <3>1
  <2> QED
    BY <2>2, <2>3
<1>2. TypeInv /\ CommissionInv => CommissionPaidOnce
  BY <1>1 DEF CommissionPaidOnce, CommissionInv, LedgerMatches, PaidIn
<1> QED
  BY <1>2, ShopInvariant, PTL
=============================================================================
