-------------------------- MODULE BuildQueueProofs --------------------------
(***************************************************************************)
(* Proofs about the build queue, for every value of its constants: every   *)
(* variable keeps its type, the committed jobs of a planet take turns in   *)
(* its one slot, the queue holds the open orders within the caps, every    *)
(* window fits the level it delivers, the slot builds no faster than time  *)
(* passes, with one writer nothing is delivered on vacation, and all of it *)
(* implements the contract of BuildContract.                               *)
(*                                                                         *)
(* The invariants build on one another: types, the order of the rows, the  *)
(* books, the windows, the pace; and types, books, account.                *)
(***************************************************************************)
EXTENDS BuildQueue, FiniteSetTheorems, SetSums, TLAPS

-----------------------------------------------------------------------------
(* Lemmas about the operators. *)

(* Every build takes whole time units, and no fewer than the floor.        *)
LEMMA DurationType ==
    ASSUME NEW b \in Buildings, NEW target \in Int, NEW speed \in Nat
    PROVE  Duration(b, target, speed) \in Nat /\ Duration(b, target, speed) >= Floor
<1>1. BaseTime[b] \in Nat
  BY BuildingsAssumption
<1>2. BaseTime[b] * target \in Int
  BY <1>1
<1>3. (BaseTime[b] * target) \div (1 + speed) \in Int
  BY <1>2
<1> QED
  BY <1>3, TimesAssumption DEF Duration, Larger

(* Costs are natural numbers.                                              *)
LEMMA CostType ==
    ASSUME NEW b \in Buildings, NEW target \in Nat
    PROVE  CostOf(b, target) \in Nat
<1>1. BaseCost[b] \in Nat
  BY BuildingsAssumption
<1> QED
  BY <1>1 DEF CostOf

(* The rows of one building among the first n are counted by a natural     *)
(* number.                                                                 *)
LEMMA QueuedSameType ==
    ASSUME NEW queue, NEW b, NEW n \in Int
    PROVE  QueuedSame(queue, b, n) \in Nat
<1>1. IsFiniteSet(1..n)
  BY FS_Interval
<1>2. IsFiniteSet({i \in 1..n : queue[i].building = b})
  BY <1>1, FS_Subset
<1> QED
  BY <1>2, FS_CardinalityType DEF QueuedSame

(* The columns of a row.                                                   *)
LEMMA JobFields ==
    ASSUME NEW job \in Job
    PROVE  /\ job.building \in Buildings /\ job.cost \in Nat
           /\ job.start \in Int /\ job.finish \in Int
  BY DEF Job

(* A refund is a natural number.                                           *)
LEMMA RefundType ==
    ASSUME NEW job \in Job, NEW t \in Nat
    PROVE  Refund(job, t) \in Nat
  BY DEF Refund, Job

(* Deleting a row leaves a queue one shorter, the other rows in order.     *)
LEMMA DropType ==
    ASSUME NEW queue \in Seq(Job), NEW k \in 1..Len(queue)
    PROVE  /\ Drop(queue, k) \in Seq(Job)
           /\ Len(Drop(queue, k)) = Len(queue) - 1
           /\ \A i \in 1..(Len(queue) - 1) :
                Drop(queue, k)[i] = IF i < k THEN queue[i] ELSE queue[i + 1]
<1> DEFINE rest == Drop(queue, k)
           n == Len(queue) - 1
<1>1. n \in Nat
  OBVIOUS
<1>2. rest \in [1..n -> Job]
  BY DEF Drop
<1>3. rest \in Seq(Job)
  BY <1>1, <1>2
<1>4. Len(rest) = n
  BY <1>1, <1>2
<1>5. \A i \in 1..n : rest[i] = IF i < k THEN queue[i] ELSE queue[i + 1]
  BY DEF Drop
<1> QED
  BY <1>3, <1>4, <1>5
(* A boost moves every row and keeps the queue's length.                   *)
LEMMA ShiftedType ==
    ASSUME NEW queue \in Seq(Job), NEW seconds \in Nat
    PROVE  /\ Shifted(queue, seconds) \in Seq(Job)
           /\ Len(Shifted(queue, seconds)) = Len(queue)
           /\ \A i \in 1..Len(queue) :
                /\ Shifted(queue, seconds)[i].start = queue[i].start - seconds
                /\ Shifted(queue, seconds)[i].finish = queue[i].finish - seconds
<1> DEFINE shifted == Shifted(queue, seconds)
<1>1. ASSUME NEW i \in 1..Len(queue)
      PROVE  /\ shifted[i] \in Job
             /\ shifted[i].start = queue[i].start - seconds
             /\ shifted[i].finish = queue[i].finish - seconds
  <2> DEFINE job == queue[i]
             start == job.start - seconds
             finish == job.finish - seconds
  <2>1. job \in Job
    OBVIOUS
  <2>2. shifted[i] = [job EXCEPT !.start = start, !.finish = finish]
    BY DEF Shifted
  <2> HIDE DEF shifted
  <2>3. start \in Int /\ finish \in Int
    BY <2>1, JobFields
  <2> HIDE DEF job, start, finish
  <2>4. shifted[i] \in Job /\ shifted[i].start = start /\ shifted[i].finish = finish
    BY <2>1, <2>2, <2>3 DEF Job
  <2> QED
    BY <2>4 DEF job, start, finish
<1>2. shifted \in [1..Len(queue) -> Job]
  BY <1>1 DEF Shifted
<1>3. shifted \in Seq(Job) /\ Len(shifted) = Len(queue)
  BY <1>2
<1> QED
  BY <1>1, <1>3

(* New typed columns make typed rows.                                      *)
LEMMA RowsType ==
    ASSUME NEW rows \in Rows, NEW metal \in Nat, NEW tk \in Nat,
           NEW queue \in Seq(Job), NEW orders \in Seq(Order)
    PROVE  /\ [rows EXCEPT !.queue = queue] \in Rows
           /\ [rows EXCEPT !.tk = tk] \in Rows
           /\ [rows EXCEPT !.metal = metal, !.queue = queue, !.orders = orders] \in Rows
  BY DEF Rows

(* Replacing one element keeps a sequence typed.                           *)
LEMMA ReplaceType ==
    ASSUME NEW S, NEW s \in Seq(S), NEW i, NEW v, i \in 1..Len(s) => v \in S
    PROVE  [s EXCEPT ![i] = v] \in Seq(S) /\ Len([s EXCEPT ![i] = v]) = Len(s)
<1>1. s \in [1..Len(s) -> S] /\ Len(s) \in Nat
  OBVIOUS
<1>2. [s EXCEPT ![i] = v] \in [1..Len(s) -> S]
  BY <1>1
<1> QED
  BY <1>1, <1>2

-----------------------------------------------------------------------------
(* Type correctness. The enqueue loop reads the building of its request and *)
(* a boost its seconds, so TypeOK needs to know which request is served     *)
(* where.                                                                   *)

PhaseFitsRequest ==
    /\ phase = "place" => req.kind = "enqueue"
    /\ phase = "shift" => req.kind = "boost"

TypeInv == TypeOK /\ PhaseFitsRequest

(* What a served request carries.                                          *)
LEMMA RequestFields ==
    ASSUME NEW r \in Request
    PROVE  /\ r.kind = "enqueue" => r.building \in Buildings
           /\ r.kind = "boost" => r.seconds \in Nat
  BY DEF Request, EnqueueRequest

(* The level the order placed now will deliver is a natural number.        *)
LEMMA NextTargetType ==
    ASSUME TypeInv, phase = "place"
    PROVE  req.building \in Buildings /\ NextTarget \in Nat
<1>1. req.building \in Buildings
  BY RequestFields DEF TypeInv, TypeOK, PhaseFitsRequest
<1>2. work.level[req.building] \in Nat
  BY <1>1 DEF TypeInv, TypeOK, Rows
<1>3. QueuedSame(work.queue, req.building, Len(work.queue)) \in Nat
  <2>1. Len(work.queue) \in Int
    BY DEF TypeInv, TypeOK, Rows
  <2> QED
    BY <2>1, QueuedSameType
<1> QED
  BY <1>1, <1>2, <1>3 DEF NextTarget

(* Closing a transaction on well-typed rows leaves its variables typed.    *)
LEMMA CloseType ==
    ASSUME NEW rows \in Rows, Close(rows)
    PROVE  /\ phase' \in Phases /\ req' \in Request /\ now' \in Nat
           /\ frozen' \in BOOLEAN /\ work' \in Rows /\ idx' \in Nat \ {0}
           /\ at' \in Int /\ left' \in Int /\ owed' \in Nat
           /\ PhaseFitsRequest'
<1>1. NoRequest \in Request
  BY DEF Request, NoRequest
<1>2. phase' = "idle"
  BY DEF Close
<1>3. PhaseFitsRequest'
  BY <1>2 DEF PhaseFitsRequest
<1>4. phase' \in Phases
  BY <1>2 DEF Phases
<1>5. frozen' \in BOOLEAN
  BY DEF Close
<1>6. now' \in Nat /\ idx' \in Nat \ {0} /\ at' \in Int /\ left' \in Int /\ owed' \in Nat
  BY DEF Close
<1>7. req' \in Request /\ work' \in Rows
  BY <1>1 DEF Close
<1> QED
  BY <1>3, <1>4, <1>5, <1>6, <1>7

(* A transaction that is opened has typed variables. *)
LEMMA OpenType ==
    ASSUME TypeInv, NEW r \in Request, Open(r)
    PROVE  /\ phase' \in Phases /\ req' \in Request /\ now' \in Nat
           /\ frozen' \in BOOLEAN /\ work' \in Rows /\ idx' \in Nat \ {0}
           /\ at' \in Int /\ left' \in Int /\ owed' \in Nat
           /\ PhaseFitsRequest'
  BY DEF TypeInv, TypeOK, Open, Phases, PhaseFitsRequest
(* The finish pass keeps the rows typed.                                   *)
LEMMA FinishType ==
    ASSUME TypeInv, FinishPass
    PROVE  TypeInv'
<1> USE DEF TypeInv, TypeOK, accountVars
<1>1. CASE FinishHead
  <2> DEFINE job == work.queue[1]
             id == job.id
  <2>1. work.queue \in Seq(Job) /\ work.queue # << >>
    BY <1>1 DEF FinishHead, HeadIsDue, Rows
  <2>2. job \in Job /\ Tail(work.queue) \in Seq(Job)
    BY <2>1
  <2>3. job.building \in Buildings /\ job.finish - job.start \in Int
    BY <2>2 DEF Job
  <2>4. [work.level EXCEPT ![job.building] = @ + 1] \in [Buildings -> Nat]
    BY SMTT(20), <2>3 DEF Rows
  <2> DEFINE order == [work.orders[id] EXCEPT !.state = "delivered",
                                              !.took = job.finish - job.start]
  <2>5. [work.orders EXCEPT ![id] = order] \in Seq(Order)
    <3>1. work.orders \in Seq(Order)
      BY DEF Rows
    <3>2. ASSUME id \in 1..Len(work.orders) PROVE order \in Order
      <4>1. work.orders[id] \in Order
        BY <3>1, <3>2
      <4> HIDE DEF id, job
      <4>2. job.finish - job.start \in Int
        BY <2>3
      <4> QED
        BY <4>1, <4>2 DEF Order
    <3> HIDE DEF order
    <3> QED
      BY <3>1, <3>2, ReplaceType
  <2>6. work' \in Rows
    BY <1>1, <2>2, <2>4, <2>5 DEF FinishHead, Rows
  <2> QED
    BY <1>1, <2>6 DEF FinishHead, PhaseFitsRequest
<1>2. AfterFinish \in Phases /\ AfterFinish # "place"
      /\ (AfterFinish = "shift" => req.kind = "boost")
  BY DEF AfterFinish, Phases
<1>3. CASE FinishEnd
  BY <1>2, <1>3 DEF FinishEnd, PhaseFitsRequest
<1>4. CASE FinishFails
  BY <1>2, <1>4 DEF FinishFails, PhaseFitsRequest
<1>5. CASE FinishLosesHead
  <2> DEFINE id == work.queue[1].id
             order == [work.orders[id] EXCEPT !.state = "lost"]
  <2>1. work \in Rows /\ work.queue \in Seq(Job) /\ work.queue # << >>
        /\ work.orders \in Seq(Order)
    BY <1>5 DEF FinishLosesHead, HeadIsDue, Rows
  <2>2. Tail(work.queue) \in Seq(Job)
    BY <2>1
  <2>3. ASSUME id \in 1..Len(work.orders) PROVE order \in Order
    <3>1. work.orders[id] \in Order
      BY <2>1, <2>3
    <3> HIDE DEF id
    <3> QED
      BY <3>1 DEF Order
  <2> HIDE DEF order
  <2>4. [work.orders EXCEPT ![id] = order] \in Seq(Order)
    BY <2>1, <2>3, ReplaceType
  <2>5. work' \in Rows
    <3>1. work' = [work EXCEPT !.queue = Tail(work.queue),
                              !.orders = [work.orders EXCEPT ![id] = order]]
      BY <1>5, <2>1 DEF FinishLosesHead, Rows, order
    <3> QED
      BY <2>1, <2>2, <2>4, <3>1 DEF Rows
  <2> QED
    BY <1>2, <1>5, <2>5 DEF FinishLosesHead, PhaseFitsRequest
<1> QED
  BY <1>1, <1>3, <1>4, <1>5 DEF FinishPass

(* The reschedule loop keeps the rows typed.                               *)
LEMMA RescheduleType ==
    ASSUME TypeInv, KeepHead \/ RescheduleRow \/ RescheduleEnd
    PROVE  TypeInv'
<1> USE DEF TypeInv, TypeOK, accountVars
<1>0. work.queue \in Seq(Job)
  BY DEF Rows
<1>1. CASE KeepHead
  <2>1. work.queue[1] \in Job
    BY <1>0, <1>1 DEF KeepHead, KeepsWindow
  <2>2. at' \in Int
    BY <1>1, <2>1 DEF KeepHead, Job
  <2> QED
    BY <1>1, <2>2 DEF KeepHead, PhaseFitsRequest
<1>2. CASE RescheduleRow
  <2> DEFINE job == work.queue[idx]
             finish == at + Duration(job.building, TargetAt(work.queue, work.level, idx),
                                     work.level[Nanofactory])
  <2>1. idx \in 1..Len(work.queue)
    BY <1>0, <1>2 DEF RescheduleRow
  <2>2. job \in Job
    BY <1>0, <2>1
  <2>3. job.building \in Buildings /\ work.level[job.building] \in Nat
    BY <2>2 DEF Job, Rows
  <2>4. QueuedSame(work.queue, job.building, idx - 1) \in Nat
    BY QueuedSameType
  <2>5. TargetAt(work.queue, work.level, idx) \in Int
    BY <2>3, <2>4 DEF TargetAt
  <2>6. work.level[Nanofactory] \in Nat
    BY BuildingsAssumption DEF Rows
  <2>7. finish \in Int
    BY <2>3, <2>5, <2>6, DurationType
  <2>8. [job EXCEPT !.start = at, !.finish = finish] \in Job
    BY <2>2, <2>7 DEF Job
  <2>9. [work.queue EXCEPT ![idx] = [job EXCEPT !.start = at, !.finish = finish]]
          \in Seq(Job)
    BY <1>0, <2>8, ReplaceType
  <2>10. work' = [work EXCEPT !.queue =
            [work.queue EXCEPT ![idx] = [job EXCEPT !.start = at, !.finish = finish]]]
    BY <1>2 DEF RescheduleRow, Rows
  <2>11. work' \in Rows
    BY <2>9, <2>10 DEF Rows
  <2> QED
    BY <1>2, <2>7, <2>11 DEF RescheduleRow, PhaseFitsRequest
<1>3. CASE RescheduleEnd
  <2>1. CASE req.kind = "enqueue" /\ phase' = "place" /\ left' = Attempts
    <3>1. req.building \in Buildings
      BY <2>1, RequestFields
    <3>2. work.level[req.building] \in Nat /\ MaxLevel[req.building] \in Nat
      BY <3>1, BuildingsAssumption DEF Rows
    <3>3. QueuedSame(work.queue, req.building, Len(work.queue)) \in Nat
      BY <1>0, QueuedSameType
    <3>4. Attempts \in Int
      BY <1>0, <3>2, <3>3, LimitsAssumption DEF Attempts, Larger, Smallest, Smaller
    <3> QED
      BY <1>3, <2>1, <3>4 DEF RescheduleEnd, PhaseFitsRequest, Phases
  <2>2. CASE req.kind = "cancel" /\ phase' = "commit" /\ left' = left
    BY <1>3, <2>2 DEF RescheduleEnd, PhaseFitsRequest, Phases
  <2> QED
    BY <1>3, <2>1, <2>2 DEF RescheduleEnd
<1> QED
  BY <1>1, <1>2, <1>3
(* The enqueue loop keeps the rows typed.                                  *)
LEMMA PlaceType ==
    ASSUME TypeInv, PlaceOrder \/ PlaceEnd \/ RejectEnqueue
    PROVE  TypeInv'
<1> USE DEF TypeInv, TypeOK, accountVars
<1>1. CASE PlaceOrder
  <2> DEFINE b == req.building
             n == Len(work.queue)
             cost == CostOf(b, NextTarget)
             start == IF n = 0 THEN now ELSE Larger(now, work.queue[n].finish)
             finish == start + Duration(b, NextTarget, work.level[Nanofactory])
             job == [id |-> Len(work.orders) + 1, building |-> b,
                     start |-> start, finish |-> finish, cost |-> cost]
             order == [building |-> b, paid |-> cost, back |-> 0,
                       took |-> 0, state |-> "open"]
  <2>1. b \in Buildings /\ NextTarget \in Nat
    BY <1>1, NextTargetType DEF PlaceOrder
  <2>2. cost \in Nat
    BY <2>1, CostType
  <2>3. work.queue \in Seq(Job) /\ work.orders \in Seq(Order) /\ n \in Nat
    BY DEF Rows
  <2>4. start \in Int
    <3>1. n # 0 => work.queue[n] \in Job
      BY <2>3
    <3> QED
      BY <3>1 DEF Larger, Job
  <2>5. finish \in Int
    <3>1. work.level[Nanofactory] \in Nat
      BY BuildingsAssumption DEF Rows
    <3>2. Duration(b, NextTarget, work.level[Nanofactory]) \in Int
      BY <2>1, <3>1, DurationType
    <3> HIDE DEF start
    <3> QED
      BY <2>4, <3>2
  <2>6. job \in Job /\ order \in Order
    <3> HIDE DEF b, cost, start, finish
    <3> QED
      BY <2>1, <2>2, <2>3, <2>4, <2>5 DEF Job, Order
  <2>7. work' = [work EXCEPT !.metal = @ - cost, !.queue = Append(@, job),
                             !.orders = Append(@, order)]
    BY <1>1 DEF PlaceOrder
  <2>8. work.metal - cost \in Nat
    BY SMTT(20), <1>1, <2>2 DEF PlaceOrder, CanPlace, Rows
  <2>9. work' \in Rows
    <3>1. Append(work.queue, job) \in Seq(Job) /\ Append(work.orders, order) \in Seq(Order)
      BY <2>3, <2>6
    <3> HIDE DEF job, order, cost
    <3>2. work' = [work EXCEPT !.metal = work.metal - cost,
                               !.queue = Append(work.queue, job),
                               !.orders = Append(work.orders, order)]
      BY <2>7
    <3> QED
      BY <2>8, <3>1, <3>2, RowsType DEF Rows
  <2> QED
    BY <1>1, <2>9 DEF PlaceOrder, PhaseFitsRequest
<1>2. CASE PlaceEnd
  BY <1>2 DEF PlaceEnd, PhaseFitsRequest, Phases
<1>3. CASE RejectEnqueue
  BY <1>3, CloseType DEF RejectEnqueue
<1> QED
  BY <1>1, <1>2, <1>3

(* A cancel keeps the rows typed.                                          *)
LEMMA CancelType ==
    ASSUME TypeInv, CancelJob \/ CancelNotFound
    PROVE  TypeInv'
<1> USE DEF TypeInv, TypeOK, accountVars
<1>1. CASE CancelJob
  <2>1. PICK k \in PositionOf(work.queue, req.job) :
          work' = [work EXCEPT
                     !.metal = @ + Refund(work.queue[k], now),
                     !.queue = Drop(@, k),
                     !.orders[req.job] = [@ EXCEPT !.back = Refund(work.queue[k], now),
                                                   !.state = "cancelled"]]
    BY <1>1 DEF CancelJob
  <2> DEFINE back == Refund(work.queue[k], now)
             order == [work.orders[req.job] EXCEPT !.back = back, !.state = "cancelled"]
  <2>2. k \in 1..Len(work.queue) /\ work.queue \in Seq(Job) /\ work.orders \in Seq(Order)
    BY DEF PositionOf, Rows
  <2>3. back \in Nat
    BY <2>2, RefundType
  <2>4. Drop(work.queue, k) \in Seq(Job)
    BY <2>2, DropType
  <2>5. [work.orders EXCEPT ![req.job] = order] \in Seq(Order)
    <3>1. ASSUME req.job \in 1..Len(work.orders) PROVE order \in Order
      <4>1. work.orders[req.job] \in Order
        BY <2>2, <3>1
      <4> HIDE DEF back
      <4> QED
        BY <2>3, <4>1 DEF Order
    <3> HIDE DEF order
    <3> QED
      BY <2>2, <3>1, ReplaceType
  <2>6. work' \in Rows
    <3>1. work' = [work EXCEPT !.metal = work.metal + back,
                               !.queue = Drop(work.queue, k),
                               !.orders = [work.orders EXCEPT ![req.job] = order]]
      BY <2>1 DEF Rows
    <3>2. work.metal + back \in Nat
      BY <2>3 DEF Rows
    <3> HIDE DEF back, order
    <3> QED
      BY <2>4, <2>5, <3>1, <3>2, RowsType DEF Rows
  <2> QED
    BY <1>1, <2>6 DEF CancelJob, PhaseFitsRequest, Phases
<1>2. CASE CancelNotFound
  BY <1>2, CloseType DEF CancelNotFound
<1> QED
  BY <1>1, <1>2

(* A boost keeps the rows typed and never takes the balance below zero.    *)
LEMMA BoostType ==
    ASSUME TypeInv, ShiftQueue \/ NothingToBoost \/ Debit
    PROVE  TypeInv'
<1> USE DEF TypeInv, TypeOK, accountVars
<1>1. CASE ShiftQueue
  <2>1. req.seconds \in Nat
    BY <1>1, RequestFields DEF ShiftQueue, PhaseFitsRequest
  <2>2. work.queue \in Seq(Job) /\ work.tk \in Nat
    BY DEF Rows
  <2>3. BoostSeconds \in Nat
    <3>1. BoostSeconds > 0
      BY <1>1 DEF ShiftQueue
    <3>2. CASE work.queue = << >> \/ work.queue[1].finish <= now
      BY <3>2 DEF BoostSeconds
    <3>3. CASE work.queue # << >> /\ ~(work.queue[1].finish <= now)
      <4>1. work.queue[1] \in Job
        BY <2>2, <3>3
      <4>2. work.queue[1].finish - now \in Int
        BY <4>1 DEF Job
      <4>3. BoostSeconds = Smallest(work.tk, work.queue[1].finish - now, req.seconds)
        BY <3>3 DEF BoostSeconds
      <4> QED
        BY <2>1, <2>2, <3>1, <4>2, <4>3 DEF Smallest, Smaller
    <3> QED
      BY <3>2, <3>3
  <2>4. work' = [work EXCEPT !.queue = Shifted(work.queue, BoostSeconds)]
    BY <1>1 DEF ShiftQueue
  <2>5. work' \in Rows
    BY <2>2, <2>3, <2>4, ShiftedType, RowsType DEF Rows
  <2> QED
    BY <1>1, <2>3, <2>5 DEF ShiftQueue, PhaseFitsRequest, Phases
<1>2. CASE NothingToBoost
  BY <1>2, CloseType DEF NothingToBoost
<1>3. CASE Debit
  <2>1. work' = [work EXCEPT !.tk = work.tk - owed]
    BY <1>3 DEF Debit
  <2>2. work.tk - owed \in Nat
    BY SMTT(20), <1>3 DEF Debit, Rows
  <2>3. work' \in Rows
    BY <2>1, <2>2, RowsType DEF Rows
  <2> QED
    BY <1>3, <2>3 DEF Debit, PhaseFitsRequest, Phases
<1> QED
  BY <1>1, <1>2, <1>3

(* So do the requests that open a transaction or change vacation mode.     *)
LEMMA RequestsType ==
    ASSUME TypeInv, Requests
    PROVE  TypeInv'
<1> USE DEF TypeInv, TypeOK, accountVars, txVars
<1>1. CASE \E r \in EnqueueRequest : AdmitEnqueue(r)
  BY <1>1 DEF AdmitEnqueue, PhaseFitsRequest
<1>2. ASSUME NEW r \in EnqueueRequest, BeginEnqueue(r)
      PROVE  TypeInv'
  <2>1. r \in Request /\ Open(r)
    BY <1>2 DEF Request, BeginEnqueue
  <2> QED
    BY <1>2, <2>1, OpenType DEF BeginEnqueue
<1>3. ASSUME NEW id \in 1..MaxJobs, BeginCancel(id)
      PROVE  TypeInv'
  <2>1. [kind |-> "cancel", job |-> id] \in Request
    BY LimitsAssumption DEF Request
  <2> QED
    BY <1>3, <2>1, OpenType DEF BeginCancel
<1>4. CASE BeginFinish
  <2>1. [kind |-> "finish"] \in Request
    BY DEF Request
  <2> QED
    BY <1>4, <2>1, OpenType DEF BeginFinish
<1>5. ASSUME NEW s \in BoostAsks, BeginBoost(s)
      PROVE  TypeInv'
  <2>1. [kind |-> "boost", seconds |-> s] \in Request
    BY LimitsAssumption DEF Request
  <2> QED
    BY <1>5, <2>1, OpenType DEF BeginBoost
<1>6. CASE BeginVacation
  <2>1. [kind |-> "vacation"] \in Request
    BY DEF Request
  <2> QED
    BY <1>6, <2>1, OpenType DEF BeginVacation
<1>7. CASE VacationCheck
  BY <1>7 DEF VacationCheck, PhaseFitsRequest
<1>8. CASE VacationEnable
  <2>1. vacation' \in BOOLEAN
    BY <1>8 DEF VacationEnable
  <2>2. lockedUntil' \in Nat /\ vacationStep' = "idle"
    BY <1>8, TimesAssumption DEF VacationEnable
  <2> QED
    BY <1>8, <2>1, <2>2 DEF VacationEnable, PhaseFitsRequest
<1>9. CASE VacationDisable
  <2>1. vacation' \in BOOLEAN
    BY <1>9 DEF VacationDisable
  <2>2. lockedUntil' \in Nat
    BY <1>9 DEF VacationDisable
  <2> QED
    BY <1>9, <2>1, <2>2 DEF VacationDisable, PhaseFitsRequest
<1> QED
  BY <1>1, <1>2, <1>3, <1>4, <1>5, <1>6, <1>7, <1>8, <1>9 DEF Requests

(* The initial state is typed.                                             *)
LEMMA InitType == Init => TypeInv
<1> SUFFICES ASSUME Init PROVE TypeInv
  OBVIOUS
<1>1. << >> \in Seq(Job) /\ << >> \in Seq(Order)
  OBVIOUS
<1>2. [b \in Buildings |-> 0] \in [Buildings -> Nat]
  OBVIOUS
<1>3. db \in Rows /\ work \in Rows
  BY <1>1, <1>2, LimitsAssumption DEF Init, Rows
<1>4. req \in Request
  BY DEF Init, NoRequest, Request
<1>5. vacation \in BOOLEAN /\ frozen \in BOOLEAN
  BY DEF Init
<1>6. /\ clock \in Nat /\ lockedUntil \in Nat /\ now \in Nat /\ idx \in Nat \ {0}
      /\ at \in Int /\ left \in Int /\ owed \in Nat
  BY DEF Init
<1>7. vacationStep \in {"idle", "finishing", "finished", "clear"} /\ phase \in Phases
  BY DEF Init, Phases
<1>8. admitted \in SUBSET EnqueueRequest
  BY DEF Init
<1>9. PhaseFitsRequest
  BY DEF Init, PhaseFitsRequest
<1> QED
  BY <1>3, <1>4, <1>5, <1>6, <1>7, <1>8, <1>9 DEF TypeInv, TypeOK

(* Every step keeps the types.                                             *)
LEMMA StepType == TypeInv /\ [Next]_vars => TypeInv'
<1> SUFFICES ASSUME TypeInv, [Next]_vars
             PROVE  TypeInv'
  OBVIOUS
<1>1. CASE Tick
  BY <1>1 DEF Tick, TypeInv, TypeOK, PhaseFitsRequest, accountVars, txVars
<1>2. CASE Requests
  BY <1>2, RequestsType
<1>3. CASE Commit
  BY <1>3, CloseType DEF Commit, TypeInv, TypeOK
<1>4. CASE Abort
  BY <1>4, CloseType DEF Abort, TypeInv, TypeOK
<1>5. CASE Transaction
  BY <1>3, <1>5, FinishType, RescheduleType, PlaceType, CancelType, BoostType
     DEF Transaction
<1>6. CASE UNCHANGED vars
  BY <1>6 DEF vars, TypeInv, TypeOK, PhaseFitsRequest
<1> QED
  BY <1>1, <1>2, <1>4, <1>5, <1>6 DEF Next

(* Every variable keeps its type, whatever requests, failures and vacations *)
(* the planet sees: in particular no order and no boost is paid with more   *)
(* than the planet and the account have.                                    *)
THEOREM TypeCorrect == Spec => []TypeOK
<1>1. Spec => []TypeInv
  BY InitType, StepType, PTL DEF Spec
<1>2. TypeInv => TypeOK
  BY DEF TypeInv
<1> QED
  BY <1>1, <1>2, PTL
-----------------------------------------------------------------------------
(* One slot. Only the reschedule loop sees rows that do not follow one      *)
(* another: the ones it has not reached. What it has passed is in order,    *)
(* and the next row may start where it left off.                            *)

PassedInOrder ==
    /\ idx <= Len(work.queue) + 1
    /\ \A i \in 1..(idx - 2) : Follows(work.queue[i], work.queue[i + 1])
    /\ idx > 1 => /\ work.queue[idx - 1].finish - Grace <= at
                  /\ work.queue[idx - 1].finish < at + Floor

SerialInv ==
    /\ SlotSerial
    /\ phase # "reschedule" => Serial(work.queue)
    /\ phase \notin {"reschedule", "place", "commit"} => idx = 1
    /\ phase = "reschedule" => PassedInOrder

(* Deleting the head leaves the rows behind it in order.                   *)
LEMMA TailSerial ==
    ASSUME NEW queue \in Seq(Job), queue # << >>, Serial(queue)
    PROVE  Serial(Tail(queue))
<1>1. Len(Tail(queue)) = Len(queue) - 1 /\ Len(queue) \in Nat
  OBVIOUS
<1>2. \A i \in 1..(Len(queue) - 1) : Tail(queue)[i] = queue[i + 1]
  OBVIOUS
<1>3. ASSUME NEW i \in 1..(Len(Tail(queue)) - 1)
      PROVE  Follows(Tail(queue)[i], Tail(queue)[i + 1])
  <2>1. i + 1 \in 1..(Len(queue) - 1)
    BY <1>1
  <2>2. Tail(queue)[i] = queue[i + 1] /\ Tail(queue)[i + 1] = queue[i + 1 + 1]
    BY <1>1, <1>2, <2>1
  <2> QED
    BY <2>1, <2>2 DEF Serial
<1> QED
  BY <1>3 DEF Serial

(* An order that starts no earlier than the last row ends, and takes the    *)
(* floor at least, may be appended.                                         *)
LEMMA AppendSerial ==
    ASSUME NEW queue \in Seq(Job), NEW job \in Job, Serial(queue),
           queue # << >> => /\ queue[Len(queue)].finish <= job.start
                            /\ job.start + Floor <= job.finish
    PROVE  Serial(Append(queue, job))
<1> DEFINE n == Len(queue)
<1>1. n \in Nat /\ Len(Append(queue, job)) = n + 1
  OBVIOUS
<1>2. ASSUME NEW i \in 1..n
      PROVE  Follows(Append(queue, job)[i], Append(queue, job)[i + 1])
  <2>1. CASE i < n
    <3>1. i \in 1..(n - 1)
      BY <1>1, <2>1
    <3>2. Append(queue, job)[i] = queue[i] /\ Append(queue, job)[i + 1] = queue[i + 1]
      BY <1>1, <3>1
    <3> QED
      BY <3>1, <3>2 DEF Serial
  <2>2. CASE i = n
    <3>1. Append(queue, job)[i] = queue[n] /\ Append(queue, job)[i + 1] = job
      BY <1>1, <2>2
    <3>2. queue[n] \in Job /\ queue # << >>
      BY <1>1, <1>2, <2>2
    <3>3. queue[n].finish \in Int /\ job.start \in Int /\ job.finish \in Int
      BY <3>2 DEF Job
    <3>4. queue[n].finish <= job.start /\ job.start + Floor <= job.finish
      BY <3>2
    <3> HIDE DEF n
    <3>5. Follows(queue[n], job)
      BY <3>3, <3>4, TimesAssumption DEF Follows
    <3> QED
      BY <3>1, <3>5
  <2> QED
    BY <1>1, <2>1, <2>2
<1> QED
  BY <1>1, <1>2 DEF Serial

(* A boost moves all rows alike.                                           *)
LEMMA ShiftedSerial ==
    ASSUME NEW queue \in Seq(Job), NEW seconds \in Nat, Serial(queue)
    PROVE  Serial(Shifted(queue, seconds))
<1> DEFINE shifted == Shifted(queue, seconds)
<1>1. ASSUME NEW i \in 1..(Len(queue) - 1)
      PROVE  Follows(shifted[i], shifted[i + 1])
  <2>1. i \in 1..Len(queue) /\ i + 1 \in 1..Len(queue)
    OBVIOUS
  <2>2. queue[i] \in Job /\ queue[i + 1] \in Job
    BY <2>1
  <2>3. queue[i].finish \in Int /\ queue[i + 1].start \in Int /\ queue[i + 1].finish \in Int
    BY <2>2 DEF Job
  <2>4. /\ shifted[i].finish = queue[i].finish - seconds
        /\ shifted[i + 1].start = queue[i + 1].start - seconds
        /\ shifted[i + 1].finish = queue[i + 1].finish - seconds
    BY <2>1, ShiftedType
  <2>5. Follows(queue[i], queue[i + 1])
    BY DEF Serial
  <2> HIDE DEF shifted
  <2> QED
    BY SMTT(20), <2>3, <2>4, <2>5, TimesAssumption DEF Follows
<1> QED
  BY <1>1, ShiftedType DEF Serial

(* Closing a transaction on serial rows.                                   *)
LEMMA CloseSerial ==
    ASSUME NEW rows \in Rows, Serial(rows.queue), Close(rows), SlotSerial'
    PROVE  SerialInv'
<1>1. phase' = "idle" /\ idx' = 1 /\ work' = rows
  BY DEF Close
<1>2. Serial(work'.queue)
  BY <1>1
<1> QED
  BY <1>1, <1>2 DEF SerialInv

(* The finish pass deletes heads, or is undone to the committed rows.      *)
LEMMA FinishSerial ==
    ASSUME TypeInv, SerialInv, FinishPass
    PROVE  SerialInv'
<1>1. phase \in {"finish", "deliver"} /\ db' = db /\ idx' = idx
  BY DEF FinishPass, FinishHead, FinishEnd, FinishFails, FinishLosesHead
<1>2. Serial(work.queue) /\ idx = 1 /\ SlotSerial
  BY <1>1 DEF SerialInv
<1>3. SlotSerial'
  BY <1>1, <1>2 DEF SlotSerial
<1>4. Serial(work'.queue)
  <2>1. CASE FinishHead
    <3>1. work.queue \in Seq(Job) /\ work.queue # << >>
      BY <2>1 DEF FinishHead, HeadIsDue, TypeInv, TypeOK, Rows
    <3>2. work'.queue = Tail(work.queue)
      BY <2>1 DEF FinishHead, TypeInv, TypeOK, Rows
    <3> QED
      BY <1>2, <3>1, <3>2, TailSerial
  <2>2. CASE FinishEnd
    BY <1>2, <2>2 DEF FinishEnd
  <2>3. CASE FinishFails
    BY <1>2, <2>3 DEF FinishFails, SlotSerial
  <2>4. CASE FinishLosesHead
    <3>1. work.queue \in Seq(Job) /\ work.queue # << >>
      BY <2>4 DEF FinishLosesHead, HeadIsDue, TypeInv, TypeOK, Rows
    <3>2. work'.queue = Tail(work.queue)
      BY <2>4 DEF FinishLosesHead, TypeInv, TypeOK, Rows
    <3> QED
      BY <1>2, <3>1, <3>2, TailSerial
  <2> QED
    BY <2>1, <2>2, <2>3, <2>4 DEF FinishPass
<1>5. PassedInOrder'
  <2>1. work'.queue \in Seq(Job)
    BY FinishType DEF TypeInv, TypeOK, Rows
  <2>2. Len(work'.queue) \in Nat
    BY <2>1
  <2> QED
    BY <1>1, <1>2, <2>2 DEF PassedInOrder
<1> QED
  BY <1>1, <1>2, <1>3, <1>4, <1>5 DEF SerialInv

(* The reschedule loop: the head keeps its window, or the row it is at      *)
(* starts where the row before it left off.                                 *)
LEMMA RescheduleSerial ==
    ASSUME TypeInv, SerialInv, KeepHead \/ RescheduleRow \/ RescheduleEnd
    PROVE  SerialInv'
<1>1. phase = "reschedule" /\ db' = db
  BY DEF KeepHead, RescheduleRow, RescheduleEnd
<1>2. PassedInOrder /\ SlotSerial'
  BY <1>1 DEF SerialInv, SlotSerial
<1>3. work.queue \in Seq(Job) /\ idx \in Nat \ {0} /\ at \in Int /\ now \in Nat
  BY DEF TypeInv, TypeOK, Rows
<1>4. CASE KeepHead
  <2>1. idx = 1 /\ 1 <= Len(work.queue) /\ phase' = "reschedule"
        /\ work' = work /\ idx' = 2
    BY <1>1, <1>4 DEF KeepHead, KeepsWindow
  <2>2. work.queue[1] \in Job
    BY <1>3, <2>1
  <2> DEFINE finish == work.queue[1].finish
  <2>3. finish \in Int
    BY <2>2 DEF Job
  <2>4. at' = IF finish <= now + Grace THEN now ELSE finish
    BY <1>4 DEF KeepHead, DueCutoff
  <2> HIDE DEF finish
  <2>5. finish - Grace <= at' /\ finish < at' + Floor
    BY <1>3, <2>3, <2>4, TimesAssumption
  <2>6. PassedInOrder'
    BY <1>3, <2>1, <2>5 DEF PassedInOrder, finish
  <2> QED
    BY <1>2, <2>1, <2>6 DEF SerialInv
<1>5. CASE RescheduleRow
  <2> DEFINE job == work.queue[idx]
             length == Duration(job.building, TargetAt(work.queue, work.level, idx),
                                work.level[Nanofactory])
             row == [job EXCEPT !.start = at, !.finish = at + length]
             moved == [work.queue EXCEPT ![idx] = row]
  <2>1. idx \in 1..Len(work.queue) /\ job \in Job
    BY <1>3, <1>5 DEF RescheduleRow
  <2>2. length \in Nat /\ length >= Floor
    <3>1. job.building \in Buildings /\ work.level[job.building] \in Nat
      BY <2>1 DEF TypeInv, TypeOK, Rows, Job
    <3>2. TargetAt(work.queue, work.level, idx) \in Int
      <4>1. QueuedSame(work.queue, job.building, idx - 1) \in Nat
        BY <1>3, QueuedSameType
      <4> QED
        BY <3>1, <4>1 DEF TargetAt
    <3>3. work.level[Nanofactory] \in Nat
      BY BuildingsAssumption DEF TypeInv, TypeOK, Rows
    <3> QED
      BY <3>1, <3>2, <3>3, DurationType
  <2>3. row \in Job /\ row.start = at /\ row.finish = at + length
    <3> DEFINE end == at + length
    <3>1. end \in Int
      BY <1>3, <2>2
    <3>2. row = [job EXCEPT !.start = at, !.finish = end]
      OBVIOUS
    <3>3. job \in Job
      BY <2>1
    <3> HIDE DEF job, row, end
    <3>4. row \in Job /\ row.start = at /\ row.finish = end
      BY <1>3, <3>1, <3>2, <3>3 DEF Job
    <3> QED
      BY <3>4 DEF end
  <2>4. moved \in Seq(Job) /\ Len(moved) = Len(work.queue)
    BY <1>3, <2>3, ReplaceType
  <2>5. moved[idx] = row /\ \A i \in 1..(idx - 1) : moved[i] = work.queue[i]
    BY <1>3, <2>1
  <2>6. work'.queue = moved /\ idx' = idx + 1 /\ at' = at + length
        /\ phase' = "reschedule"
    BY <1>1, <1>5 DEF RescheduleRow, TypeInv, TypeOK, Rows
  <2>7. ASSUME idx > 1 PROVE Follows(work.queue[idx - 1], row)
    <3>1. work.queue[idx - 1] \in Job
      BY <1>3, <2>1, <2>7
    <3>2. work.queue[idx - 1].finish \in Int
      BY <3>1 DEF Job
    <3>3. work.queue[idx - 1].finish - Grace <= at
          /\ work.queue[idx - 1].finish < at + Floor
      BY <1>2, <2>7 DEF PassedInOrder
    <3> HIDE DEF row, length
    <3> QED
      BY <1>3, <2>2, <2>3, <3>2, <3>3, TimesAssumption DEF Follows
  <2> HIDE DEF job, length, row, moved
  <2>8. ASSUME NEW i \in 1..(idx - 1) PROVE Follows(moved[i], moved[i + 1])
    <3>1. CASE i = idx - 1
      BY <1>3, <2>1, <2>5, <2>7, <3>1
    <3>2. CASE i # idx - 1
      <4>1. i \in 1..(idx - 2) /\ i + 1 \in 1..(idx - 1)
        BY <1>3, <3>2
      <4> QED
        BY <1>2, <2>5, <4>1 DEF PassedInOrder
    <3> QED
      BY <3>1, <3>2
  <2>9. PassedInOrder'
    <3>1. idx' <= Len(work'.queue) + 1
      BY <1>3, <2>1, <2>4, <2>6
    <3>2. work'.queue[idx' - 1].finish = at'
      BY <1>3, <2>3, <2>5, <2>6
    <3>3. at' \in Int
      BY <1>3, <2>2, <2>6
    <3>4. \A i \in 1..(idx' - 2) : Follows(work'.queue[i], work'.queue[i + 1])
      BY <1>3, <2>6, <2>8
    <3>5. at' - Grace <= at' /\ at' < at' + Floor
      <4>1. \A a \in Int : a - Grace <= a /\ a < a + Floor
        BY TimesAssumption
      <4> QED
        BY <3>3, <4>1
    <3> QED
      BY <3>1, <3>2, <3>4, <3>5 DEF PassedInOrder
  <2> QED
    BY <1>2, <2>6, <2>9 DEF SerialInv
<1>6. CASE RescheduleEnd
  <2>1. idx > Len(work.queue) /\ phase' \in {"place", "commit"} /\ work' = work
    BY <1>6 DEF RescheduleEnd
  <2>2. idx = Len(work.queue) + 1
    BY <1>2, <1>3, <2>1 DEF PassedInOrder
  <2>3. Serial(work.queue)
    <3>1. idx - 2 = Len(work.queue) - 1
      BY <1>3, <2>2
    <3> QED
      BY <1>2, <3>1 DEF PassedInOrder, Serial
  <2> QED
    BY <1>2, <2>1, <2>3 DEF SerialInv
<1> QED
  BY <1>4, <1>5, <1>6

(* A new order starts when the last row ends, or now if that is later.     *)
LEMMA PlaceSerial ==
    ASSUME TypeInv, SerialInv, PlaceOrder \/ PlaceEnd \/ RejectEnqueue
    PROVE  SerialInv'
<1>1. phase = "place" /\ db' = db
  BY DEF PlaceOrder, PlaceEnd, RejectEnqueue
<1>2. Serial(work.queue) /\ SlotSerial /\ SlotSerial'
  BY <1>1 DEF SerialInv, SlotSerial
<1>3. work.queue \in Seq(Job) /\ now \in Nat /\ db \in Rows
  BY DEF TypeInv, TypeOK, Rows
<1>4. CASE PlaceOrder
  <2> DEFINE n == Len(work.queue)
             cost == CostOf(req.building, NextTarget)
             start == IF n = 0 THEN now ELSE Larger(now, work.queue[n].finish)
             length == Duration(req.building, NextTarget, work.level[Nanofactory])
             job == [id |-> Len(work.orders) + 1, building |-> req.building,
                     start |-> start, finish |-> start + length, cost |-> cost]
  <2>1. work'.queue = Append(work.queue, job) /\ phase' = "place"
    BY <1>4 DEF PlaceOrder, TypeInv, TypeOK, Rows
  <2>2. req.building \in Buildings /\ NextTarget \in Nat
    BY <1>1, NextTargetType
  <2>3. length \in Nat /\ length >= Floor
    <3>1. work.level[Nanofactory] \in Nat
      BY BuildingsAssumption DEF TypeInv, TypeOK, Rows
    <3> QED
      BY <2>2, <3>1, DurationType
  <2>4. start \in Int /\ (work.queue # << >> => work.queue[n].finish <= start)
    <3>1. ASSUME work.queue # << >> PROVE n # 0 /\ work.queue[n] \in Job
      BY <1>3, <3>1
    <3>2. ASSUME work.queue # << >> PROVE n # 0 /\ work.queue[n].finish \in Int
      BY <3>1, <3>2 DEF Job
    <3>3. CASE work.queue # << >>
      <4> DEFINE last == work.queue[n].finish
      <4>1. start = Larger(now, last) /\ last \in Int
        BY <3>2, <3>3
      <4> HIDE DEF last, start
      <4>2. start \in Int /\ last <= start
        BY <1>3, <4>1 DEF Larger
      <4> QED
        BY <4>2 DEF last
    <3>4. CASE work.queue = << >>
      BY <1>3, <3>4
    <3> QED
      BY <3>3, <3>4
  <2>5. cost \in Nat /\ Len(work.orders) + 1 \in Nat
    <3>1. work.orders \in Seq(Order)
      BY DEF TypeInv, TypeOK, Rows
    <3> QED
      BY <2>2, <3>1, CostType
  <2> HIDE DEF length, start, cost
  <2>6. start + length \in Int /\ start + Floor <= start + length
    BY <2>3, <2>4, TimesAssumption
  <2>7. job \in Job /\ job.start = start /\ job.finish = start + length
    BY <2>2, <2>4, <2>5, <2>6 DEF Job
  <2> HIDE DEF job
  <2>8. Serial(Append(work.queue, job))
    BY <1>2, <1>3, <2>4, <2>6, <2>7, AppendSerial
  <2> QED
    BY <1>2, <2>1, <2>8 DEF SerialInv
<1>5. CASE PlaceEnd
  BY <1>2, <1>5 DEF PlaceEnd, SerialInv
<1>6. CASE RejectEnqueue
  BY <1>2, <1>3, <1>6, CloseSerial DEF RejectEnqueue, SlotSerial
<1> QED
  BY <1>4, <1>5, <1>6

(* A cancel leaves the order of the rows to the reschedule loop.           *)
LEMMA CancelSerial ==
    ASSUME TypeInv, SerialInv, CancelJob \/ CancelNotFound
    PROVE  SerialInv'
<1>1. phase = "refund" /\ db' = db
  BY DEF CancelJob, CancelNotFound
<1>2. idx = 1 /\ SlotSerial /\ SlotSerial' /\ db \in Rows
  BY <1>1 DEF SerialInv, SlotSerial, TypeInv, TypeOK
<1>3. CASE CancelJob
  <2>1. phase' = "reschedule" /\ idx' = 1
    BY <1>2, <1>3 DEF CancelJob
  <2>2. Len(work'.queue) \in Nat
    <3>1. work'.queue \in Seq(Job)
      BY CancelType DEF TypeInv, TypeOK, Rows
    <3> QED
      BY <3>1
  <2>3. PassedInOrder'
    BY <2>1, <2>2 DEF PassedInOrder
  <2> QED
    BY <1>2, <2>1, <2>3 DEF SerialInv
<1>4. CASE CancelNotFound
  BY <1>2, <1>4, CloseSerial DEF CancelNotFound, SlotSerial
<1> QED
  BY <1>3, <1>4

(* A boost shifts the rows and debits the account.                         *)
LEMMA BoostSerial ==
    ASSUME TypeInv, SerialInv, ShiftQueue \/ NothingToBoost \/ Debit
    PROVE  SerialInv'
<1>1. phase \in {"shift", "debit"} /\ db' = db
  BY DEF ShiftQueue, NothingToBoost, Debit
<1>2. Serial(work.queue) /\ idx = 1 /\ SlotSerial /\ SlotSerial' /\ db \in Rows
  BY <1>1 DEF SerialInv, SlotSerial, TypeInv, TypeOK
<1>3. CASE ShiftQueue
  <2>1. work'.queue = Shifted(work.queue, BoostSeconds) /\ work.queue \in Seq(Job)
    BY <1>3 DEF ShiftQueue, TypeInv, TypeOK, Rows
  <2>2. BoostSeconds \in Nat
    <3>1. owed' = BoostSeconds /\ owed' \in Nat
      BY <1>3, BoostType DEF ShiftQueue, TypeInv, TypeOK
    <3> QED
      BY <3>1
  <2>3. Serial(work'.queue)
    BY <1>2, <2>1, <2>2, ShiftedSerial
  <2>4. phase' \in {"deliver", "debit"} /\ idx' = idx
    BY <1>3 DEF ShiftQueue
  <2> QED
    BY <1>2, <2>3, <2>4 DEF SerialInv
<1>4. CASE NothingToBoost
  BY <1>2, <1>4, CloseSerial DEF NothingToBoost, SlotSerial
<1>5. CASE Debit
  <2>1. work'.queue = work.queue /\ phase' = "commit"
    BY <1>5 DEF Debit, TypeInv, TypeOK, Rows
  <2> QED
    BY <1>2, <2>1 DEF SerialInv
<1> QED
  BY <1>3, <1>4, <1>5

(* Requests open a transaction on the committed rows or leave the rows.    *)
LEMMA RequestsSerial ==
    ASSUME TypeInv, SerialInv, Requests
    PROVE  SerialInv'
<1>1. ASSUME NEW r, Open(r), db' = db PROVE SerialInv'
  <2>1. phase = "idle" /\ phase' = "finish" /\ work' = work /\ idx' = idx
    BY <1>1 DEF Open
  <2> QED
    BY <1>1, <2>1 DEF SerialInv, SlotSerial
<1>2. ASSUME UNCHANGED <<db, txVars>> PROVE SerialInv'
  BY <1>2 DEF txVars, SerialInv, SlotSerial, PassedInOrder
<1>3. ASSUME NEW r \in EnqueueRequest, AdmitEnqueue(r) PROVE SerialInv'
  BY <1>2, <1>3 DEF AdmitEnqueue
<1>4. ASSUME NEW r \in EnqueueRequest, BeginEnqueue(r) PROVE SerialInv'
  BY <1>1, <1>4 DEF BeginEnqueue
<1>5. ASSUME NEW id \in 1..MaxJobs, BeginCancel(id) PROVE SerialInv'
  BY <1>1, <1>5 DEF BeginCancel
<1>6. CASE BeginFinish
  BY <1>1, <1>6 DEF BeginFinish
<1>7. ASSUME NEW s \in BoostAsks, BeginBoost(s) PROVE SerialInv'
  BY <1>1, <1>7 DEF BeginBoost
<1>8. CASE BeginVacation
  BY <1>1, <1>8 DEF BeginVacation
<1>9. CASE VacationCheck \/ VacationEnable \/ VacationDisable
  BY <1>2, <1>9 DEF VacationCheck, VacationEnable, VacationDisable
<1> QED
  BY <1>3, <1>4, <1>5, <1>6, <1>7, <1>8, <1>9 DEF Requests

(* Without rows nothing is out of order. *)
LEMMA InitSerial == Init => SerialInv
  BY DEF Init, SerialInv, SlotSerial, Serial

(* Every step keeps the rows one behind the other. *)
LEMMA StepSerial == TypeInv /\ SerialInv /\ [Next]_vars => SerialInv'
<1> SUFFICES ASSUME TypeInv, SerialInv, [Next]_vars
             PROVE  SerialInv'
  OBVIOUS
<1>1. CASE Tick
  BY <1>1 DEF Tick, txVars, SerialInv, SlotSerial, PassedInOrder
<1>2. CASE Requests
  BY <1>2, RequestsSerial
<1>3. CASE Commit
  <2>1. Serial(work.queue) /\ db' = work /\ work \in Rows
    BY <1>3 DEF Commit, SerialInv, TypeInv, TypeOK
  <2> QED
    BY <1>3, <2>1, CloseSerial DEF Commit, SlotSerial
<1>4. CASE Abort
  <2>1. SlotSerial /\ db' = db /\ db \in Rows
    BY <1>4 DEF Abort, SerialInv, TypeInv, TypeOK
  <2> QED
    BY <1>4, <2>1, CloseSerial DEF Abort, SlotSerial
<1>5. CASE Transaction
  BY <1>3, <1>5, FinishSerial, RescheduleSerial, PlaceSerial, CancelSerial, BoostSerial
     DEF Transaction
<1>6. CASE UNCHANGED vars
  BY <1>6 DEF vars, SerialInv, SlotSerial, PassedInOrder
<1> QED
  BY <1>1, <1>2, <1>4, <1>5, <1>6 DEF Next

(* The jobs of a planet take turns in its one slot, whatever is enqueued,   *)
(* cancelled, boosted, finished early, failed or rolled back.               *)
THEOREM OneSlot == Spec => []SlotSerial
<1>1. Spec => []TypeInv
  BY InitType, StepType, PTL DEF Spec
<1>2. Spec => []SerialInv
  BY <1>1, InitSerial, StepSerial, PTL DEF Spec
<1>3. SerialInv => SlotSerial
  BY DEF SerialInv
<1> QED
  BY <1>2, <1>3, PTL


-----------------------------------------------------------------------------
(* Counting the rows of one building. *)

Hit(queue, i, b) == IF queue[i].building = b THEN 1 ELSE 0

(* An empty stretch of the queue holds no row.                             *)
LEMMA QueuedNone ==
    ASSUME NEW queue, NEW b
    PROVE  QueuedSame(queue, b, 0) = 0
<1>1. {i \in 1..0 : queue[i].building = b} = {}
  OBVIOUS
<1> QED
  BY <1>1, FS_EmptySet DEF QueuedSame

(* One row more is counted if it is of the building.                       *)
LEMMA QueuedNext ==
    ASSUME NEW queue, NEW b, NEW n \in Nat
    PROVE  QueuedSame(queue, b, n + 1) = QueuedSame(queue, b, n) + Hit(queue, n + 1, b)
<1> DEFINE T(m) == {i \in 1..m : queue[i].building = b}
<1>1. IsFiniteSet(T(n))
  <2>1. IsFiniteSet(1..n) /\ T(n) \subseteq 1..n
    BY FS_Interval
  <2> QED
    BY <2>1, FS_Subset
<1>2. CASE queue[n + 1].building = b
  <2>1. T(n + 1) = T(n) \cup {n + 1} /\ n + 1 \notin T(n)
    BY <1>2
  <2> HIDE DEF T
  <2>2. Cardinality(T(n + 1)) = Cardinality(T(n)) + 1
    BY <1>1, <2>1, FS_AddElement
  <2> QED
    BY <1>2, <2>2 DEF QueuedSame, Hit, T
<1>3. CASE queue[n + 1].building # b
  <2>1. T(n + 1) = T(n)
    BY <1>3
  <2> HIDE DEF T
  <2>2. Cardinality(T(n)) \in Nat
    BY <1>1, FS_CardinalityType
  <2>3. Hit(queue, n + 1, b) = 0
    BY <1>3 DEF Hit
  <2>4. QueuedSame(queue, b, n + 1) = Cardinality(T(n + 1))
        /\ QueuedSame(queue, b, n) = Cardinality(T(n))
    BY DEF QueuedSame, T
  <2> QED
    BY <2>1, <2>2, <2>3, <2>4
<1> QED
  BY <1>2, <1>3

(* A longer stretch holds no fewer.                                        *)
LEMMA QueuedMonotone ==
    ASSUME NEW queue, NEW b, NEW m \in Int, NEW n \in Int, m <= n
    PROVE  QueuedSame(queue, b, m) <= QueuedSame(queue, b, n)
<1> DEFINE T(k) == {i \in 1..k : queue[i].building = b}
<1>1. T(m) \subseteq T(n)
  OBVIOUS
<1>2. IsFiniteSet(T(n))
  <2>1. IsFiniteSet(1..n) /\ T(n) \subseteq 1..n
    BY FS_Interval
  <2> QED
    BY <2>1, FS_Subset
<1>3. QueuedSame(queue, b, m) = Cardinality(T(m)) /\ QueuedSame(queue, b, n) = Cardinality(T(n))
  BY DEF QueuedSame
<1> HIDE DEF T
<1>4. Cardinality(T(m)) <= Cardinality(T(n))
  BY <1>1, <1>2, FS_Subset
<1> QED
  BY <1>3, <1>4

(* Windows and prices do not count, only the buildings of the rows.        *)
LEMMA QueuedAlike ==
    ASSUME NEW queue, NEW other, NEW b, NEW n \in Int,
           \A i \in 1..n : other[i].building = queue[i].building
    PROVE  QueuedSame(other, b, n) = QueuedSame(queue, b, n)
<1>1. {i \in 1..n : other[i].building = b} = {i \in 1..n : queue[i].building = b}
  OBVIOUS
<1> QED
  BY <1>1 DEF QueuedSame

\* The first rows of rest are those of queue without row k.
Without(queue, rest, k, last) ==
    \A i \in 1..last :
        rest[i].building = IF i < k THEN queue[i].building ELSE queue[i + 1].building

(* Without its k-th row the queue holds one row less from there on.        *)
LEMMA QueuedWithout ==
    ASSUME NEW queue, NEW rest, NEW b, NEW k \in Nat \ {0}, NEW last \in Nat,
           Without(queue, rest, k, last), NEW n \in 0..last
    PROVE  QueuedSame(rest, b, n) = IF n < k THEN QueuedSame(queue, b, n)
                                    ELSE QueuedSame(queue, b, n + 1) - Hit(queue, k, b)
<1> DEFINE P(m) == QueuedSame(rest, b, m) =
                       IF m < k THEN QueuedSame(queue, b, m)
                       ELSE QueuedSame(queue, b, m + 1) - Hit(queue, k, b)
           S == {m \in Nat : m <= last => P(m)}
<1>1. 0 \in S
  BY QueuedNone
<1>2. ASSUME NEW m \in Nat, m \in S PROVE m + 1 \in S
  <2> SUFFICES ASSUME m + 1 <= last PROVE P(m + 1)
    OBVIOUS
  <2>1. P(m)
    BY <1>2
  <2>2. QueuedSame(rest, b, m + 1) = QueuedSame(rest, b, m) + Hit(rest, m + 1, b)
    BY QueuedNext
  <2>3. QueuedSame(queue, b, m + 1) = QueuedSame(queue, b, m) + Hit(queue, m + 1, b)
    BY QueuedNext
  <2>4. QueuedSame(queue, b, m + 1 + 1)
          = QueuedSame(queue, b, m + 1) + Hit(queue, m + 1 + 1, b)
    BY QueuedNext
  <2>5. Hit(rest, m + 1, b)
          = IF m + 1 < k THEN Hit(queue, m + 1, b) ELSE Hit(queue, m + 1 + 1, b)
    BY DEF Hit, Without
  <2>6. /\ QueuedSame(queue, b, m) \in Nat /\ QueuedSame(queue, b, m + 1) \in Nat
        /\ QueuedSame(queue, b, m + 1 + 1) \in Nat /\ QueuedSame(rest, b, m) \in Nat
    BY QueuedSameType
  <2>7. \A i : Hit(queue, i, b) \in Nat
    BY DEF Hit
  <2>8. CASE m + 1 < k
    BY <2>1, <2>2, <2>3, <2>5, <2>8
  <2>9. CASE m + 1 = k
    BY <2>1, <2>2, <2>3, <2>4, <2>5, <2>6, <2>7, <2>9
  <2>10. CASE m + 1 > k
    BY <2>1, <2>2, <2>4, <2>5, <2>6, <2>7, <2>10
  <2> QED
    BY <2>8, <2>9, <2>10
<1>3. Nat \subseteq S
  <2> HIDE DEF S
  <2> QED
    BY <1>1, <1>2, Induct
<1> QED
  BY <1>3

-----------------------------------------------------------------------------
(* What a transaction does to its rows, from r to s. *)

\* Row k leaves the queue and its order is closed.
Loses(r, s, k) ==
    /\ k \in 1..Len(r.queue)
    /\ Len(s.queue) = Len(r.queue) - 1
    /\ \A i \in 1..(Len(r.queue) - 1) :
         s.queue[i] = IF i < k THEN r.queue[i] ELSE r.queue[i + 1]
    /\ Len(s.orders) = Len(r.orders)
    /\ \A n \in 1..Len(r.orders) : n # r.queue[k].id => s.orders[n] = r.orders[n]
    /\ r.queue[k].id \in 1..Len(r.orders) => s.orders[r.queue[k].id].state # "open"

Granted(r, s) ==
    LET b == r.queue[1].building IN
    s.level = [r.level EXCEPT ![b] = r.level[b] + 1]

\* A row is added for a new order.
Gains(r, s, job, order) ==
    /\ s.queue = Append(r.queue, job)
    /\ s.orders = Append(r.orders, order)
    /\ s.level = r.level

\* Rows keep their order, price and building; windows may move.
Retimes(r, s) ==
    /\ Len(s.queue) = Len(r.queue)
    /\ \A i \in 1..Len(r.queue) : /\ s.queue[i].id = r.queue[i].id
                                  /\ s.queue[i].building = r.queue[i].building
                                  /\ s.queue[i].cost = r.queue[i].cost
    /\ s.orders = r.orders
    /\ s.level = r.level

-----------------------------------------------------------------------------
(* The books and the caps. *)

BooksKept(rows) ==
    /\ \A i \in 1..Len(rows.queue) :
         /\ rows.queue[i].id \in 1..Len(rows.orders)
         /\ rows.orders[rows.queue[i].id].state = "open"
         /\ rows.queue[i].building = rows.orders[rows.queue[i].id].building
         /\ rows.queue[i].cost = rows.orders[rows.queue[i].id].paid
    /\ \A i, j \in 1..Len(rows.queue) : i < j => rows.queue[i].id < rows.queue[j].id
    /\ \A n \in 1..Len(rows.orders) :
         rows.orders[n].state = "open" => \E i \in 1..Len(rows.queue) : rows.queue[i].id = n

Ordered(rows, b) == rows.level[b] + QueuedSame(rows.queue, b, Len(rows.queue))

CapsKept(rows) ==
    /\ Len(rows.queue) <= QueueLimit
    /\ \A b \in Buildings : Ordered(rows, b) <= MaxLevel[b]

(* The lengths, ids and levels of typed rows.                              *)
LEMMA RowFacts ==
    ASSUME NEW r \in Rows
    PROVE  /\ Len(r.queue) \in Nat /\ Len(r.orders) \in Nat
           /\ r.queue \in Seq(Job) /\ r.orders \in Seq(Order)
           /\ \A i \in 1..Len(r.queue) : r.queue[i] \in Job
           /\ \A n \in 1..Len(r.orders) : r.orders[n] \in Order
           /\ \A b \in Buildings : r.level[b] \in Nat
           /\ r.level \in [Buildings -> Nat] /\ r.metal \in Nat /\ r.tk \in Nat
<1>1. /\ r.queue \in Seq(Job) /\ r.orders \in Seq(Order)
      /\ r.level \in [Buildings -> Nat] /\ r.metal \in Nat /\ r.tk \in Nat
  BY DEF Rows
<1> QED
  BY <1>1

(* The books stay right when a row leaves the queue and its order closes.  *)
LEMMA LosesBooks ==
    ASSUME NEW r \in Rows, NEW s \in Rows, NEW k, Loses(r, s, k), BooksKept(r)
    PROVE  BooksKept(s)
<1> DEFINE q == r.queue
           n == Len(r.queue)
           m == Len(r.orders)
<1>1. n \in Nat /\ m \in Nat /\ k \in 1..n
  BY RowFacts DEF Loses
<1>2. \A i \in 1..n : q[i].id \in Nat
  BY RowFacts DEF Job
<1>3. \A i \in 1..n : i # k => q[i].id # q[k].id
  BY <1>1, <1>2 DEF BooksKept
<1>4. ASSUME NEW i \in 1..(n - 1)
      PROVE  /\ s.queue[i].id \in 1..m
             /\ s.orders[s.queue[i].id].state = "open"
             /\ s.queue[i].building = s.orders[s.queue[i].id].building
             /\ s.queue[i].cost = s.orders[s.queue[i].id].paid
  <2>1. PICK j \in 1..n : j # k /\ s.queue[i] = q[j]
    BY SMTT(20), <1>1 DEF Loses
  <2>2. q[j].id \in 1..m /\ s.orders[q[j].id] = r.orders[q[j].id]
    BY <1>3, <2>1 DEF BooksKept, Loses
  <2> QED
    BY <2>1, <2>2 DEF BooksKept
<1>5. ASSUME NEW i \in 1..(n - 1), NEW j \in 1..(n - 1), i < j
      PROVE  s.queue[i].id < s.queue[j].id
  <2>1. PICK x \in 1..n, y \in 1..n : x < y /\ s.queue[i] = q[x] /\ s.queue[j] = q[y]
    <3> DEFINE x == IF i < k THEN i ELSE i + 1
               y == IF j < k THEN j ELSE j + 1
    <3>1. s.queue[i] = q[x] /\ s.queue[j] = q[y]
      BY <1>5 DEF Loses
    <3>2. x \in 1..n /\ y \in 1..n /\ x < y
      BY <1>1, <1>5
    <3> HIDE DEF x, y
    <3> QED
      BY <3>1, <3>2
  <2> QED
    BY <2>1 DEF BooksKept
<1>6. ASSUME NEW o \in 1..m, s.orders[o].state = "open"
      PROVE  \E i \in 1..(n - 1) : s.queue[i].id = o
  <2>1. o # q[k].id /\ s.orders[o] = r.orders[o]
    BY <1>6 DEF Loses, BooksKept
  <2>2. PICK x \in 1..n : q[x].id = o
    BY <1>6, <2>1 DEF BooksKept
  <2>3. x # k
    BY <2>1, <2>2
  <2>4. CASE x < k
    <3>1. x \in 1..(n - 1)
      BY <1>1, <2>4
    <3>2. s.queue[x] = q[x]
      BY <2>4, <3>1 DEF Loses
    <3> QED
      BY <2>2, <3>1, <3>2
  <2>5. CASE ~(x < k)
    <3>1. PICK i \in 1..(n - 1) : x = i + 1 /\ ~(i < k)
      <4>1. x - 1 \in 1..(n - 1) /\ x = (x - 1) + 1 /\ ~(x - 1 < k)
        BY <1>1, <2>3, <2>5
      <4> QED
        BY <4>1
    <3>2. s.queue[i] = q[i + 1]
      BY <3>1 DEF Loses
    <3> QED
      BY <2>2, <3>1, <3>2
  <2> QED
    BY <2>4, <2>5
<1>7. Len(s.queue) = n - 1 /\ Len(s.orders) = m
  BY DEF Loses
<1> QED
  BY <1>4, <1>5, <1>6, <1>7 DEF BooksKept

(* A row that leaves frees one place of its building.                      *)
LEMMA LosesQueued ==
    ASSUME NEW r \in Rows, NEW s \in Rows, NEW k \in Nat \ {0}, Loses(r, s, k), NEW b
    PROVE  QueuedSame(s.queue, b, Len(s.queue))
             = QueuedSame(r.queue, b, Len(r.queue)) - Hit(r.queue, k, b)
<1>1. PICK m \in Nat : Len(r.queue) = m + 1
  <2>1. Len(r.queue) \in Nat /\ k \in 1..Len(r.queue)
    BY RowFacts DEF Loses
  <2>2. Len(r.queue) - 1 \in Nat /\ Len(r.queue) = (Len(r.queue) - 1) + 1
    BY <2>1
  <2> QED
    BY <2>2
<1>2. Without(r.queue, s.queue, k, m)
  <2>1. ASSUME NEW i \in 1..m
        PROVE  s.queue[i].building =
                 IF i < k THEN r.queue[i].building ELSE r.queue[i + 1].building
    <3>1. i \in 1..(Len(r.queue) - 1)
      BY <1>1
    <3>2. s.queue[i] = IF i < k THEN r.queue[i] ELSE r.queue[i + 1]
      BY <3>1 DEF Loses
    <3> QED
      BY <3>2
  <2> QED
    BY <2>1 DEF Without
<1>9. k <= m + 1 /\ Len(s.queue) = m
  BY <1>1 DEF Loses
<1>4. QueuedSame(r.queue, b, m + 1) = QueuedSame(r.queue, b, m) + Hit(r.queue, m + 1, b)
  BY <1>9, QueuedNext
<1>5. QueuedSame(s.queue, b, m) = IF m < k THEN QueuedSame(r.queue, b, m)
                                  ELSE QueuedSame(r.queue, b, m + 1) - Hit(r.queue, k, b)
  BY <1>2, QueuedWithout
<1>6. QueuedSame(r.queue, b, m + 1) \in Nat
      /\ QueuedSame(r.queue, b, m) \in Nat /\ Hit(r.queue, k, b) \in Nat
  BY <1>9, QueuedSameType DEF Hit
<1>7. CASE m < k
  <2>1. k = m + 1
    BY <1>7, <1>9
  <2> QED
    BY <1>1, <1>4, <1>5, <1>6, <1>7, <1>9, <2>1
<1>8. CASE ~(m < k)
  BY <1>1, <1>5, <1>6, <1>8, <1>9
<1> QED
  BY <1>7, <1>8

(* A delivered row becomes a level of its building.                        *)
LEMMA DeliversCaps ==
    ASSUME NEW r \in Rows, NEW s \in Rows, Loses(r, s, 1), Granted(r, s), CapsKept(r)
    PROVE  CapsKept(s)
<1>1. r.queue[1] \in Job /\ Len(r.queue) \in Nat /\ Len(s.queue) = Len(r.queue) - 1
  BY RowFacts DEF Loses
<1>2. r.queue[1].building \in Buildings
  BY <1>1 DEF Job
<1>3. ASSUME NEW b \in Buildings PROVE Ordered(s, b) = Ordered(r, b)
  <2>1. s.level[b] = r.level[b] + Hit(r.queue, 1, b)
    BY <1>2, RowFacts DEF Granted, Hit
  <2>2. QueuedSame(s.queue, b, Len(s.queue))
          = QueuedSame(r.queue, b, Len(r.queue)) - Hit(r.queue, 1, b)
    BY LosesQueued
  <2>3. r.level[b] \in Nat /\ Hit(r.queue, 1, b) \in Nat
        /\ QueuedSame(r.queue, b, Len(r.queue)) \in Nat
    BY <1>1, RowFacts, QueuedSameType DEF Hit
  <2> QED
    BY <2>1, <2>2, <2>3 DEF Ordered
<1> QED
  BY <1>1, <1>3, LimitsAssumption DEF CapsKept

(* A cancelled row frees a place.                                          *)
LEMMA CancelCaps ==
    ASSUME NEW r \in Rows, NEW s \in Rows, NEW k \in Nat \ {0}, Loses(r, s, k), s.level = r.level,
           CapsKept(r)
    PROVE  CapsKept(s)
<1>1. Len(r.queue) \in Nat /\ Len(s.queue) = Len(r.queue) - 1
  BY RowFacts DEF Loses
<1>2. ASSUME NEW b \in Buildings PROVE Ordered(s, b) <= MaxLevel[b]
  <2>1. QueuedSame(s.queue, b, Len(s.queue))
          = QueuedSame(r.queue, b, Len(r.queue)) - Hit(r.queue, k, b)
    BY LosesQueued
  <2>2. r.level[b] \in Nat /\ Hit(r.queue, k, b) \in Nat /\ MaxLevel[b] \in Nat
        /\ QueuedSame(r.queue, b, Len(r.queue)) \in Nat
    BY SMTT(20), <1>1, RowFacts, QueuedSameType, BuildingsAssumption DEF Hit
  <2>3. r.level[b] + QueuedSame(r.queue, b, Len(r.queue)) <= MaxLevel[b]
    BY DEF CapsKept, Ordered
  <2>4. Ordered(s, b) = r.level[b] + (QueuedSame(r.queue, b, Len(r.queue)) - Hit(r.queue, k, b))
    BY <2>1 DEF Ordered
  <2> QED
    BY <2>2, <2>3, <2>4
<1> QED
  BY <1>1, <1>2, LimitsAssumption DEF CapsKept

(* An order enters the books with its row.                                 *)
LEMMA GainsBooks ==
    ASSUME NEW r \in Rows, NEW s \in Rows, NEW job \in Job, NEW order \in Order,
           Gains(r, s, job, order), job.id = Len(r.orders) + 1, job.cost = order.paid,
           job.building = order.building, order.state = "open", BooksKept(r)
    PROVE  BooksKept(s)
<1>1. r.queue \in Seq(Job) /\ r.orders \in Seq(Order)
  BY RowFacts
<1>7. PICK n \in Nat, m \in Nat : n = Len(r.queue) /\ m = Len(r.orders)
  BY RowFacts
<1>2. /\ Len(s.queue) = n + 1 /\ Len(s.orders) = m + 1
      /\ \A i \in 1..n : s.queue[i] = r.queue[i]
      /\ s.queue[n + 1] = job
      /\ \A i \in 1..m : s.orders[i] = r.orders[i]
      /\ s.orders[m + 1] = order
  BY <1>1, <1>7 DEF Gains
<1>6. /\ job.id = m + 1
      /\ \A i \in 1..n : /\ r.queue[i].id \in 1..m
                         /\ r.orders[r.queue[i].id].state = "open"
                         /\ r.queue[i].building = r.orders[r.queue[i].id].building
                         /\ r.queue[i].cost = r.orders[r.queue[i].id].paid
      /\ \A i, j \in 1..n : i < j => r.queue[i].id < r.queue[j].id
      /\ \A o \in 1..m : r.orders[o].state = "open" => \E i \in 1..n : r.queue[i].id = o
  BY <1>7 DEF BooksKept
<1>3. ASSUME NEW i \in 1..(n + 1)
      PROVE  /\ s.queue[i].id \in 1..(m + 1)
             /\ s.orders[s.queue[i].id].state = "open"
             /\ s.queue[i].building = s.orders[s.queue[i].id].building
             /\ s.queue[i].cost = s.orders[s.queue[i].id].paid
             /\ i <= n => s.queue[i].id <= m
  <2>1. CASE i \in 1..n
    <3>1. r.queue[i].id \in 1..m
      BY <1>6, <2>1
    <3>2. s.orders[r.queue[i].id] = r.orders[r.queue[i].id] /\ r.queue[i].id \in 1..(m + 1)
          /\ r.queue[i].id <= m
      BY SMTT(20), <1>7, <1>2, <3>1
    <3>3. /\ s.orders[r.queue[i].id].state = "open"
          /\ r.queue[i].building = s.orders[r.queue[i].id].building
          /\ r.queue[i].cost = s.orders[r.queue[i].id].paid
      BY <1>6, <2>1, <3>2
    <3>4. s.queue[i] = r.queue[i]
      BY <1>2, <2>1
    <3> QED
      BY <3>2, <3>3, <3>4
  <2>2. CASE i = n + 1
    <3>1. s.queue[i] = job /\ job.id = m + 1 /\ s.orders[job.id] = order
      BY <1>2, <1>6, <2>2
    <3>2. m + 1 \in 1..(m + 1) /\ ~(i <= n)
      BY <2>2
    <3> QED
      BY <3>1, <3>2
  <2> QED
    BY <1>7, <2>1, <2>2
<1>4. ASSUME NEW i \in 1..(n + 1), NEW j \in 1..(n + 1), i < j
      PROVE  s.queue[i].id < s.queue[j].id
  <2>1. i \in 1..n
    BY <1>7, <1>4
  <2>2. CASE j \in 1..n
    BY <1>2, <1>4, <1>6, <2>1, <2>2
  <2>3. CASE j = n + 1
    <3>1. s.queue[j].id = m + 1
      BY <1>2, <1>6, <2>3
    <3>2. s.queue[i].id \in 1..(m + 1) /\ s.queue[i].id <= m
      <4>1. i <= n
        BY <1>7, <2>1
      <4> QED
        BY <1>3, <4>1
    <3> QED
      BY <1>7, <3>1, <3>2
  <2> QED
    BY <1>7, <2>2, <2>3
<1>5. ASSUME NEW o \in 1..(m + 1), s.orders[o].state = "open"
      PROVE  \E i \in 1..(n + 1) : s.queue[i].id = o
  <2>1. CASE o \in 1..m
    <3>1. PICK i \in 1..n : r.queue[i].id = o
      BY <1>2, <1>5, <1>6, <2>1
    <3>2. i \in 1..(n + 1)
      BY <1>7
    <3>3. s.queue[i].id = o
      BY <1>2, <3>1
    <3> QED
      BY <3>2, <3>3
  <2>2. CASE o = m + 1
    <3>1. n + 1 \in 1..(n + 1) /\ s.queue[n + 1].id = o
      BY <1>2, <1>6, <1>7, <2>2
    <3> QED
      BY <3>1
  <2> QED
    BY <1>7, <2>1, <2>2
<1> QED
  BY <1>2, <1>3, <1>4, <1>5 DEF BooksKept

(* An order below the limit and the cap of its building fits.              *)
LEMMA GainsCaps ==
    ASSUME NEW r \in Rows, NEW s \in Rows, NEW job \in Job, NEW order,
           Gains(r, s, job, order), CapsKept(r), Len(r.queue) < QueueLimit,
           Ordered(r, job.building) + 1 <= MaxLevel[job.building]
    PROVE  CapsKept(s)
<1> DEFINE n == Len(r.queue)
<1>1. n \in Nat /\ r.queue \in Seq(Job)
  BY RowFacts
<1>2. /\ Len(s.queue) = n + 1
      /\ \A i \in 1..n : s.queue[i] = r.queue[i]
      /\ s.queue[n + 1] = job
  BY <1>1 DEF Gains
<1>3. ASSUME NEW b \in Buildings PROVE Ordered(s, b) <= MaxLevel[b]
  <2>1. QueuedSame(s.queue, b, n) = QueuedSame(r.queue, b, n)
    <3>1. PICK m \in Int : m = n
      BY <1>1
    <3>2. \A i \in 1..m : s.queue[i].building = r.queue[i].building
      BY <1>2, <3>1
    <3>3. QueuedSame(s.queue, b, m) = QueuedSame(r.queue, b, m)
      BY <3>2, QueuedAlike
    <3> QED
      BY <3>1, <3>3
  <2>2. QueuedSame(s.queue, b, n + 1) = QueuedSame(s.queue, b, n) + Hit(s.queue, n + 1, b)
    BY <1>1, QueuedNext
  <2>3. r.level[b] \in Nat /\ MaxLevel[b] \in Nat /\ QueuedSame(r.queue, b, n) \in Nat
    <3>1. MaxLevel[b] \in Nat
      BY BuildingsAssumption
    <3>2. QueuedSame(r.queue, b, n) \in Nat
      BY <1>1, QueuedSameType
    <3> QED
      BY <3>1, <3>2, RowFacts
  <2>4. Ordered(s, b) = r.level[b] + (QueuedSame(r.queue, b, n) + Hit(s.queue, n + 1, b))
    BY <1>2, <2>1, <2>2 DEF Ordered, Gains
  <2>5. Ordered(r, b) = r.level[b] + QueuedSame(r.queue, b, n) /\ Ordered(r, b) <= MaxLevel[b]
    BY DEF Ordered, CapsKept
  <2> HIDE DEF n
  <2>6. CASE b = job.building
    <3>1. Hit(s.queue, n + 1, b) = 1 /\ Ordered(r, b) + 1 <= MaxLevel[b]
      BY <1>2, <2>6 DEF Hit
    <3> QED
      BY <2>3, <2>4, <2>5, <3>1
  <2>7. CASE b # job.building
    <3>1. Hit(s.queue, n + 1, b) = 0
      BY <1>2, <2>7 DEF Hit
    <3> QED
      BY <2>3, <2>4, <2>5, <3>1
  <2> QED
    BY <2>6, <2>7
<1> QED
  BY <1>1, <1>2, <1>3, LimitsAssumption DEF CapsKept

(* Windows that move touch neither the books nor the caps.                 *)
LEMMA RetimesKeeps ==
    ASSUME NEW r \in Rows, NEW s \in Rows, Retimes(r, s), BooksKept(r), CapsKept(r)
    PROVE  BooksKept(s) /\ CapsKept(s)
<1>1. Len(r.queue) \in Nat
  BY RowFacts
<1>2. BooksKept(s)
  <2>1. PICK n \in Nat : n = Len(r.queue)
    BY <1>1
  <2>2. /\ Len(s.queue) = n /\ s.orders = r.orders
        /\ \A i \in 1..n : /\ s.queue[i].id = r.queue[i].id
                           /\ s.queue[i].building = r.queue[i].building
                           /\ s.queue[i].cost = r.queue[i].cost
    BY <2>1 DEF Retimes
  <2>3. /\ \A i \in 1..n : /\ r.queue[i].id \in 1..Len(r.orders)
                          /\ r.orders[r.queue[i].id].state = "open"
                          /\ r.queue[i].building = r.orders[r.queue[i].id].building
                          /\ r.queue[i].cost = r.orders[r.queue[i].id].paid
        /\ \A i, j \in 1..n : i < j => r.queue[i].id < r.queue[j].id
        /\ \A m \in 1..Len(r.orders) :
             r.orders[m].state = "open" => \E i \in 1..n : r.queue[i].id = m
    BY <2>1 DEF BooksKept
  <2>4. \A i \in 1..n : /\ s.queue[i].id \in 1..Len(s.orders)
                        /\ s.orders[s.queue[i].id].state = "open"
                        /\ s.queue[i].building = s.orders[s.queue[i].id].building
                        /\ s.queue[i].cost = s.orders[s.queue[i].id].paid
    <3> SUFFICES ASSUME NEW i \in 1..n
                 PROVE  /\ s.queue[i].id \in 1..Len(s.orders)
                        /\ s.orders[s.queue[i].id].state = "open"
                        /\ s.queue[i].building = s.orders[s.queue[i].id].building
                        /\ s.queue[i].cost = s.orders[s.queue[i].id].paid
      OBVIOUS
    <3>1. /\ s.queue[i].id = r.queue[i].id
          /\ s.queue[i].building = r.queue[i].building
          /\ s.queue[i].cost = r.queue[i].cost
      BY <2>2
    <3>2. /\ r.queue[i].id \in 1..Len(r.orders)
          /\ r.orders[r.queue[i].id].state = "open"
          /\ r.queue[i].building = r.orders[r.queue[i].id].building
          /\ r.queue[i].cost = r.orders[r.queue[i].id].paid
      BY <2>3
    <3> QED
      BY <2>2, <3>1, <3>2, Zenon
  <2>5. \A i, j \in 1..n : i < j => s.queue[i].id < s.queue[j].id
    BY <2>2, <2>3
  <2>6. ASSUME NEW m \in 1..Len(s.orders), s.orders[m].state = "open"
        PROVE  \E i \in 1..n : s.queue[i].id = m
    <3>1. PICK i \in 1..n : r.queue[i].id = m
      BY <2>2, <2>3, <2>6
    <3>2. s.queue[i].id = m
      BY <2>2, <3>1
    <3> QED
      BY <3>2
  <2> QED
    BY <2>2, <2>4, <2>5, <2>6 DEF BooksKept
<1>3. \A b \in Buildings : Ordered(s, b) = Ordered(r, b)
  <2>1. \A b : QueuedSame(s.queue, b, Len(r.queue)) = QueuedSame(r.queue, b, Len(r.queue))
    BY <1>1, QueuedAlike DEF Retimes
  <2> QED
    BY <2>1 DEF Ordered, Retimes
<1> QED
  BY <1>2, <1>3 DEF CapsKept, Retimes

-----------------------------------------------------------------------------
(* What the actions do to the rows of their transaction. *)

(* A finished head leaves the queue, its level is granted, and its order    *)
(* remembers how long the slot was held.                                    *)
LEMMA FinishHeadRows ==
    ASSUME TypeInv, FinishHead
    PROVE  /\ Loses(work, work', 1) /\ Granted(work, work')
           /\ work'.orders = [work.orders EXCEPT ![work.queue[1].id] =
                [work.orders[work.queue[1].id] EXCEPT
                   !.state = "delivered",
                   !.took = work.queue[1].finish - work.queue[1].start]]
           /\ work'.tk = work.tk /\ work'.metal = work.metal
<1>1. work \in Rows /\ work.queue # << >>
  BY DEF FinishHead, HeadIsDue, TypeInv, TypeOK
<1> DEFINE job == work.queue[1]
           order == [work.orders[job.id] EXCEPT !.state = "delivered",
                                                !.took = job.finish - job.start]
<1>2. /\ work'.queue = Tail(work.queue)
      /\ work'.level = [work.level EXCEPT ![job.building] = work.level[job.building] + 1]
      /\ work'.orders = [work.orders EXCEPT ![job.id] = order]
      /\ work'.tk = work.tk /\ work'.metal = work.metal
  BY <1>1 DEF FinishHead, Rows
<1>3. order.state = "delivered"
      \/ job.id \notin 1..Len(work.orders)
  <2>1. ASSUME job.id \in 1..Len(work.orders) PROVE order.state = "delivered"
    <3>1. work.orders[job.id] \in Order
      BY <1>1, <2>1, RowFacts
    <3> QED
      BY <3>1 DEF Order
  <2> QED
    BY <2>1
<1>4. Loses(work, work', 1)
  <2>1. work.queue \in Seq(Job) /\ work.orders \in Seq(Order)
    BY <1>1, RowFacts
  <2>2. 1 \in 1..Len(work.queue)
    BY <1>1, <2>1
  <2>3. Len(work'.queue) = Len(work.queue) - 1
    BY <1>1, <1>2, <2>1
  <2>4. \A i \in 1..(Len(work.queue) - 1) :
          work'.queue[i] = IF i < 1 THEN work.queue[i] ELSE work.queue[i + 1]
    BY <1>1, <1>2, <2>1
  <2> HIDE DEF order
  <2>5. Len(work'.orders) = Len(work.orders)
    BY <1>2, <2>1
  <2>6. \A n \in 1..Len(work.orders) : n # job.id => work'.orders[n] = work.orders[n]
    BY <1>2, <2>1
  <2>7. job.id \in 1..Len(work.orders) => work'.orders[job.id].state # "open"
    BY <1>2, <1>3, <2>1
  <2> QED
    BY <2>2, <2>3, <2>4, <2>5, <2>6, <2>7 DEF Loses
<1> QED
  BY <1>2, <1>4 DEF Granted

(* A lost head leaves the queue, and nothing is granted.                   *)
LEMMA LosesHeadRows ==
    ASSUME TypeInv, FinishLosesHead
    PROVE  /\ Loses(work, work', 1) /\ work'.level = work.level
           /\ work'.orders = [work.orders EXCEPT ![work.queue[1].id] =
                [work.orders[work.queue[1].id] EXCEPT !.state = "lost"]]
           /\ work'.tk = work.tk /\ work'.metal = work.metal
<1> DEFINE id == work.queue[1].id
           order == [work.orders[id] EXCEPT !.state = "lost"]
<1>1. work \in Rows /\ work.queue # << >>
  BY DEF FinishLosesHead, HeadIsDue, TypeInv, TypeOK
<1>2. /\ work'.queue = Tail(work.queue) /\ work'.level = work.level
      /\ work'.orders = [work.orders EXCEPT ![id] = order]
      /\ work'.tk = work.tk /\ work'.metal = work.metal
  BY <1>1 DEF FinishLosesHead, Rows
<1>3. work.queue \in Seq(Job) /\ work.orders \in Seq(Order)
  BY <1>1, RowFacts
<1>4. ASSUME id \in 1..Len(work.orders) PROVE order.state = "lost"
  <2>1. work.orders[id] \in Order
    BY <1>1, <1>4, RowFacts
  <2> QED
    BY <2>1 DEF Order
<1>5. Loses(work, work', 1)
  <2>1. 1 \in 1..Len(work.queue) /\ Len(work'.queue) = Len(work.queue) - 1
    BY <1>1, <1>2, <1>3
  <2>2. \A i \in 1..(Len(work.queue) - 1) :
          work'.queue[i] = IF i < 1 THEN work.queue[i] ELSE work.queue[i + 1]
    BY <1>1, <1>2, <1>3
  <2> HIDE DEF order
  <2>3. /\ Len(work'.orders) = Len(work.orders)
        /\ \A n \in 1..Len(work.orders) : n # id => work'.orders[n] = work.orders[n]
        /\ id \in 1..Len(work.orders) => work'.orders[id].state # "open"
    BY <1>2, <1>3, <1>4
  <2> QED
    BY <2>1, <2>2, <2>3 DEF Loses
<1> QED
  BY <1>2, <1>5

(* A cancelled job leaves the queue.                                       *)
LEMMA CancelRows ==
    ASSUME TypeInv, CancelJob
    PROVE  \E k \in 1..Len(work.queue) :
             /\ work.queue[k].id = req.job
             /\ Loses(work, work', k)
             /\ work'.orders = [work.orders EXCEPT ![req.job] =
                  [work.orders[req.job] EXCEPT !.back = Refund(work.queue[k], now),
                                               !.state = "cancelled"]]
             /\ work'.queue = Drop(work.queue, k)
             /\ work'.metal = work.metal + Refund(work.queue[k], now)
             /\ work'.level = work.level /\ work'.tk = work.tk
<1>1. PICK k \in PositionOf(work.queue, req.job) :
        work' = [work EXCEPT
                   !.metal = @ + Refund(work.queue[k], now),
                   !.queue = Drop(@, k),
                   !.orders[req.job] = [@ EXCEPT !.back = Refund(work.queue[k], now),
                                                 !.state = "cancelled"]]
  BY DEF CancelJob
<1>2. work \in Rows /\ k \in 1..Len(work.queue) /\ work.queue[k].id = req.job
  BY DEF PositionOf, TypeInv, TypeOK
<1> DEFINE back == Refund(work.queue[k], now)
           order == [work.orders[req.job] EXCEPT !.back = back, !.state = "cancelled"]
<1>3. /\ work'.queue = Drop(work.queue, k)
      /\ work'.orders = [work.orders EXCEPT ![req.job] = order]
      /\ work'.metal = work.metal + back
      /\ work'.level = work.level /\ work'.tk = work.tk
  BY <1>1, <1>2 DEF Rows
<1>4. order.state = "cancelled" \/ req.job \notin 1..Len(work.orders)
  <2>1. ASSUME req.job \in 1..Len(work.orders) PROVE order.state = "cancelled"
    <3>1. work.orders[req.job] \in Order
      BY <1>2, <2>1, RowFacts
    <3> HIDE DEF back
    <3> QED
      BY <3>1 DEF Order
  <2> QED
    BY <2>1
<1>5. Loses(work, work', k)
  <2>1. work.queue \in Seq(Job) /\ work.orders \in Seq(Order)
    BY <1>2, RowFacts
  <2>2. /\ Len(work'.queue) = Len(work.queue) - 1
        /\ \A i \in 1..(Len(work.queue) - 1) :
             work'.queue[i] = IF i < k THEN work.queue[i] ELSE work.queue[i + 1]
    BY SMTT(20), <1>2, <1>3, <2>1, DropType
  <2> HIDE DEF order
  <2>3. Len(work'.orders) = Len(work.orders)
    BY <1>3, <2>1
  <2>4. \A n \in 1..Len(work.orders) : n # req.job => work'.orders[n] = work.orders[n]
    BY <1>3, <2>1
  <2>5. req.job \in 1..Len(work.orders) => work'.orders[req.job].state # "open"
    BY <1>3, <1>4, <2>1
  <2> QED
    BY <1>2, <2>2, <2>3, <2>4, <2>5 DEF Loses
<1> QED
  BY <1>2, <1>3, <1>5

(* The reschedule loop gives one row a new window.                         *)
LEMMA RescheduleRowRows ==
    ASSUME TypeInv, RescheduleRow
    PROVE  LET job == work.queue[idx]
               length == Duration(job.building, TargetAt(work.queue, work.level, idx),
                                  work.level[Nanofactory])
           IN  /\ Retimes(work, work') /\ work'.tk = work.tk /\ work'.metal = work.metal
               /\ idx \in 1..Len(work.queue)
               /\ length \in Nat /\ length >= Floor
               /\ work'.queue[idx].start = at /\ work'.queue[idx].finish = at + length
               /\ \A i \in 1..Len(work.queue) : i # idx => work'.queue[i] = work.queue[i]
<1> DEFINE job == work.queue[idx]
           length == Duration(job.building, TargetAt(work.queue, work.level, idx),
                              work.level[Nanofactory])
           end == at + length
           row == [job EXCEPT !.start = at, !.finish = end]
<1>1. work \in Rows /\ idx \in Nat \ {0} /\ at \in Int
  BY DEF TypeInv, TypeOK
<1>2. idx \in 1..Len(work.queue) /\ work.queue \in Seq(Job) /\ job \in Job
  BY <1>1, RowFacts DEF RescheduleRow
<1>3. /\ work'.queue = [work.queue EXCEPT ![idx] = row]
      /\ work'.orders = work.orders /\ work'.level = work.level
      /\ work'.tk = work.tk /\ work'.metal = work.metal
  BY <1>1, <1>2 DEF RescheduleRow, Rows
<1>4. length \in Nat /\ length >= Floor
  <2>1. job.building \in Buildings /\ work.level[job.building] \in Nat
    BY <1>1, <1>2, JobFields, RowFacts
  <2>2. QueuedSame(work.queue, job.building, idx - 1) \in Nat
    BY <1>1, QueuedSameType
  <2>3. TargetAt(work.queue, work.level, idx) \in Int
    BY <2>1, <2>2 DEF TargetAt
  <2>4. work.level[Nanofactory] \in Nat
    BY <1>1, RowFacts, BuildingsAssumption
  <2> QED
    BY <2>1, <2>3, <2>4, DurationType
<1>5. /\ row.start = at /\ row.finish = end /\ row.id = job.id
      /\ row.building = job.building /\ row.cost = job.cost
  <2>1. end \in Int
    BY <1>1, <1>4
  <2> HIDE DEF job, end
  <2> QED
    BY <1>1, <1>2, <2>1 DEF Job
<1> HIDE DEF row
<1>6. /\ Len(work'.queue) = Len(work.queue) /\ work'.queue[idx] = row
      /\ \A i \in 1..Len(work.queue) : i # idx => work'.queue[i] = work.queue[i]
  BY <1>2, <1>3
<1>7. Retimes(work, work')
  BY <1>3, <1>5, <1>6 DEF Retimes
<1> QED
  BY <1>2, <1>3, <1>4, <1>5, <1>6, <1>7

(* A boost retimes all rows.                                               *)
LEMMA ShiftRows ==
    ASSUME TypeInv, ShiftQueue
    PROVE  /\ Retimes(work, work') /\ work'.tk = work.tk /\ work'.metal = work.metal
           /\ owed' \in Nat
           /\ \A i \in 1..Len(work.queue) :
                /\ work'.queue[i].start = work.queue[i].start - owed'
                /\ work'.queue[i].finish = work.queue[i].finish - owed'
<1>1. work \in Rows /\ work.queue \in Seq(Job)
  BY RowFacts DEF TypeInv, TypeOK
<1>2. BoostSeconds \in Nat /\ owed' = BoostSeconds
  <2>1. owed' = BoostSeconds /\ owed' \in Nat
    BY BoostType DEF ShiftQueue, TypeInv, TypeOK
  <2> QED
    BY <2>1
<1>3. /\ work'.queue = Shifted(work.queue, BoostSeconds)
      /\ work'.orders = work.orders /\ work'.level = work.level
      /\ work'.tk = work.tk /\ work'.metal = work.metal
  BY <1>1 DEF ShiftQueue, Rows
<1>4. ASSUME NEW i \in 1..Len(work.queue)
      PROVE  /\ work'.queue[i].id = work.queue[i].id
             /\ work'.queue[i].building = work.queue[i].building
             /\ work'.queue[i].cost = work.queue[i].cost
  <2> DEFINE job == work.queue[i]
             start == job.start - BoostSeconds
             finish == job.finish - BoostSeconds
  <2>1. job \in Job
    BY <1>1
  <2>2. work'.queue[i] = [job EXCEPT !.start = start, !.finish = finish]
    BY <1>3 DEF Shifted
  <2> HIDE DEF job, start, finish
  <2>3. /\ work'.queue[i].id = job.id /\ work'.queue[i].building = job.building
        /\ work'.queue[i].cost = job.cost
    BY <2>1, <2>2 DEF Job
  <2> QED
    BY <2>3 DEF job
<1>5. Len(work'.queue) = Len(work.queue)
  BY <1>1, <1>2, <1>3, ShiftedType
<1>6. Retimes(work, work')
  BY <1>3, <1>4, <1>5 DEF Retimes
<1>7. \A i \in 1..Len(work.queue) :
        /\ work'.queue[i].start = work.queue[i].start - owed'
        /\ work'.queue[i].finish = work.queue[i].finish - owed'
  BY <1>1, <1>2, <1>3, ShiftedType
<1> QED
  BY <1>2, <1>3, <1>6, <1>7

(* The debit takes the shifted seconds from the balance, and nothing else. *)
LEMMA DebitRows ==
    ASSUME TypeInv, Debit
    PROVE  /\ Retimes(work, work') /\ work'.queue = work.queue
           /\ work'.tk = work.tk - owed /\ work'.metal = work.metal
<1>1. /\ work'.queue = work.queue /\ work'.orders = work.orders
      /\ work'.level = work.level /\ work'.metal = work.metal
      /\ work'.tk = work.tk - owed
  BY DEF Debit, TypeInv, TypeOK, Rows
<1> QED
  BY <1>1 DEF Retimes

\* The window and the price of the order placed now.
PlacedStart ==
    IF Len(work.queue) = 0 THEN now ELSE Larger(now, work.queue[Len(work.queue)].finish)

PlacedLength == Duration(req.building, NextTarget, work.level[Nanofactory])

(* A placed order is paid for and enters the books with its row.           *)
LEMMA PlaceRows ==
    ASSUME TypeInv, PlaceOrder
    PROVE  LET job == [id |-> Len(work.orders) + 1, building |-> req.building,
                       start |-> PlacedStart, finish |-> PlacedStart + PlacedLength,
                       cost |-> CostOf(req.building, NextTarget)]
               order == [building |-> req.building,
                         paid |-> CostOf(req.building, NextTarget), back |-> 0,
                         took |-> 0, state |-> "open"]
           IN  /\ job \in Job /\ order \in Order /\ Gains(work, work', job, order)
               /\ work'.metal = work.metal - CostOf(req.building, NextTarget)
               /\ work'.tk = work.tk
               /\ PlacedStart \in Int /\ PlacedLength \in Nat /\ PlacedLength >= Floor
               /\ req.building \in Buildings /\ NextTarget \in Nat
               /\ CostOf(req.building, NextTarget) \in Nat
<1> DEFINE cost == CostOf(req.building, NextTarget)
           end == PlacedStart + PlacedLength
           job == [id |-> Len(work.orders) + 1, building |-> req.building,
                   start |-> PlacedStart, finish |-> end, cost |-> cost]
           order == [building |-> req.building, paid |-> cost, back |-> 0,
                     took |-> 0, state |-> "open"]
<1>1. work \in Rows /\ work.queue \in Seq(Job) /\ now \in Nat
      /\ Len(work.queue) \in Nat /\ Len(work.orders) + 1 \in Nat
  BY RowFacts DEF TypeInv, TypeOK
<1>2. req.building \in Buildings /\ NextTarget \in Nat /\ cost \in Nat
  BY NextTargetType, CostType DEF PlaceOrder
<1>3. PlacedStart \in Int
  <2>1. ASSUME Len(work.queue) # 0 PROVE work.queue[Len(work.queue)].finish \in Int
    BY <1>1, <2>1, JobFields
  <2> QED
    BY <1>1, <2>1 DEF PlacedStart, Larger
<1>4. PlacedLength \in Nat /\ PlacedLength >= Floor
  <2>1. work.level[Nanofactory] \in Nat
    BY <1>1, RowFacts, BuildingsAssumption
  <2> QED
    BY <1>2, <2>1, DurationType DEF PlacedLength
<1>5. end \in Int
  BY <1>3, <1>4
<1>6. /\ work'.queue = Append(work.queue, job) /\ work'.orders = Append(work.orders, order)
      /\ work'.level = work.level /\ work'.tk = work.tk /\ work'.metal = work.metal - cost
  BY <1>1 DEF PlaceOrder, PlacedStart, PlacedLength, Rows
<1> HIDE DEF cost, end
<1>7. job \in Job /\ order \in Order
  BY <1>1, <1>2, <1>3, <1>5 DEF Job, Order
<1> HIDE DEF job, order
<1>8. Gains(work, work', job, order)
  BY <1>6 DEF Gains
<1> QED
  BY <1>2, <1>3, <1>4, <1>6, <1>7, <1>8 DEF job, order, cost, end

-----------------------------------------------------------------------------
(* The committed rows and the rows of the open transaction both keep the    *)
(* books and the caps, between any two of its steps.                        *)

Good(rows) == BooksKept(rows) /\ CapsKept(rows)

RowsInv == Good(db) /\ Good(work)

\* The steps that change rows; every other step keeps or copies them.
Edits ==
    \/ FinishHead \/ FinishLosesHead \/ RescheduleRow \/ PlaceOrder
    \/ CancelJob \/ ShiftQueue \/ Debit

(* Whatever is no edit leaves the rows of the transaction, or replaces them *)
(* by the committed ones, and only a commit replaces those.                 *)
LEMMA OtherSteps ==
    ASSUME [Next]_vars
    PROVE  \/ Edits /\ db' = db
           \/ work' = work /\ db' = db
           \/ work' = db /\ db' = db
           \/ Commit /\ work' = work /\ db' = work
<1>1. CASE UNCHANGED vars
  BY <1>1 DEF vars
<1>2. CASE Tick
  BY <1>2 DEF Tick, txVars
<1>3. CASE Requests
  BY <1>3 DEF Requests, AdmitEnqueue, BeginEnqueue, BeginCancel, BeginFinish, BeginBoost,
              BeginVacation, VacationCheck, VacationEnable, VacationDisable, Open, txVars
<1>4. CASE Abort
  BY <1>4 DEF Abort, Close
<1>5. CASE Transaction
  <2>1. CASE Edits
    BY <2>1 DEF Edits, FinishHead, FinishLosesHead, RescheduleRow, PlaceOrder, CancelJob,
           ShiftQueue, Debit
  <2>2. CASE FinishEnd \/ FinishFails \/ KeepHead \/ RescheduleEnd \/ PlaceEnd
    BY <2>2 DEF FinishEnd, FinishFails, KeepHead, RescheduleEnd, PlaceEnd
  <2>3. CASE RejectEnqueue \/ CancelNotFound \/ NothingToBoost
    BY <2>3 DEF RejectEnqueue, CancelNotFound, NothingToBoost, Close
  <2>4. CASE Commit
    BY <2>4 DEF Commit, Close
  <2> QED
    BY <1>5, <2>1, <2>2, <2>3, <2>4 DEF Transaction, FinishPass, Edits
<1> QED
  BY <1>1, <1>2, <1>3, <1>4, <1>5 DEF Next

(* Every edit keeps the books and the caps.                                *)
LEMMA EditsGood ==
    ASSUME TypeInv, TypeInv', Good(work), Edits
    PROVE  Good(work')
<1>1. work \in Rows /\ work' \in Rows
  BY DEF TypeInv, TypeOK
<1>2. CASE FinishHead
  <2>1. Loses(work, work', 1) /\ Granted(work, work')
    BY <1>2, FinishHeadRows
  <2> QED
    BY <1>1, <2>1, LosesBooks, DeliversCaps DEF Good
<1>3. CASE CancelJob \/ FinishLosesHead
  <2>1. PICK k \in 1..Len(work.queue) : Loses(work, work', k) /\ work'.level = work.level
    <3>1. CASE CancelJob
      BY <3>1, CancelRows
    <3>2. CASE FinishLosesHead
      <4>1. Loses(work, work', 1) /\ work'.level = work.level
        BY <3>2, LosesHeadRows
      <4>2. 1 \in 1..Len(work.queue)
        BY <4>1 DEF Loses
      <4> QED
        BY <4>1, <4>2
    <3> QED
      BY <1>3, <3>1, <3>2
  <2>2. k \in Nat \ {0}
    BY <1>1, RowFacts
  <2> QED
    BY <1>1, <2>1, <2>2, LosesBooks, CancelCaps DEF Good
<1>4. CASE RescheduleRow \/ ShiftQueue \/ Debit
  <2>1. Retimes(work, work')
    BY <1>4, RescheduleRowRows, ShiftRows, DebitRows
  <2> QED
    BY <1>1, <2>1, RetimesKeeps DEF Good
<1>5. CASE PlaceOrder
  <2>1. PICK job \in Job, order \in Order :
          /\ Gains(work, work', job, order)
          /\ job.id = Len(work.orders) + 1 /\ job.cost = order.paid
          /\ order.state = "open" /\ job.building = req.building
          /\ job.building = order.building
    <3> DEFINE job == [id |-> Len(work.orders) + 1, building |-> req.building,
                       start |-> PlacedStart, finish |-> PlacedStart + PlacedLength,
                       cost |-> CostOf(req.building, NextTarget)]
               order == [building |-> req.building,
                         paid |-> CostOf(req.building, NextTarget), back |-> 0,
                         took |-> 0, state |-> "open"]
    <3>1. job \in Job /\ order \in Order /\ Gains(work, work', job, order)
      BY <1>5, PlaceRows
    <3>2. /\ job.id = Len(work.orders) + 1 /\ job.cost = order.paid
          /\ order.state = "open" /\ job.building = req.building
          /\ job.building = order.building
      OBVIOUS
    <3> HIDE DEF job, order
    <3> QED
      BY <3>1, <3>2
  <2>2. Len(work.queue) < QueueLimit /\ Ordered(work, job.building) + 1 <= MaxLevel[job.building]
    BY <1>5, <2>1 DEF PlaceOrder, CanPlace, NextTarget, Ordered
  <2>3. BooksKept(work')
    BY <1>1, <2>1, GainsBooks DEF Good
  <2>4. CapsKept(work')
    BY <1>1, <2>1, <2>2, GainsCaps DEF Good
  <2> QED
    BY <2>3, <2>4 DEF Good
<1> QED
  BY <1>2, <1>3, <1>4, <1>5 DEF Edits

(* Without rows and orders the books balance and no cap is reached. *)
LEMMA InitRows == Init => RowsInv
<1> SUFFICES ASSUME Init PROVE RowsInv
  OBVIOUS
<1>1. /\ db.queue = << >> /\ db.orders = << >> /\ work = db
      /\ \A b \in Buildings : db.level[b] = 0
  BY DEF Init
<1>2. BooksKept(db)
  BY <1>1 DEF BooksKept
<1>3. CapsKept(db)
  <2>1. Len(db.queue) = 0
    BY <1>1
  <2>2. \A b \in Buildings : Ordered(db, b) = 0 /\ MaxLevel[b] \in Nat
    BY <1>1, <2>1, QueuedNone, BuildingsAssumption DEF Ordered
  <2> QED
    BY <2>1, <2>2, LimitsAssumption DEF CapsKept
<1> QED
  BY <1>1, <1>2, <1>3 DEF RowsInv, Good

(* Every step keeps the books and the caps, of what is committed and of what is not. *)
LEMMA StepRows == TypeInv /\ TypeInv' /\ RowsInv /\ [Next]_vars => RowsInv'
<1> SUFFICES ASSUME TypeInv, TypeInv', RowsInv, [Next]_vars
             PROVE  RowsInv'
  OBVIOUS
<1>1. CASE Edits /\ db' = db
  <2>1. Good(work')
    BY <1>1, EditsGood DEF RowsInv
  <2> QED
    BY <1>1, <2>1 DEF RowsInv
<1>2. CASE work' \in {work, db} /\ db' \in {work, db}
  BY <1>2 DEF RowsInv
<1> QED
  BY <1>1, <1>2, OtherSteps

(* The rows of every reachable state keep the books and the caps.          *)
LEMMA RowsSafe == Spec => [](TypeInv /\ RowsInv)
<1>1. Spec => []TypeInv
  BY InitType, StepType, PTL DEF Spec
<1> QED
  BY <1>1, InitRows, StepRows, PTL DEF Spec

(* Orders in the queue count: the queue of a planet never exceeds its limit *)
(* and no building comes out above its cap, whatever is finished, cancelled *)
(* or rolled back between the orders.                                       *)
THEOREM NeverAboveCaps == Spec => []WithinCaps
<1>1. RowsInv => WithinCaps
  BY DEF RowsInv, Good, CapsKept, WithinCaps, Ordered
<1> QED
  BY <1>1, RowsSafe, PTL

(* The rows are the open orders, on both databases.                         *)
RowsHoldOpenOrders ==
    /\ {db.queue[i].id : i \in 1..Len(db.queue)} = OrdersIn("open")
    /\ \A i \in 1..Len(db.queue) :
         /\ db.queue[i].cost = db.orders[db.queue[i].id].paid
         /\ i > 1 => db.queue[i - 1].id < db.queue[i].id

(* No order of these rows has lost its row.                                 *)
NoneLost(rows) == \A n \in 1..Len(rows.orders) : rows.orders[n].state # "lost"

(* An order that ends otherwise is not lost.                               *)
LEMMA EndsKept ==
    ASSUME NEW orders \in Seq(Order), NEW later, NEW id, NEW order,
           later = [orders EXCEPT ![id] = order],
           id \in 1..Len(orders) => order.state # "lost",
           \A n \in 1..Len(orders) : orders[n].state # "lost"
    PROVE  \A n \in 1..Len(later) : later[n].state # "lost"
<1>1. Len(later) = Len(orders)
  OBVIOUS
<1>2. \A n \in 1..Len(orders) : later[n] = IF n = id THEN order ELSE orders[n]
  OBVIOUS
<1> QED
  BY <1>1, <1>2

(* On PostgreSQL no step loses an order.                                   *)
LEMMA StepKept ==
    ASSUME Postgres, TypeInv, NoneLost(db), NoneLost(work), [Next]_vars
    PROVE  NoneLost(db)' /\ NoneLost(work)'
<1>1. work.orders \in Seq(Order)
  BY RowFacts DEF TypeInv, TypeOK
<1>2. ASSUME NEW id, id \in 1..Len(work.orders) PROVE work.orders[id] \in Order
  BY <1>1, <1>2
<1>3. CASE Edits /\ db' = db
  <2>1. CASE FinishHead
    <3> DEFINE id == work.queue[1].id
               took == work.queue[1].finish - work.queue[1].start
               order == [work.orders[id] EXCEPT !.state = "delivered", !.took = took]
    <3>1. work'.orders = [work.orders EXCEPT ![id] = order]
      BY <2>1, FinishHeadRows
    <3>2. id \in 1..Len(work.orders) => order.state # "lost"
      BY <1>2 DEF Order
    <3> HIDE DEF id, order
    <3> QED
      BY <1>1, <1>3, <3>1, <3>2, EndsKept DEF NoneLost
  <2>2. CASE CancelJob
    <3>1. PICK k \in 1..Len(work.queue) :
            work'.orders = [work.orders EXCEPT ![req.job] =
              [work.orders[req.job] EXCEPT !.back = Refund(work.queue[k], now),
                                           !.state = "cancelled"]]
      BY <2>2, CancelRows
    <3> DEFINE id == req.job
               back == Refund(work.queue[k], now)
               order == [work.orders[id] EXCEPT !.back = back, !.state = "cancelled"]
    <3>2. work'.orders = [work.orders EXCEPT ![id] = order]
      BY <3>1
    <3>3. id \in 1..Len(work.orders) => order.state # "lost"
      BY <1>2 DEF Order
    <3> HIDE DEF id, order
    <3> QED
      BY <1>1, <1>3, <3>2, <3>3, EndsKept DEF NoneLost
  <2>3. CASE RescheduleRow \/ ShiftQueue \/ Debit
    <3>1. work'.orders = work.orders
      BY <2>3, RescheduleRowRows, ShiftRows, DebitRows DEF Retimes
    <3> QED
      BY <1>3, <3>1 DEF NoneLost
  <2>4. CASE PlaceOrder
    <3>1. PICK job, order : Gains(work, work', job, order) /\ order.state = "open"
      BY <2>4, PlaceRows
    <3>2. work'.orders = Append(work.orders, order)
      BY <3>1 DEF Gains
    <3>3. \A n \in 1..Len(work'.orders) :
            \/ work'.orders[n] = order
            \/ (n \in 1..Len(work.orders) /\ work'.orders[n] = work.orders[n])
      BY <1>1, <3>2
    <3> QED
      BY <1>3, <3>1, <3>3 DEF NoneLost
  <2> QED
    BY <1>3, <2>1, <2>2, <2>3, <2>4 DEF Edits, FinishLosesHead
<1>4. CASE work' \in {work, db} /\ db' \in {work, db}
  BY <1>4 DEF NoneLost
<1> QED
  BY <1>3, <1>4, OtherSteps

(* On both databases the queue of a planet holds exactly the open orders,   *)
(* oldest first, each with the price paid for it; on PostgreSQL no order is *)
(* ever without a row, a level and a refund.                                *)
THEOREM BooksBalance == Spec => []QueueHoldsOpenOrders
<1>1. TypeInv /\ RowsInv => RowsHoldOpenOrders
  <2> SUFFICES ASSUME TypeInv, RowsInv PROVE RowsHoldOpenOrders
    OBVIOUS
  <2>1. BooksKept(db) /\ Len(db.queue) \in Nat
    BY RowFacts DEF RowsInv, Good, TypeInv, TypeOK
  <2>2. {db.queue[i].id : i \in 1..Len(db.queue)} = OrdersIn("open")
    BY <2>1 DEF BooksKept, OrdersIn
  <2>3. ASSUME NEW i \in 1..Len(db.queue), i > 1
        PROVE  db.queue[i - 1].id < db.queue[i].id
    <3>1. i - 1 \in 1..Len(db.queue) /\ i - 1 < i
      BY <2>1, <2>3
    <3> QED
      BY <2>1, <3>1 DEF BooksKept
  <2>4. \A i \in 1..Len(db.queue) : db.queue[i].cost = db.orders[db.queue[i].id].paid
    BY <2>1 DEF BooksKept
  <2> QED
    BY <2>2, <2>3, <2>4 DEF RowsHoldOpenOrders
<1>2. CASE Postgres
  <2>1. Init => NoneLost(db) /\ NoneLost(work)
    BY DEF Init, NoneLost
  <2>2. /\ TypeInv /\ NoneLost(db) /\ NoneLost(work) /\ [Next]_vars
        => NoneLost(db)' /\ NoneLost(work)'
    BY <1>2, StepKept
  <2>3. RowsHoldOpenOrders /\ NoneLost(db) => QueueHoldsOpenOrders
    BY DEF RowsHoldOpenOrders, QueueHoldsOpenOrders, NoneLost, OrdersIn
  <2> QED
    BY <1>1, <2>1, <2>2, <2>3, RowsSafe, PTL DEF Spec
<1>3. CASE ~Postgres
  <2>1. RowsHoldOpenOrders => QueueHoldsOpenOrders
    BY <1>3 DEF RowsHoldOpenOrders, QueueHoldsOpenOrders
  <2> QED
    BY <1>1, <2>1, RowsSafe, PTL
<1> QED
  BY <1>2, <1>3

-----------------------------------------------------------------------------
(* Windows, on PostgreSQL. Every row of the committed queue has a window    *)
(* that fits its target. In the open transaction the reschedule loop has yet to set those *)
(* of the rows it has not reached, except that of the head, which it may    *)
(* keep.                                                                    *)

Target(rows, i) == TargetAt(rows.queue, rows.level, i)

Took(job) == job.finish - job.start

Fits(rows, i) ==
    \E t \in Target(rows, i)..(IF i = 1 THEN MaxLevel[rows.queue[i].building]
                               ELSE Target(rows, i)),
       speed \in 0..rows.level[Nanofactory] :
        Took(rows.queue[i]) = Duration(rows.queue[i].building, t, speed)

Passed(i) == phase = "reschedule" => i = 1 \/ i < idx

WindowInv ==
    /\ \A i \in 1..Len(db.queue) : Fits(db, i)
    /\ \A i \in 1..Len(work.queue) : Passed(i) => Fits(work, i)

(* No row of good rows aims above the cap of its building.                 *)
LEMMA TargetCapped ==
    ASSUME NEW r \in Rows, Good(r), NEW i \in 1..Len(r.queue)
    PROVE  /\ r.queue[i].building \in Buildings
           /\ Target(r, i) \in Nat
           /\ Target(r, i) <= MaxLevel[r.queue[i].building]
           /\ MaxLevel[r.queue[i].building] \in Nat
<1> DEFINE b == r.queue[i].building
<1>1. b \in Buildings /\ Len(r.queue) \in Nat
  BY RowFacts, JobFields
<1>2. MaxLevel[b] \in Nat /\ r.level[b] \in Nat
  BY <1>1, RowFacts, BuildingsAssumption
<1>3. i - 1 \in Nat /\ (i - 1) + 1 = i /\ i <= Len(r.queue)
  BY <1>1
<1>4. QueuedSame(r.queue, b, i) = QueuedSame(r.queue, b, i - 1) + 1
  <2>1. QueuedSame(r.queue, b, (i - 1) + 1)
          = QueuedSame(r.queue, b, i - 1) + Hit(r.queue, (i - 1) + 1, b)
    BY <1>3, QueuedNext
  <2>2. Hit(r.queue, i, b) = 1
    BY DEF Hit
  <2> QED
    BY <1>3, <2>1, <2>2
<1>5. QueuedSame(r.queue, b, i) <= QueuedSame(r.queue, b, Len(r.queue))
  BY <1>1, <1>3, QueuedMonotone
<1>6. /\ QueuedSame(r.queue, b, i) \in Nat /\ QueuedSame(r.queue, b, i - 1) \in Nat
      /\ QueuedSame(r.queue, b, Len(r.queue)) \in Nat
  BY <1>1, <1>3, QueuedSameType
<1>7. r.level[b] + QueuedSame(r.queue, b, Len(r.queue)) <= MaxLevel[b]
  BY <1>1 DEF Good, CapsKept, Ordered
<1>8. Target(r, i) = r.level[b] + QueuedSame(r.queue, b, i - 1) + 1
  BY DEF Target, TargetAt
<1> HIDE DEF b
<1>9. Target(r, i) \in Nat /\ Target(r, i) <= MaxLevel[b]
  BY <1>2, <1>4, <1>5, <1>6, <1>7, <1>8
<1> QED
  BY <1>1, <1>2, <1>9 DEF b

(* A window fits where it fitted before: at the same target, or at the head *)
(* for a target no higher than before.                                      *)
LEMMA FitsStill ==
    ASSUME NEW r \in Rows, NEW s \in Rows, Good(r), Good(s),
           NEW j \in 1..Len(r.queue), NEW i \in 1..Len(s.queue),
           s.queue[i].building = r.queue[j].building,
           Took(s.queue[i]) = Took(r.queue[j]),
           r.level[Nanofactory] <= s.level[Nanofactory],
           Target(s, i) <= Target(r, j),
           i # 1 => j # 1 /\ Target(s, i) = Target(r, j),
           Fits(r, j)
    PROVE  Fits(s, i)
<1> DEFINE b == r.queue[j].building
<1>1. PICK t \in Target(r, j)..(IF j = 1 THEN MaxLevel[b] ELSE Target(r, j)),
           speed \in 0..r.level[Nanofactory] :
        Took(r.queue[j]) = Duration(b, t, speed)
  BY DEF Fits
<1>2. /\ Target(r, j) \in Nat /\ Target(s, i) \in Nat /\ MaxLevel[b] \in Nat
      /\ Target(r, j) <= MaxLevel[b]
  BY TargetCapped
<1>3. r.level[Nanofactory] \in Nat /\ s.level[Nanofactory] \in Nat
  BY RowFacts, BuildingsAssumption
<1>4. speed \in 0..s.level[Nanofactory]
  BY <1>3
<1> HIDE DEF b
<1>5. t \in Target(s, i)..(IF i = 1 THEN MaxLevel[b] ELSE Target(s, i))
  <2>1. CASE i = 1
    <3>1. t \in Int /\ Target(r, j) <= t /\ t <= MaxLevel[b]
      BY <1>1, <1>2
    <3> QED
      BY <1>2, <2>1, <3>1
  <2>2. CASE i # 1
    BY <1>2, <2>2
  <2> QED
    BY <2>1, <2>2
<1>6. s.queue[i].building = b /\ Took(s.queue[i]) = Duration(b, t, speed)
  BY <1>1 DEF b
<1> QED
  BY <1>4, <1>5, <1>6 DEF Fits

(* Delivering the head raises the level its rows aim above.                *)
LEMMA DeliversFits ==
    ASSUME NEW r \in Rows, NEW s \in Rows, Good(r), Good(s), Loses(r, s, 1), Granted(r, s),
           NEW i \in 1..Len(s.queue), Fits(r, i + 1)
    PROVE  Fits(s, i)
<1> DEFINE b == s.queue[i].building
<1>1. /\ Len(r.queue) \in Nat /\ Len(s.queue) = Len(r.queue) - 1
      /\ i + 1 \in 1..Len(r.queue) /\ 1 \in 1..Len(r.queue)
  BY RowFacts DEF Loses
<1>2. s.queue[i] = r.queue[i + 1]
  BY <1>1 DEF Loses
<1>3. b \in Buildings /\ r.queue[1].building \in Buildings
  BY <1>1, RowFacts, JobFields
<1>4. r.level[Nanofactory] <= s.level[Nanofactory]
  <2> DEFINE c == r.queue[1].building
  <2>1. Nanofactory \in Buildings /\ r.level \in [Buildings -> Nat]
    BY RowFacts, BuildingsAssumption
  <2>2. c \in Buildings /\ s.level = [r.level EXCEPT ![c] = r.level[c] + 1]
    BY <1>3 DEF Granted
  <2> HIDE DEF c
  <2> QED
    BY <2>1, <2>2
<1>5. s.level[b] = r.level[b] + Hit(r.queue, 1, b)
  BY SMTT(20), <1>3, RowFacts DEF Granted, Hit
<1>6. i - 1 \in Nat /\ (i - 1) + 1 = i
  BY <1>1
<1>7. QueuedSame(s.queue, b, i - 1) = QueuedSame(r.queue, b, i) - Hit(r.queue, 1, b)
  <2>1. Without(r.queue, s.queue, 1, Len(s.queue))
    <3>1. ASSUME NEW x \in 1..Len(s.queue)
          PROVE  s.queue[x].building =
                   IF x < 1 THEN r.queue[x].building ELSE r.queue[x + 1].building
      <4>1. s.queue[x] = IF x < 1 THEN r.queue[x] ELSE r.queue[x + 1]
        BY <1>1, <3>1 DEF Loses
      <4> QED
        BY <4>1
    <3> QED
      BY <3>1 DEF Without
  <2>2. Len(s.queue) \in Nat /\ i - 1 \in 0..Len(s.queue) /\ 1 \in Nat \ {0}
    BY <1>1
  <2>3. QueuedSame(s.queue, b, i - 1) =
          IF i - 1 < 1 THEN QueuedSame(r.queue, b, i - 1)
          ELSE QueuedSame(r.queue, b, (i - 1) + 1) - Hit(r.queue, 1, b)
    <3> HIDE DEF b
    <3>1. PICK last \in Nat : last = Len(s.queue)
      BY <2>2
    <3>2. PICK n \in 0..last : n = i - 1
      BY <2>2, <3>1
    <3>3. PICK k \in Nat \ {0} : k = 1
      OBVIOUS
    <3>4. Without(r.queue, s.queue, k, last)
      BY <2>1, <3>1, <3>3
    <3>5. QueuedSame(s.queue, b, n) =
            IF n < k THEN QueuedSame(r.queue, b, n)
            ELSE QueuedSame(r.queue, b, n + 1) - Hit(r.queue, k, b)
      BY ZenonT(30), <3>4, QueuedWithout
    <3> QED
      BY <3>2, <3>3, <3>5
  <2>4. CASE i = 1
    <3>1. QueuedSame(r.queue, b, 0 + 1) = QueuedSame(r.queue, b, 0) + Hit(r.queue, 0 + 1, b)
      BY QueuedNext
    <3>2. QueuedSame(r.queue, b, 0) = 0 /\ Hit(r.queue, 1, b) \in Nat
      BY QueuedNone DEF Hit
    <3>3. QueuedSame(r.queue, b, 1) = 0 + Hit(r.queue, 1, b)
      BY <3>1, <3>2
    <3>4. QueuedSame(s.queue, b, i - 1) = 0
      BY <2>3, <2>4, <3>2
    <3> HIDE DEF b
    <3> QED
      BY <2>4, <3>2, <3>3, <3>4
  <2>5. CASE i # 1
    BY <1>6, <2>2, <2>3, <2>5
  <2> QED
    BY <2>4, <2>5
<1>8. Target(s, i) = Target(r, i + 1)
  <2>1. /\ r.level[b] \in Nat /\ Hit(r.queue, 1, b) \in Nat
        /\ QueuedSame(r.queue, b, i) \in Nat
    BY <1>3, RowFacts, QueuedSameType DEF Hit
  <2>2. Target(s, i) = s.level[b] + QueuedSame(s.queue, b, i - 1) + 1
    BY DEF Target, TargetAt
  <2>3. (i + 1) - 1 = i
    BY <1>1
  <2>4. Target(r, i + 1) = r.level[b] + QueuedSame(r.queue, b, i) + 1
    BY <1>2, <2>3 DEF Target, TargetAt
  <2> HIDE DEF b
  <2> QED
    BY <1>5, <1>7, <2>1, <2>2, <2>4
<1>9. Target(r, i + 1) \in Nat /\ i + 1 # 1
  BY <1>1, TargetCapped
<1> QED
  BY <1>1, <1>2, <1>4, <1>8, <1>9, FitsStill

(* Rows ahead of a change aim where they aimed.                            *)
LEMMA TargetAlike ==
    ASSUME NEW r \in Rows, NEW s \in Rows, NEW i \in Nat, s.level = r.level,
           \A j \in 1..i : s.queue[j].building = r.queue[j].building, i # 0
    PROVE  Target(s, i) = Target(r, i)
<1> DEFINE b == r.queue[i].building
<1>1. i \in 1..i /\ i - 1 \in Int /\ \A j \in 1..(i - 1) : j \in 1..i
  OBVIOUS
<1>2. s.queue[i].building = b
  BY <1>1
<1>3. QueuedSame(s.queue, b, i - 1) = QueuedSame(r.queue, b, i - 1)
  BY <1>1, QueuedAlike
<1> QED
  BY <1>2, <1>3 DEF Target, TargetAt

(* What a step that is no edit may do to the rows and to the place of the   *)
(* reschedule loop in them.                                                 *)
LEMMA Reading ==
    ASSUME [Next]_vars, ~Edits
    PROVE  \/ work' = work /\ db' = db /\ (UNCHANGED <<phase, idx>> \/ phase # "reschedule")
           \/ work' = db /\ db' = db
           \/ Commit /\ work' = work /\ db' = work
           \/ KeepHead
           \/ RescheduleEnd
<1>1. CASE UNCHANGED vars
  BY <1>1 DEF vars
<1>2. CASE Tick
  BY <1>2 DEF Tick, txVars
<1>3. CASE Requests
  BY <1>3 DEF Requests, AdmitEnqueue, BeginEnqueue, BeginCancel, BeginFinish, BeginBoost,
              BeginVacation, VacationCheck, VacationEnable, VacationDisable, Open, txVars
<1>4. CASE Abort
  BY <1>4 DEF Abort, Close
<1>5. CASE Transaction
  <2>2. CASE FinishEnd \/ FinishFails \/ PlaceEnd
    BY <2>2 DEF FinishEnd, FinishFails, PlaceEnd
  <2>3. CASE RejectEnqueue \/ CancelNotFound \/ NothingToBoost
    BY <2>3 DEF RejectEnqueue, CancelNotFound, NothingToBoost, Close
  <2>4. CASE Commit
    BY <2>4 DEF Commit, Close
  <2> QED
    BY <1>5, <2>2, <2>3, <2>4 DEF Transaction, FinishPass, Edits
<1> QED
  BY <1>1, <1>2, <1>3, <1>4, <1>5 DEF Next

(* Every edit leaves fitting windows in the rows the loop has passed.      *)
LEMMA EditsFit ==
    ASSUME Postgres, TypeInv, TypeInv', SerialInv, Good(work), Good(work'), WindowInv,
           Edits
    PROVE  \A i \in 1..Len(work'.queue) : Passed(i)' => Fits(work', i)
<1>1. work \in Rows /\ work' \in Rows
  BY DEF TypeInv, TypeOK
<1>2. Len(work.queue) \in Nat /\ Len(work'.queue) \in Nat
  BY <1>1, RowFacts
<1>3. CASE FinishHead
  <2>1. Loses(work, work', 1) /\ Granted(work, work')
    BY <1>3, FinishHeadRows
  <2>2. phase # "reschedule"
    BY <1>3 DEF FinishHead
  <2>3. ASSUME NEW i \in 1..Len(work'.queue) PROVE Fits(work', i)
    <3>1. i + 1 \in 1..Len(work.queue)
      BY <1>2, <2>1 DEF Loses
    <3>2. Fits(work, i + 1)
      BY <2>2, <3>1 DEF WindowInv, Passed
    <3> QED
      BY <1>1, <2>1, <2>3, <3>2, DeliversFits
  <2> QED
    BY <2>3
<1>4. CASE CancelJob
  <2>1. PICK k \in 1..Len(work.queue) : Loses(work, work', k) /\ work'.level = work.level
    BY <1>4, CancelRows
  <2>2. phase # "reschedule" /\ idx' = 1
    BY <1>4 DEF CancelJob, SerialInv
  <2>3. ASSUME NEW i \in 1..Len(work'.queue), Passed(i)' PROVE Fits(work', i)
    <3>1. i = 1
      <4>1. phase' = "reschedule"
        BY <1>4 DEF CancelJob
      <4> QED
        BY <1>2, <2>2, <2>3, <4>1 DEF Passed
    <3> DEFINE j == IF 1 < k THEN 1 ELSE 2
    <3>2. j \in 1..Len(work.queue) /\ work'.queue[i] = work.queue[j]
      <4>1. 1 \in 1..(Len(work.queue) - 1) /\ Len(work.queue) >= 2
        BY <1>2, <2>1, <2>3, <3>1 DEF Loses
      <4> QED
        BY <1>2, <2>1, <3>1, <4>1 DEF Loses
    <3>3. Fits(work, j)
      BY <2>2, <3>2 DEF WindowInv, Passed
    <3> HIDE DEF j
    <3>4. Target(work', i) <= Target(work, j)
      <4> DEFINE b == work.queue[j].building
      <4>1. QueuedSame(work'.queue, b, 1 - 1) = 0
        BY QueuedNone
      <4>2. Target(work', i) = work.level[b] + 0 + 1
        BY <2>1, <3>1, <3>2, <4>1 DEF Target, TargetAt
      <4>3. Target(work, j) = work.level[b] + QueuedSame(work.queue, b, j - 1) + 1
        BY DEF Target, TargetAt
      <4>4. b \in Buildings
        BY <1>1, <3>2, TargetCapped
      <4>5. work.level[b] \in Nat /\ QueuedSame(work.queue, b, j - 1) \in Nat
        BY <1>1, <1>2, <3>2, <4>4, RowFacts, QueuedSameType
      <4> HIDE DEF b
      <4> QED
        BY <4>2, <4>3, <4>5
    <3>5. work.level[Nanofactory] <= work'.level[Nanofactory]
      BY <1>1, <2>1, RowFacts, BuildingsAssumption
    <3> QED
      BY <1>1, <3>1, <3>2, <3>3, <3>4, <3>5, FitsStill
  <2> QED
    BY <2>3
<1>5. ASSUME NEW i \in 1..Len(work.queue), Retimes(work, work'), Fits(work, i),
             Took(work'.queue[i]) = Took(work.queue[i])
      PROVE  Fits(work', i)
  <2>1. Target(work', i) = Target(work, i)
    <3>1. i \in Nat /\ i # 0 /\ \A j \in 1..i : j \in 1..Len(work.queue)
      BY <1>2
    <3>2. \A j \in 1..i : work'.queue[j].building = work.queue[j].building
      BY <1>5, <3>1 DEF Retimes
    <3>3. work'.level = work.level
      BY <1>5 DEF Retimes
    <3> QED
      BY <1>1, <3>1, <3>2, <3>3, TargetAlike
  <2>2. /\ work'.queue[i].building = work.queue[i].building /\ i \in 1..Len(work'.queue)
        /\ work'.level = work.level
    BY <1>5 DEF Retimes
  <2>3. Target(work, i) \in Nat /\ work.level[Nanofactory] \in Nat
    BY <1>1, TargetCapped, RowFacts, BuildingsAssumption
  <2>4. Target(work', i) <= Target(work, i)
        /\ work.level[Nanofactory] <= work'.level[Nanofactory]
    BY <2>1, <2>2, <2>3
  <2> QED
    BY <1>1, <1>5, <2>1, <2>2, <2>4, FitsStill
<1>6. CASE RescheduleRow
  <2> DEFINE job == work.queue[idx]
             length == Duration(job.building, Target(work, idx), work.level[Nanofactory])
  <2>1. /\ Retimes(work, work') /\ idx \in 1..Len(work.queue) /\ length \in Nat
        /\ work'.queue[idx].start = at /\ work'.queue[idx].finish = at + length
        /\ \A i \in 1..Len(work.queue) : i # idx => work'.queue[i] = work.queue[i]
    BY <1>6, RescheduleRowRows DEF Target
  <2>2. phase = "reschedule" /\ phase' = "reschedule" /\ idx' = idx + 1
    BY <1>6 DEF RescheduleRow
  <2>3. at \in Int /\ idx \in Nat
    BY DEF TypeInv, TypeOK
  <2>4. Fits(work', idx)
    <3>1. Took(work'.queue[idx]) = length
      <4> HIDE DEF length
      <4> QED
        BY <2>1, <2>3 DEF Took
    <3>2. Target(work', idx) = Target(work, idx)
      <4>1. idx # 0 /\ \A j \in 1..idx : j \in 1..Len(work.queue)
        BY <1>2, <2>1
      <4>2. \A j \in 1..idx : work'.queue[j].building = work.queue[j].building
        BY <2>1, <4>1 DEF Retimes
      <4>3. work'.level = work.level
        BY <2>1 DEF Retimes
      <4> QED
        BY <1>1, <2>3, <4>1, <4>2, <4>3, TargetAlike
    <3>3. /\ work'.queue[idx].building = job.building /\ work'.level = work.level
      BY <2>1 DEF Retimes
    <3>4. /\ Target(work, idx) \in Nat /\ Target(work, idx) <= MaxLevel[job.building]
          /\ MaxLevel[job.building] \in Nat
      BY <1>1, <2>1, TargetCapped
    <3>5. work.level[Nanofactory] \in 0..work.level[Nanofactory]
      <4>1. work.level[Nanofactory] \in Nat
        BY <1>1, RowFacts, BuildingsAssumption
      <4> QED
        BY <4>1
    <3>6. Target(work, idx) \in
            Target(work, idx)..(IF idx = 1 THEN MaxLevel[job.building] ELSE Target(work, idx))
      BY <3>4
    <3> QED
      BY <3>1, <3>2, <3>3, <3>5, <3>6 DEF Fits
  <2>5. ASSUME NEW i \in 1..Len(work'.queue), Passed(i)', i # idx PROVE Fits(work', i)
    <3>1. i \in 1..Len(work.queue)
      BY <2>1 DEF Retimes
    <3>2. i = 1 \/ i < idx
      BY <1>2, <2>2, <2>3, <2>5 DEF Passed
    <3>3. Fits(work, i)
      BY <3>1, <3>2 DEF WindowInv, Passed
    <3>4. Took(work'.queue[i]) = Took(work.queue[i])
      BY <2>1, <2>5, <3>1
    <3> QED
      BY <1>5, <2>1, <3>1, <3>3, <3>4
  <2> QED
    BY <2>4, <2>5
<1>7. CASE PlaceOrder
  <2> DEFINE n == Len(work.queue)
  <2>1. PICK job \in Job, order \in Order :
          /\ Gains(work, work', job, order)
          /\ Took(job) = PlacedLength /\ job.building = req.building
    <3> DEFINE job == [id |-> Len(work.orders) + 1, building |-> req.building,
                       start |-> PlacedStart, finish |-> PlacedStart + PlacedLength,
                       cost |-> CostOf(req.building, NextTarget)]
               order == [building |-> req.building,
                         paid |-> CostOf(req.building, NextTarget), back |-> 0,
                         took |-> 0, state |-> "open"]
    <3>1. job \in Job /\ order \in Order /\ Gains(work, work', job, order)
      BY <1>7, PlaceRows
    <3>2. PlacedStart \in Int /\ PlacedLength \in Nat
      BY <1>7, PlaceRows
    <3>3. Took(job) = PlacedLength /\ job.building = req.building
      BY <3>2 DEF Took
    <3> HIDE DEF job, order
    <3> QED
      BY <3>1, <3>3
  <2>2. /\ Len(work'.queue) = n + 1 /\ work'.queue[n + 1] = job
        /\ \A i \in 1..n : work'.queue[i] = work.queue[i]
        /\ work'.level = work.level
    BY <1>1, <2>1, RowFacts DEF Gains
  <2>3. phase = "place"
    BY <1>7 DEF PlaceOrder
  <2>4. ASSUME NEW i \in 1..n PROVE Fits(work', i)
    <3>1. Fits(work, i) /\ work'.queue[i] = work.queue[i] /\ i \in 1..Len(work'.queue)
      BY <1>2, <2>2, <2>3 DEF WindowInv, Passed
    <3>2. Target(work', i) = Target(work, i)
      <4>1. i \in Nat /\ i # 0 /\ \A j \in 1..i : work'.queue[j].building = work.queue[j].building
        BY <1>2, <2>2
      <4> QED
        BY <1>1, <2>2, <4>1, TargetAlike
    <3>3. Target(work, i) \in Nat /\ work.level[Nanofactory] \in Nat
      BY <1>1, TargetCapped, RowFacts, BuildingsAssumption
    <3>4. Target(work', i) <= Target(work, i)
          /\ work.level[Nanofactory] <= work'.level[Nanofactory]
      BY <2>2, <3>2, <3>3
    <3> QED
      BY <1>1, <3>1, <3>2, <3>4, FitsStill
  <2>5. Fits(work', n + 1)
    <3>1. n + 1 \in 1..Len(work'.queue) /\ (n + 1) - 1 = n
      BY <1>2, <2>2
    <3>2. QueuedSame(work'.queue, job.building, n) = QueuedSame(work.queue, job.building, n)
      BY SMTT(20), <1>2, <2>2, QueuedAlike
    <3>3. Target(work', n + 1) = NextTarget
      BY <2>1, <2>2, <3>1, <3>2 DEF Target, TargetAt, NextTarget
    <3>4. /\ Target(work', n + 1) \in Nat /\ Target(work', n + 1) <= MaxLevel[job.building]
          /\ MaxLevel[job.building] \in Nat
      BY <1>1, <2>2, <3>1, TargetCapped
    <3>5. work'.level[Nanofactory] \in 0..work'.level[Nanofactory]
      <4>1. work'.level[Nanofactory] \in Nat
        BY <1>1, RowFacts, BuildingsAssumption
      <4> QED
        BY <4>1
    <3>6. Took(work'.queue[n + 1])
            = Duration(job.building, Target(work', n + 1), work'.level[Nanofactory])
      BY <2>1, <2>2, <3>3 DEF PlacedLength
    <3>7. Target(work', n + 1) \in Target(work', n + 1)..
            (IF n + 1 = 1 THEN MaxLevel[job.building] ELSE Target(work', n + 1))
      BY <3>4
    <3> HIDE DEF n
    <3> QED
      BY <2>2, <3>5, <3>6, <3>7 DEF Fits
  <2> QED
    BY <1>2, <2>2, <2>4, <2>5
<1>8. CASE ShiftQueue \/ Debit
  <2>1. phase # "reschedule"
    BY <1>8 DEF ShiftQueue, Debit
  <2>2. Retimes(work, work')
    BY <1>8, ShiftRows, DebitRows
  <2>3. ASSUME NEW i \in 1..Len(work'.queue) PROVE Fits(work', i)
    <3>1. i \in 1..Len(work.queue)
      BY <2>2 DEF Retimes
    <3>2. Fits(work, i)
      BY <2>1, <3>1 DEF WindowInv, Passed
    <3>3. Took(work'.queue[i]) = Took(work.queue[i])
      <4>1. CASE Debit
        BY <4>1, DebitRows
      <4>2. CASE ShiftQueue
        <5>1. /\ work'.queue[i].start = work.queue[i].start - owed'
              /\ work'.queue[i].finish = work.queue[i].finish - owed'
              /\ owed' \in Nat
          BY <3>1, <4>2, ShiftRows
        <5>2. work.queue[i].start \in Int /\ work.queue[i].finish \in Int
          BY <1>1, <3>1, RowFacts, JobFields
        <5> QED
          BY <5>1, <5>2 DEF Took
      <4> QED
        BY <1>8, <4>1, <4>2
    <3> QED
      BY <1>5, <2>2, <3>1, <3>2, <3>3
  <2> QED
    BY <2>3
<1> QED
  BY <1>3, <1>4, <1>6, <1>7, <1>8 DEF Edits, FinishLosesHead

(* Every step keeps the windows as long as their targets take. *)
LEMMA StepWindows ==
    ASSUME Postgres, TypeInv, TypeInv', SerialInv, RowsInv, RowsInv', WindowInv, [Next]_vars
    PROVE  WindowInv'
<1>1. CASE Edits
  <2>1. db' = db
    BY <1>1 DEF Edits, FinishHead, FinishLosesHead, RescheduleRow, PlaceOrder, CancelJob,
           ShiftQueue, Debit
  <2>2. \A i \in 1..Len(work'.queue) : Passed(i)' => Fits(work', i)
    BY <1>1, EditsFit DEF RowsInv
  <2> QED
    BY <2>1, <2>2 DEF WindowInv
<1>2. CASE ~Edits
  <2>1. CASE work' = work /\ db' = db /\ (UNCHANGED <<phase, idx>> \/ phase # "reschedule")
    BY <2>1 DEF WindowInv, Passed
  <2>2. CASE work' = db /\ db' = db
    BY <2>2 DEF WindowInv
  <2>3. CASE Commit /\ work' = work /\ db' = work
    <3>1. phase = "commit"
      BY <2>3 DEF Commit
    <3> QED
      BY <2>3, <3>1 DEF WindowInv, Passed
  <2>4. CASE KeepHead
    <3>1. /\ idx = 1 /\ idx' = 2 /\ work' = work /\ db' = db
          /\ phase' = phase
      BY <2>4 DEF KeepHead, KeepsWindow
    <3>2. Len(work.queue) \in Nat
      BY RowFacts DEF TypeInv, TypeOK
    <3>3. \A i \in 1..Len(work.queue) : Passed(i)' => Passed(i)
      BY <3>1, <3>2 DEF Passed
    <3> QED
      BY <3>1, <3>3 DEF WindowInv
  <2>5. CASE RescheduleEnd
    <3>1. idx > Len(work.queue) /\ work' = work /\ db' = db
      BY <2>5 DEF RescheduleEnd
    <3>2. Len(work.queue) \in Nat /\ idx \in Nat
      BY RowFacts DEF TypeInv, TypeOK
    <3>3. \A i \in 1..Len(work.queue) : Passed(i)
      BY <3>1, <3>2 DEF Passed
    <3> QED
      BY <3>1, <3>3 DEF WindowInv
  <2> QED
    BY <1>2, <2>1, <2>2, <2>3, <2>4, <2>5, Reading
<1> QED
  BY <1>1, <1>2

(* The invariants so far.                                                  *)
LEMMA SerialSafe == Spec => [](TypeInv /\ SerialInv /\ RowsInv)
<1>1. Spec => []TypeInv
  BY InitType, StepType, PTL DEF Spec
<1>2. Spec => []SerialInv
  BY <1>1, InitSerial, StepSerial, PTL DEF Spec
<1> QED
  BY <1>1, <1>2, RowsSafe, PTL

(* The windows fit in every reachable state. *)
LEMMA WindowsSafe ==
    ASSUME Postgres
    PROVE  Spec => []WindowInv
<1>1. Init => WindowInv
  BY DEF Init, WindowInv
<1>2. /\ TypeInv /\ TypeInv' /\ SerialInv /\ RowsInv /\ RowsInv' /\ WindowInv /\ [Next]_vars
      => WindowInv'
  BY StepWindows
<1> QED
  BY <1>1, <1>2, SerialSafe, PTL DEF Spec

(* On PostgreSQL every committed job holds the slot exactly as long as the  *)
(* level it will deliver takes, at a speed the planet has had; only a head  *)
(* in progress may keep the longer window of a higher level.                *)
THEOREM PostgresWindowsFit ==
    ASSUME Postgres
    PROVE  Spec => []WindowFitsTarget
<1>1. WindowInv => WindowFitsTarget
  BY DEF WindowInv, Fits, Target, Took, WindowFitsTarget
<1> QED
  BY <1>1, WindowsSafe, PTL

-----------------------------------------------------------------------------
(* On both databases every window lasts the floor at least.                 *)

Long(rows) == \A i \in 1..Len(rows.queue) : Took(rows.queue[i]) >= Floor

LongInv == Long(db) /\ Long(work)

(* Every edit leaves windows that long.                                    *)
LEMMA EditsLong ==
    ASSUME TypeInv, TypeInv', Long(work), Edits
    PROVE  Long(work')
<1>1. /\ work.queue \in Seq(Job) /\ work'.queue \in Seq(Job)
      /\ Len(work.queue) \in Nat /\ Len(work'.queue) \in Nat
  BY RowFacts DEF TypeInv, TypeOK
<1>2. CASE FinishHead \/ FinishLosesHead \/ CancelJob
  <2>1. PICK k \in Int : Loses(work, work', k)
    <3>1. CASE FinishHead \/ FinishLosesHead
      BY <3>1, FinishHeadRows, LosesHeadRows
    <3>2. CASE CancelJob
      <4>1. PICK k \in 1..Len(work.queue) : Loses(work, work', k)
        BY <3>2, CancelRows
      <4> QED
        BY <1>1, <4>1
    <3> QED
      BY <1>2, <3>1, <3>2
  <2>2. ASSUME NEW i \in 1..Len(work'.queue)
        PROVE  \E j \in 1..Len(work.queue) : work'.queue[i] = work.queue[j]
    <3>1. i \in 1..(Len(work.queue) - 1) /\ i \in 1..Len(work.queue)
          /\ i + 1 \in 1..Len(work.queue)
      BY <1>1, <2>1 DEF Loses
    <3> QED
      BY <2>1, <3>1 DEF Loses
  <2> QED
    BY <2>2 DEF Long
<1>3. CASE RescheduleRow
  <2>1. PICK length \in Nat :
          /\ Retimes(work, work') /\ length >= Floor
          /\ work'.queue[idx].start = at /\ work'.queue[idx].finish = at + length
          /\ \A i \in 1..Len(work.queue) : i # idx => work'.queue[i] = work.queue[i]
    BY <1>3, RescheduleRowRows
  <2>2. Took(work'.queue[idx]) >= Floor
    <3>1. at \in Int /\ Floor \in Int
      BY TimesAssumption DEF TypeInv, TypeOK
    <3> QED
      BY <2>1, <3>1 DEF Took
  <2>3. Len(work'.queue) = Len(work.queue)
    BY <2>1 DEF Retimes
  <2> QED
    BY <2>1, <2>2, <2>3 DEF Long
<1>4. CASE ShiftQueue
  <2>1. /\ Retimes(work, work') /\ owed' \in Nat
        /\ \A i \in 1..Len(work.queue) :
             /\ work'.queue[i].start = work.queue[i].start - owed'
             /\ work'.queue[i].finish = work.queue[i].finish - owed'
    BY <1>4, ShiftRows
  <2>2. Len(work'.queue) = Len(work.queue)
    BY <2>1 DEF Retimes
  <2>3. ASSUME NEW i \in 1..Len(work.queue)
        PROVE  Took(work'.queue[i]) = Took(work.queue[i])
    <3>1. work.queue[i].start \in Int /\ work.queue[i].finish \in Int
      BY <1>1, JobFields
    <3> QED
      BY <2>1, <3>1 DEF Took
  <2> QED
    BY <2>2, <2>3 DEF Long
<1>5. CASE Debit
  BY <1>5, DebitRows DEF Long
<1>6. CASE PlaceOrder
  <2>1. PICK job, order :
          /\ Gains(work, work', job, order)
          /\ job.start = PlacedStart /\ job.finish = PlacedStart + PlacedLength
    BY <1>6, PlaceRows
  <2>2. PlacedStart \in Int /\ PlacedLength \in Nat /\ PlacedLength >= Floor /\ Floor \in Nat
    BY <1>6, PlaceRows, TimesAssumption
  <2>3. Took(job) >= Floor
    BY <2>1, <2>2 DEF Took
  <2>4. work'.queue = Append(work.queue, job)
    BY <2>1 DEF Gains
  <2>5. ASSUME NEW i \in 1..Len(work'.queue)
        PROVE  work'.queue[i] = job \/ (i \in 1..Len(work.queue) /\ work'.queue[i] = work.queue[i])
    BY <1>1, <2>4
  <2> QED
    BY <2>3, <2>5 DEF Long
<1> QED
  BY <1>2, <1>3, <1>4, <1>5, <1>6 DEF Edits

(* Every window of every reachable state lasts the floor at least.         *)
LEMMA LongSafe == Spec => []LongInv
<1>1. Init => LongInv
  BY DEF Init, LongInv, Long
<1>2. TypeInv /\ TypeInv' /\ LongInv /\ [Next]_vars => LongInv'
  <2> SUFFICES ASSUME TypeInv, TypeInv', LongInv, [Next]_vars PROVE LongInv'
    OBVIOUS
  <2>1. CASE Edits /\ db' = db
    BY <2>1, EditsLong DEF LongInv, Long
  <2>2. CASE work' \in {work, db} /\ db' \in {work, db}
    BY <2>2 DEF LongInv, Long
  <2> QED
    BY <2>1, <2>2, OtherSteps
<1> QED
  BY <1>1, <1>2, SerialSafe, PTL DEF Spec

-----------------------------------------------------------------------------
(* Pace. What has been delivered is paid for with time that has passed, and *)
(* was passed before the head of the queue starts.                          *)

DeliveredIn(orders) == {n \in 1..Len(orders) : orders[n].state = "delivered"}

Times(orders) == [n \in 1..Len(orders) |-> orders[n].took - Grace]

Built(orders) == SumOf(DeliveredIn(orders), Times(orders))

\* Building time delivered by t, when the Timekeeper has still to be charged
\* extra seconds.
Paced(rows, extra, t) ==
    /\ Built(rows.orders) <= t + (InitialTk - rows.tk) + extra
    /\ rows.queue # << >> =>
         Built(rows.orders) <= rows.queue[1].start + (InitialTk - rows.tk) + extra

Extra == IF phase \in {"deliver", "debit"} THEN owed ELSE 0

Time == IF phase = "idle" THEN clock ELSE now

PaceInv ==
    /\ now <= clock
    /\ Paced(db, 0, Time)
    /\ Paced(work, Extra, Time)
    /\ phase \in {"finish", "refund"} \/ (phase = "reschedule" /\ idx = 1) => at = now

Replaced(orders, other, id, order) == other = [orders EXCEPT ![id] = order]

(* The times of delivered orders can be added up.                          *)
LEMMA BuiltType ==
    ASSUME NEW orders \in Seq(Order)
    PROVE  Integral(DeliveredIn(orders), Times(orders)) /\ Built(orders) \in Int
<1>1. IsFiniteSet(DeliveredIn(orders))
  <2>1. IsFiniteSet(1..Len(orders)) /\ DeliveredIn(orders) \subseteq 1..Len(orders)
    BY FS_Interval DEF DeliveredIn
  <2> QED
    BY <2>1, FS_Subset
<1>2. \A n \in DeliveredIn(orders) : Times(orders)[n] \in Int
  <2>1. ASSUME NEW n \in DeliveredIn(orders) PROVE Times(orders)[n] \in Int
    <3>1. n \in 1..Len(orders)
      BY DEF DeliveredIn
    <3>2. orders[n] \in Order
      BY <3>1
    <3>3. orders[n].took \in Int
      BY <3>2 DEF Order
    <3> QED
      BY <3>1, <3>3, TimesAssumption DEF Times
  <2> QED
    BY <2>1
<1>3. Integral(DeliveredIn(orders), Times(orders))
  BY <1>1, <1>2 DEF Integral
<1> QED
  BY <1>3, SumType DEF Built

(* Orders that are placed or cancelled add no building time.               *)
LEMMA BuiltSame ==
    ASSUME NEW orders \in Seq(Order), NEW other \in Seq(Order),
           DeliveredIn(other) = DeliveredIn(orders),
           \A n \in DeliveredIn(orders) : other[n].took = orders[n].took
    PROVE  Built(other) = Built(orders)
<1>1. Integral(DeliveredIn(orders), Times(orders))
  BY BuiltType
<1>2. \A n \in DeliveredIn(orders) : Times(other)[n] = Times(orders)[n]
  <2>1. ASSUME NEW n \in DeliveredIn(orders) PROVE Times(other)[n] = Times(orders)[n]
    <3>1. n \in 1..Len(orders) /\ n \in 1..Len(other)
      BY DEF DeliveredIn
    <3> QED
      BY <3>1 DEF Times
  <2> QED
    BY <2>1
<1> QED
  BY <1>1, <1>2, SumSame DEF Built

(* A delivered order adds the time its window held the slot, less the due   *)
(* window.                                                                  *)
LEMMA BuiltMore ==
    ASSUME NEW orders \in Seq(Order), NEW id \in 1..Len(orders), NEW order \in Order,
           orders[id].state = "open", order.state = "delivered",
           NEW other \in Seq(Order), Replaced(orders, other, id, order)
    PROVE  Built(other) = Built(orders) + (order.took - Grace)
<1>1. Len(other) = Len(orders)
  BY DEF Replaced
<1>2. other[id] = order
  BY DEF Replaced
<1>3. \A n \in 1..Len(orders) : n # id => other[n] = orders[n]
  BY DEF Replaced
<1> DEFINE S == DeliveredIn(orders)
           T == DeliveredIn(other)
<1>4. id \notin S /\ T = S \cup {id} /\ S \subseteq 1..Len(orders)
  BY <1>1, <1>2, <1>3 DEF DeliveredIn
<1>5. \A n \in S : Times(other)[n] = Times(orders)[n]
  BY <1>1, <1>3, <1>4 DEF Times
<1>6. Times(other)[id] = order.took - Grace /\ order.took - Grace \in Int
  <2>1. order.took \in Int
    BY DEF Order
  <2> QED
    BY <1>1, <1>2, <2>1, TimesAssumption DEF Times
<1>7. Integral(S, Times(orders))
  BY BuiltType
<1> DEFINE f == Times(orders)
           h == Times(other)
<1> HIDE DEF S, T, f, h
<1>8. SumOf(T, h) = SumOf(S, f) + h[id]
  <2>1. Integral(S, f) /\ id \notin S /\ T = S \cup {id}
    BY <1>4, <1>7 DEF f
  <2>2. h[id] \in Int /\ \A n \in S : h[n] = f[n]
    BY <1>5, <1>6 DEF f, h
  <2> QED
    BY <2>1, <2>2, SumAdd
<1> QED
  BY <1>6, <1>8 DEF Built, S, T, f, h

(* Time only helps.                                                        *)
LEMMA PacedLater ==
    ASSUME NEW rows \in Rows, NEW extra \in Int, NEW t \in Int, NEW u \in Int, t <= u,
           Paced(rows, extra, t)
    PROVE  Paced(rows, extra, u)
<1>1. Built(rows.orders) \in Int /\ rows.tk \in Int /\ InitialTk \in Int
  BY BuiltType, RowFacts, LimitsAssumption
<1> QED
  BY <1>1 DEF Paced

(* A due head was paced, so its delivery is.                               *)
LEMMA DeliversPaced ==
    ASSUME NEW r \in Rows, NEW s \in Rows, Loses(r, s, 1), Serial(r.queue), Good(r),
           s.tk = r.tk, NEW extra \in Int, NEW t \in Int, Paced(r, extra, t),
           r.queue[1].finish <= t + Grace,
           s.orders = [r.orders EXCEPT ![r.queue[1].id] =
                        [r.orders[r.queue[1].id] EXCEPT
                           !.state = "delivered",
                           !.took = r.queue[1].finish - r.queue[1].start]]
    PROVE  Paced(s, extra, t)
<1> DEFINE start == r.queue[1].start
           finish == r.queue[1].finish
           id == r.queue[1].id
           took == finish - start
           spent == InitialTk - r.tk
<1>1. /\ Len(r.queue) \in Nat /\ 1 \in 1..Len(r.queue) /\ Len(s.queue) = Len(r.queue) - 1
      /\ r.orders \in Seq(Order) /\ s.orders \in Seq(Order)
      /\ s.queue \in Seq(Job) /\ r.queue \in Seq(Job)
  BY RowFacts DEF Loses
<1>2. start \in Int /\ finish \in Int
  BY <1>1, RowFacts, JobFields
<1>3. spent \in Int /\ Grace \in Int
  BY SMTT(20), RowFacts, LimitsAssumption, TimesAssumption
<1>4. Built(r.orders) \in Int /\ Built(r.orders) <= start + spent + extra
  <2>1. r.queue # << >>
    BY <1>1
  <2> QED
    BY <1>1, <2>1, BuiltType DEF Paced
<1>5. Built(s.orders) = Built(r.orders) + (took - Grace)
  <2>1. id \in 1..Len(r.orders) /\ r.orders[id].state = "open"
    BY <1>1 DEF Good, BooksKept
  <2>2. took \in Int
    BY <1>2
  <2> DEFINE orders == r.orders
             other == s.orders
             order == [orders[id] EXCEPT !.state = "delivered", !.took = took]
  <2>3. Replaced(orders, other, id, order)
    BY DEF Replaced
  <2>4. orders \in Seq(Order) /\ other \in Seq(Order)
        /\ id \in 1..Len(orders) /\ orders[id].state = "open"
    BY <1>1, <2>1
  <2>5. orders[id] \in Order
    BY <2>4
  <2> HIDE DEF id, took, orders, other
  <2>6. order \in Order /\ order.state = "delivered" /\ order.took = took
    BY <2>2, <2>5 DEF Order
  <2> HIDE DEF order
  <2>7. Built(other) = Built(orders) + (order.took - Grace)
    BY <2>3, <2>4, <2>6, BuiltMore
  <2> QED
    BY <2>6, <2>7 DEF orders, other
<1> HIDE DEF start, finish
<1>6. Built(s.orders) <= finish - Grace + spent + extra
  BY <1>2, <1>3, <1>4, <1>5
<1>7. Built(s.orders) \in Int
  BY <1>1, BuiltType
<1>8. Built(s.orders) <= t + spent + extra
  <2>1. finish <= t + Grace
    BY DEF finish
  <2> HIDE DEF spent
  <2> QED
    BY <1>2, <1>3, <1>6, <1>7, <2>1
<1>9. ASSUME s.queue # << >> PROVE Built(s.orders) <= s.queue[1].start + spent + extra
  <2>1. 1 \in 1..(Len(r.queue) - 1) /\ s.queue[1] = r.queue[2] /\ 2 \in 1..Len(r.queue)
    <3>1. Len(s.queue) # 0 /\ Len(s.queue) \in Nat
      BY SMTT(20), <1>1, <1>9
    <3> DEFINE n == Len(r.queue)
    <3>2. n \in Nat /\ n - 1 # 0 /\ n - 1 \in Nat
      BY <1>1, <3>1
    <3> HIDE DEF n
    <3>3. 1 \in 1..(n - 1) /\ 2 \in 1..n
      BY <3>2
    <3> QED
      BY <3>3 DEF n, Loses
  <2>2. finish - Grace <= s.queue[1].start
    BY <2>1 DEF Serial, Follows, finish
  <2>3. s.queue[1].start \in Int
    BY <2>1, RowFacts, JobFields
  <2> HIDE DEF spent
  <2> QED
    BY <1>2, <1>3, <1>6, <1>7, <2>2, <2>3
<1> QED
  BY <1>8, <1>9 DEF Paced

(* Rows whose head starts no earlier keep the pace.                        *)
LEMMA PacedStill ==
    ASSUME NEW r \in Rows, NEW s \in Rows, NEW extra \in Int, NEW t \in Int,
           Paced(r, extra, t), s.tk = r.tk, Built(s.orders) = Built(r.orders),
           s.queue # << >> => \/ t <= s.queue[1].start
                              \/ /\ r.queue # << >>
                                 /\ r.queue[1].start <= s.queue[1].start
    PROVE  Paced(s, extra, t)
<1>1. Built(r.orders) \in Int /\ r.tk \in Int /\ InitialTk \in Int
  BY BuiltType, RowFacts, LimitsAssumption
<1>2. ASSUME r.queue # << >> PROVE r.queue[1].start \in Int
  <2>1. 1 \in 1..Len(r.queue)
    BY <1>2, RowFacts
  <2> QED
    BY <2>1, RowFacts, JobFields
<1>3. ASSUME s.queue # << >> PROVE s.queue[1].start \in Int
  <2>1. 1 \in 1..Len(s.queue)
    BY <1>3, RowFacts
  <2> QED
    BY <2>1, RowFacts, JobFields
<1> QED
  BY SMTT(20), <1>1, <1>2, <1>3 DEF Paced

(* A row that leaves the queue undelivered, in front or in the middle,      *)
(* keeps the pace: the row behind it starts no earlier.                     *)
LEMMA LeavesPaced ==
    ASSUME NEW r \in Rows, NEW s \in Rows, NEW k \in Nat, Loses(r, s, k),
           Serial(r.queue), Long(r), Good(r), s.tk = r.tk,
           NEW extra \in Int, NEW t \in Int, Paced(r, extra, t),
           NEW order, s.orders = [r.orders EXCEPT ![r.queue[k].id] = order],
           r.orders[r.queue[k].id] \in Order => order.state # "delivered"
    PROVE  Paced(s, extra, t)
<1> DEFINE id == r.queue[k].id
<1>1. /\ Len(r.queue) \in Nat /\ Len(s.queue) \in Nat /\ k \in 1..Len(r.queue)
      /\ r.orders \in Seq(Order) /\ s.orders \in Seq(Order)
      /\ r.queue \in Seq(Job) /\ s.queue \in Seq(Job)
  BY RowFacts DEF Loses
<1>2. Built(s.orders) = Built(r.orders)
  <2>1. id \in 1..Len(r.orders) /\ r.orders[id].state = "open"
    BY <1>1 DEF Good, BooksKept
  <2>2. /\ Len(s.orders) = Len(r.orders)
        /\ \A n \in 1..Len(r.orders) : n # id => s.orders[n] = r.orders[n]
    BY DEF Loses
  <2>3. s.orders[id].state # "delivered"
    <3>1. r.orders[id] \in Order
      BY <1>1, <2>1
    <3>2. s.orders[id] = order
      BY <1>1, <2>1
    <3> QED
      BY <3>1, <3>2
  <2>4. DeliveredIn(s.orders) = DeliveredIn(r.orders)
    BY <2>1, <2>2, <2>3 DEF DeliveredIn
  <2>5. \A n \in DeliveredIn(r.orders) : s.orders[n].took = r.orders[n].took
    BY <2>1, <2>2 DEF DeliveredIn
  <2> QED
    BY <1>1, <2>4, <2>5, BuiltSame
<1>3. ASSUME s.queue # << >>
      PROVE  r.queue # << >> /\ r.queue[1].start <= s.queue[1].start
  <2>1. 1 \in 1..(Len(r.queue) - 1) /\ 1 \in 1..Len(r.queue) /\ 2 \in 1..Len(r.queue)
    <3> DEFINE n == Len(r.queue)
    <3>1. n \in Nat /\ n - 1 # 0 /\ n - 1 \in Nat
      <4>1. Len(s.queue) = n - 1
        BY DEF Loses
      <4>2. Len(s.queue) # 0
        BY <1>1, <1>3
      <4> QED
        BY <1>1, <4>1, <4>2
    <3> HIDE DEF n
    <3>2. 1 \in 1..(n - 1) /\ 1 \in 1..n /\ 2 \in 1..n
      BY <3>1
    <3> QED
      BY <3>2 DEF n
  <2>2. s.queue[1] = IF 1 < k THEN r.queue[1] ELSE r.queue[2]
    BY <2>1 DEF Loses
  <2>3. r.queue[1] \in Job /\ r.queue[2] \in Job
    BY <2>1, RowFacts
  <2>4. /\ r.queue[1].start \in Int /\ r.queue[1].finish \in Int
        /\ r.queue[2].start \in Int
    BY <2>3, JobFields
  <2>5. Took(r.queue[1]) >= Floor
    BY <2>1 DEF Long
  <2>6. r.queue[1].finish - Grace <= r.queue[2].start
    BY <2>1 DEF Serial, Follows
  <2>7. r.queue[1].start <= r.queue[2].start
    BY SMTT(20), <2>4, <2>5, <2>6, TimesAssumption DEF Took
  <2>8. r.queue # << >>
    BY <2>1
  <2> QED
    BY <2>2, <2>4, <2>7, <2>8
<1> QED
  BY SMTT(20), <1>2, <1>3, PacedStill

(* A row set whose jobs start e seconds earlier because the Timekeeper     *)
(* owes them e seconds more is as paced as before.                         *)
LEMMA PacedMoves ==
    ASSUME NEW r, NEW r2, NEW e \in Nat, NEW t \in Int, NEW t2 \in Int, t <= t2,
           r.tk \in Int, InitialTk \in Int, Built(r.orders) \in Int,
           Built(r2.orders) = Built(r.orders), r2.tk = r.tk, Paced(r, 0, t),
           r2.queue # << >> =>
             /\ Built(r.orders) <= r.queue[1].start + (InitialTk - r.tk) + 0
             /\ r.queue[1].start \in Int
             /\ r2.queue[1].start = r.queue[1].start - e
    PROVE  Paced(r2, e, t2)
<1>1. ASSUME NEW b \in Int, NEW s \in Int, NEW k \in Int, b <= s + (InitialTk - k) + 0
      PROVE  b <= (s - e) + (InitialTk - k) + e
  BY <1>1
<1>2. ASSUME NEW b \in Int, NEW k \in Int, b <= t + (InitialTk - k) + 0
      PROVE  b <= t2 + (InitialTk - k) + e
  BY <1>2
<1>3. Built(r.orders) <= t + (InitialTk - r.tk) + 0
  BY DEF Paced
<1>4. Built(r2.orders) <= t2 + (InitialTk - r2.tk) + e
  BY <1>2, <1>3
<1>5. r2.queue # << >> => Built(r2.orders) <= r2.queue[1].start + (InitialTk - r2.tk) + e
  BY <1>1
<1> QED
  BY <1>4, <1>5 DEF Paced

(* Charging the seconds owed to the Timekeeper keeps the pace.             *)
LEMMA PacedPays ==
    ASSUME NEW r, NEW r2, NEW e \in Int, NEW t \in Int,
           r.tk \in Int, InitialTk \in Int, Built(r.orders) \in Int,
           Built(r2.orders) = Built(r.orders), r2.tk = r.tk - e, Paced(r, e, t),
           r2.queue # << >> =>
             /\ r.queue # << >> /\ r.queue[1].start \in Int
             /\ r2.queue[1].start = r.queue[1].start
    PROVE  Paced(r2, 0, t)
<1>1. ASSUME NEW b \in Int, NEW s \in Int, NEW k \in Int, b <= s + (InitialTk - k) + e
      PROVE  b <= s + (InitialTk - (k - e)) + 0
  BY <1>1
<1>2. Built(r2.orders) <= t + (InitialTk - r2.tk) + 0
  BY <1>1 DEF Paced
<1>3. r2.queue # << >> => Built(r2.orders) <= r2.queue[1].start + (InitialTk - r2.tk) + 0
  BY <1>1 DEF Paced
<1> QED
  BY <1>2, <1>3 DEF Paced

(* Every edit keeps the pace.                                              *)
LEMMA EditsPaced ==
    ASSUME TypeInv, TypeInv', SerialInv, Good(work), LongInv, PaceInv, Edits
    PROVE  Paced(work', Extra', Time')
<1>1. /\ work \in Rows /\ work' \in Rows /\ now \in Int /\ clock \in Int
      /\ owed \in Int /\ owed' \in Int /\ now <= clock
  BY DEF TypeInv, TypeOK, PaceInv
<1>2. /\ Len(work.queue) \in Nat /\ Len(work'.queue) \in Nat
      /\ work.orders \in Seq(Order) /\ work'.orders \in Seq(Order)
      /\ work.queue \in Seq(Job) /\ work'.queue \in Seq(Job)
  BY <1>1, RowFacts
<1>3. Extra \in Int
  BY <1>1 DEF Extra
<1>4. CASE FinishHead
  <2>1. /\ Loses(work, work', 1) /\ work'.tk = work.tk
        /\ work'.orders = [work.orders EXCEPT ![work.queue[1].id] =
             [work.orders[work.queue[1].id] EXCEPT
                !.state = "delivered",
                !.took = work.queue[1].finish - work.queue[1].start]]
    BY <1>4, FinishHeadRows
  <2>2. /\ phase \in {"finish", "deliver"} /\ phase' = phase /\ now' = now /\ owed' = owed
        /\ work.queue[1].finish <= now + Grace
    BY <1>4 DEF FinishHead, HeadIsDue, DueCutoff
  <2>3. Time = now /\ Time' = now /\ Extra' = Extra
    BY <2>2 DEF Time, Extra
  <2>4. Serial(work.queue)
    BY <2>2 DEF SerialInv
  <2>5. Paced(work, Extra, now)
    BY <2>3 DEF PaceInv
  <2>6. Paced(work', Extra, now)
    BY <1>1, <1>3, <2>1, <2>2, <2>4, <2>5, DeliversPaced
  <2> QED
    BY <2>3, <2>6
<1>5. CASE CancelJob
  <2>1. PICK k \in 1..Len(work.queue) :
          /\ work.queue[k].id = req.job
          /\ Loses(work, work', k) /\ work'.tk = work.tk
          /\ work'.orders = [work.orders EXCEPT ![req.job] =
               [work.orders[req.job] EXCEPT !.back = Refund(work.queue[k], now),
                                            !.state = "cancelled"]]
    BY <1>5, CancelRows
  <2>2. phase = "refund" /\ phase' = "reschedule" /\ now' = now
    BY <1>5 DEF CancelJob
  <2>3. Time = now /\ Time' = now /\ Extra' = 0 /\ Extra = 0
    BY <2>2 DEF Time, Extra
  <2>4. Paced(work, 0, now) /\ Serial(work.queue) /\ Long(work)
    BY <2>2, <2>3 DEF PaceInv, SerialInv, LongInv
  <2> DEFINE id == work.queue[k].id
             back == Refund(work.queue[k], now)
             order == [work.orders[id] EXCEPT !.back = back, !.state = "cancelled"]
  <2>5. work'.orders = [work.orders EXCEPT ![id] = order]
    BY <2>1
  <2>6. ASSUME work.orders[id] \in Order PROVE order.state # "delivered"
    BY <2>6 DEF Order
  <2>7. k \in Nat
    BY <1>2, <2>1
  <2> HIDE DEF order, back
  <2>8. Loses(work, work', k) /\ work'.tk = work.tk
    BY <2>1
  <2>9. Paced(work', 0, now)
    BY <1>1, <2>4, <2>5, <2>6, <2>7, <2>8, LeavesPaced, SMTT(40)
  <2> QED
    BY <2>3, <2>9
<1>10. CASE FinishLosesHead
  <2>1. /\ Loses(work, work', 1) /\ work'.tk = work.tk
        /\ work'.orders = [work.orders EXCEPT ![work.queue[1].id] =
             [work.orders[work.queue[1].id] EXCEPT !.state = "lost"]]
    BY <1>10, LosesHeadRows
  <2>2. phase = "finish" /\ phase' = AfterFinish /\ now' = now
    BY <1>10 DEF FinishLosesHead
  <2>3. phase' \in {"reschedule", "refund", "shift", "commit"}
    BY <2>2 DEF AfterFinish
  <2>4. Time = now /\ Time' = now /\ Extra' = 0 /\ Extra = 0
    BY <2>2, <2>3 DEF Time, Extra
  <2>5. Paced(work, 0, now) /\ Serial(work.queue) /\ Long(work)
    BY <2>2, <2>4 DEF PaceInv, SerialInv, LongInv
  <2> DEFINE id == work.queue[1].id
             order == [work.orders[id] EXCEPT !.state = "lost"]
  <2>6. work'.orders = [work.orders EXCEPT ![id] = order]
    BY <2>1
  <2>7. ASSUME work.orders[id] \in Order PROVE order.state # "delivered"
    BY <2>7 DEF Order
  <2> HIDE DEF order
  <2>8. Paced(work', 0, now)
    BY <1>1, <2>1, <2>5, <2>6, <2>7, LeavesPaced
  <2> QED
    BY <2>4, <2>8
<1>6. CASE RescheduleRow
  <2>1. /\ Retimes(work, work') /\ work'.tk = work.tk /\ idx \in 1..Len(work.queue)
        /\ work'.queue[idx].start = at
        /\ \A i \in 1..Len(work.queue) : i # idx => work'.queue[i] = work.queue[i]
    BY <1>6, RescheduleRowRows
  <2>2. phase = "reschedule" /\ phase' = "reschedule" /\ now' = now
    BY <1>6 DEF RescheduleRow
  <2>3. Time = now /\ Time' = now /\ Extra' = 0 /\ Extra = 0
    BY <2>2 DEF Time, Extra
  <2>4. Paced(work, 0, now) /\ Built(work'.orders) = Built(work.orders)
    BY <2>1, <2>3 DEF PaceInv, Retimes
  <2>5. work.queue # << >> /\ 1 \in 1..Len(work.queue)
    BY <1>2, <2>1
  <2>6. now <= work'.queue[1].start \/ work.queue[1].start <= work'.queue[1].start
    <3>1. CASE idx = 1
      BY <1>1, <2>1, <2>2, <3>1 DEF PaceInv
    <3>2. CASE idx # 1
      <4>1. work'.queue[1] = work.queue[1] /\ work.queue[1].start \in Int
        BY <1>1, <2>1, <2>5, <3>2, RowFacts, JobFields
      <4> QED
        BY <4>1
    <3> QED
      BY <3>1, <3>2
  <2>7. Paced(work', 0, now)
    BY <1>1, <2>1, <2>4, <2>5, <2>6, PacedStill
  <2> QED
    BY <2>3, <2>7
<1>7. CASE PlaceOrder
  <2>1. PICK job \in Job, order \in Order :
          Gains(work, work', job, order) /\ job.start = PlacedStart /\ order.state = "open"
    <3> DEFINE job == [id |-> Len(work.orders) + 1, building |-> req.building,
                       start |-> PlacedStart, finish |-> PlacedStart + PlacedLength,
                       cost |-> CostOf(req.building, NextTarget)]
               order == [building |-> req.building,
                         paid |-> CostOf(req.building, NextTarget), back |-> 0,
                         took |-> 0, state |-> "open"]
    <3>1. job \in Job /\ order \in Order /\ Gains(work, work', job, order)
      BY <1>7, PlaceRows
    <3>2. job.start = PlacedStart /\ order.state = "open"
      OBVIOUS
    <3> HIDE DEF job, order
    <3> QED
      BY <3>1, <3>2
  <2>2. work'.tk = work.tk
    BY <1>7, PlaceRows
  <2>3. phase = "place" /\ phase' = "place" /\ now' = now
    BY <1>7 DEF PlaceOrder
  <2>4. Time = now /\ Time' = now /\ Extra' = 0 /\ Extra = 0
    BY <2>3 DEF Time, Extra
  <2>5. Built(work'.orders) = Built(work.orders)
    <3>1. PICK m \in Nat : m = Len(work.orders)
      BY <1>1, RowFacts
    <3>2. /\ Len(work'.orders) = m + 1 /\ work'.orders[m + 1] = order
          /\ \A n \in 1..m : work'.orders[n] = work.orders[n]
      BY <1>2, <2>1, <3>1 DEF Gains
    <3>3. DeliveredIn(work'.orders) = DeliveredIn(work.orders)
      <4>1. 1..(m + 1) = (1..m) \cup {m + 1}
        OBVIOUS
      <4>2. work'.orders[m + 1].state # "delivered"
        BY <2>1, <3>2
      <4> QED
        BY <3>1, <3>2, <4>1, <4>2 DEF DeliveredIn
    <3>4. \A n \in DeliveredIn(work.orders) : work'.orders[n].took = work.orders[n].took
      BY <3>1, <3>2 DEF DeliveredIn
    <3> QED
      BY <1>2, <3>3, <3>4, BuiltSame
  <2>6. \/ now <= work'.queue[1].start
        \/ /\ work.queue # << >>
           /\ work.queue[1].start <= work'.queue[1].start
    <3>1. CASE work.queue = << >>
      <4>1. work'.queue[1] = job /\ PlacedStart = now
        BY <2>1, <3>1 DEF Gains, PlacedStart
      <4> QED
        BY <1>1, <2>1, <4>1
    <3>2. CASE work.queue # << >>
      <4>1. 1 \in 1..Len(work.queue)
        BY <1>2, <3>2
      <4>2. work'.queue[1] = work.queue[1] /\ work.queue[1].start \in Int
        BY <1>1, <1>2, <2>1, <4>1, RowFacts, JobFields DEF Gains
      <4> QED
        BY <3>2, <4>2
    <3> QED
      BY <3>1, <3>2
  <2>7. Paced(work, 0, now)
    BY <2>4 DEF PaceInv
  <2>8. Paced(work', 0, now)
    BY <1>1, <2>2, <2>5, <2>6, <2>7, PacedStill
  <2> QED
    BY <2>4, <2>8
<1>8. CASE ShiftQueue
  <2>1. /\ Retimes(work, work') /\ work'.tk = work.tk /\ owed' \in Nat
        /\ \A i \in 1..Len(work.queue) : work'.queue[i].start = work.queue[i].start - owed'
    BY <1>8, ShiftRows
  <2>2. phase = "shift" /\ phase' \in {"deliver", "debit"} /\ now' = clock
    BY <1>8 DEF ShiftQueue
  <2>3. Time = now /\ Time' = clock /\ Extra' = owed' /\ Extra = 0
    BY <2>2 DEF Time, Extra
  <2>4. Paced(work, 0, now) /\ Built(work'.orders) = Built(work.orders)
    BY <2>1, <2>3 DEF PaceInv, Retimes
  <2>5. Built(work.orders) \in Int /\ work.tk \in Int /\ InitialTk \in Int
    BY <1>1, <1>2, BuiltType, RowFacts, LimitsAssumption
  <2>6. ASSUME work'.queue # << >>
        PROVE  /\ Built(work.orders) <= work.queue[1].start + (InitialTk - work.tk) + 0
               /\ work.queue[1].start \in Int
               /\ work'.queue[1].start = work.queue[1].start - owed'
    <3>1. 1 \in 1..Len(work.queue) /\ work.queue # << >>
      BY <1>2, <2>1, <2>6 DEF Retimes
    <3>2. work.queue[1].start \in Int
      BY <1>1, <3>1, RowFacts, JobFields
    <3> QED
      BY <2>1, <2>4, <3>1, <3>2 DEF Paced
  <2>7. work'.tk = work.tk /\ now \in Int /\ clock \in Int /\ owed' \in Nat /\ now <= clock
    BY <1>1, <2>1
  <2>8. work'.queue # << >> =>
          /\ Built(work.orders) <= work.queue[1].start + (InitialTk - work.tk) + 0
          /\ work.queue[1].start \in Int
          /\ work'.queue[1].start = work.queue[1].start - owed'
    BY <2>6
  <2>9. Paced(work', owed', clock)
    BY ONLY <2>4, <2>5, <2>7, <2>8, PacedMoves
  <2> QED
    BY <2>3, <2>9
<1>9. CASE Debit
  <2>1. Retimes(work, work') /\ work'.queue = work.queue /\ work'.tk = work.tk - owed
    BY <1>9, DebitRows
  <2>2. phase = "debit" /\ phase' = "commit" /\ now' = now
    BY <1>9 DEF Debit
  <2>3. Time = now /\ Time' = now /\ Extra' = 0 /\ Extra = owed
    BY <2>2 DEF Time, Extra
  <2>4. Paced(work, owed, now) /\ Built(work'.orders) = Built(work.orders)
    BY <2>1, <2>3 DEF PaceInv, Retimes
  <2>5. Built(work.orders) \in Int /\ work.tk \in Int /\ InitialTk \in Int
    BY <1>1, <1>2, BuiltType, RowFacts, LimitsAssumption
  <2>6. ASSUME work.queue # << >> PROVE work.queue[1].start \in Int
    <3>1. 1 \in 1..Len(work.queue)
      BY <1>2, <2>6
    <3> QED
      BY <1>1, <3>1, RowFacts, JobFields
  <2>7. owed \in Int /\ now \in Int
    BY <1>1
  <2>8. work'.queue # << >> =>
          /\ work.queue # << >> /\ work.queue[1].start \in Int
          /\ work'.queue[1].start = work.queue[1].start
    BY <2>1, <2>6
  <2>9. Paced(work', 0, now)
    BY ONLY <2>1, <2>4, <2>5, <2>7, <2>8, PacedPays
  <2> QED
    BY <2>3, <2>9
<1> QED
  BY <1>4, <1>5, <1>6, <1>7, <1>8, <1>9, <1>10 DEF Edits

(* A transaction that ends without a commit.                               *)
LEMMA ClosePaced ==
    ASSUME TypeInv, PaceInv, NEW rows \in Rows, Close(rows), clock' = clock, db' = rows,
           Paced(rows, 0, Time)
    PROVE  PaceInv'
<1>1. now \in Nat /\ clock \in Nat /\ now <= clock
  BY DEF TypeInv, TypeOK, PaceInv
<1>2. phase' = "idle" /\ now' = 0 /\ work' = rows
  BY DEF Close
<1>3. Time \in Int /\ Time <= clock /\ Time' = clock /\ Extra' = 0
  BY <1>1, <1>2 DEF Time, Extra
<1>4. Paced(rows, 0, clock)
  BY <1>1, <1>3, PacedLater
<1>5. 0 <= clock' /\ now' <= clock'
  BY <1>1, <1>2
<1>6. Paced(db, 0, Time)' /\ Paced(work, Extra, Time)'
  BY <1>2, <1>3, <1>4
<1> QED
  BY <1>2, <1>5, <1>6 DEF PaceInv

(* A request that is admitted or opened builds nothing. *)
LEMMA RequestsPaced ==
    ASSUME TypeInv, PaceInv, SerialInv, Requests
    PROVE  PaceInv'
<1>1. clock' = clock /\ db' = db
  BY DEF Requests, AdmitEnqueue, BeginEnqueue, BeginCancel, BeginFinish, BeginBoost,
         BeginVacation, VacationCheck, VacationEnable, VacationDisable
<1>2. UNCHANGED txVars \/ \E r : Open(r)
  BY DEF Requests, AdmitEnqueue, BeginEnqueue, BeginCancel, BeginFinish, BeginBoost,
         BeginVacation, VacationCheck, VacationEnable, VacationDisable
<1>3. CASE UNCHANGED txVars
  BY <1>1, <1>3 DEF txVars, PaceInv, Time, Extra
<1>4. CASE \E r : Open(r)
  <2>1. /\ phase = "idle" /\ phase' = "finish" /\ now' = clock /\ at' = clock
        /\ work' = work /\ clock \in Nat
    BY <1>4 DEF Open, TypeInv, TypeOK
  <2>2. Time = clock /\ Time' = clock /\ Extra = 0 /\ Extra' = 0
    BY <2>1 DEF Time, Extra
  <2>3. Paced(db, 0, Time)' /\ Paced(work, Extra, Time)'
    BY <1>1, <2>1, <2>2 DEF PaceInv
  <2> QED
    BY <1>1, <2>1, <2>3 DEF PaceInv
<1> QED
  BY <1>2, <1>3, <1>4

(* Every step delivers no more than the clock allows. *)
LEMMA StepPace ==
    ASSUME TypeInv, TypeInv', SerialInv, RowsInv, LongInv, PaceInv, [Next]_vars
    PROVE  PaceInv'
<1>1. /\ now \in Nat /\ clock \in Nat /\ now <= clock /\ Time \in Int
      /\ db \in Rows /\ work \in Rows
      /\ Paced(db, 0, Time) /\ Paced(work, Extra, Time)
      /\ phase \in {"finish", "refund"} \/ (phase = "reschedule" /\ idx = 1) => at = now
  BY DEF TypeInv, TypeOK, PaceInv, Time
<1>2. CASE UNCHANGED vars
  BY <1>2 DEF vars, PaceInv, Time, Extra
<1>3. CASE Tick
  <2>1. clock' = clock + 1 /\ db' = db /\ UNCHANGED txVars
    BY <1>3 DEF Tick
  <2>2. /\ now' = now /\ at' = at /\ phase' = phase /\ idx' = idx /\ work' = work
        /\ Extra' = Extra
    BY <2>1 DEF txVars, Extra
  <2>3. Time <= Time' /\ Time' \in Int /\ now' <= clock'
    BY <1>1, <2>1, <2>2 DEF Time
  <2>4. Extra \in Int
    BY DEF Extra, TypeInv, TypeOK
  <2>5. Paced(db, 0, Time') /\ Paced(work, Extra, Time')
    BY <1>1, <2>3, <2>4, PacedLater
  <2> QED
    BY <1>1, <2>1, <2>2, <2>3, <2>5 DEF PaceInv
<1>4. CASE Requests
  BY <1>4, RequestsPaced
<1>5. CASE Abort
  <2>1. Close(db) /\ clock' = clock /\ db' = db
    BY <1>5 DEF Abort
  <2> QED
    BY <1>1, <2>1, ClosePaced
<1>6. CASE Transaction
  <2>1. CASE Edits
    <3>1. db' = db /\ clock' = clock
      BY <2>1 DEF Edits, FinishHead, FinishLosesHead, RescheduleRow, PlaceOrder, CancelJob,
           ShiftQueue, Debit
    <3>2. phase # "idle" /\ phase' # "idle" /\ (now' = now \/ now' = clock)
      BY <2>1 DEF Edits, FinishHead, FinishLosesHead, AfterFinish, RescheduleRow, PlaceOrder,
           CancelJob, ShiftQueue, Debit
    <3>3. Time <= Time' /\ Time' \in Int /\ now' <= clock'
      BY <1>1, <3>1, <3>2 DEF Time
    <3>4. Paced(db, 0, Time')
      BY <1>1, <3>3, PacedLater
    <3>5. Paced(work', Extra', Time')
      BY <2>1, EditsPaced DEF RowsInv
    <3>6. phase' \in {"finish", "refund"} \/ (phase' = "reschedule" /\ idx' = 1)
            => at' = now'
      <4>1. CASE FinishHead \/ FinishLosesHead \/ PlaceOrder \/ ShiftQueue \/ Debit
        BY <1>1, <4>1 DEF FinishHead, FinishLosesHead, PlaceOrder, ShiftQueue, Debit
      <4>2. CASE CancelJob
        BY <1>1, <4>2 DEF CancelJob
      <4>3. CASE RescheduleRow
        <5>1. phase' = "reschedule" /\ idx' = idx + 1 /\ idx \in Nat \ {0}
          BY <4>3 DEF RescheduleRow, TypeInv, TypeOK
        <5> QED
          BY <5>1
      <4> QED
        BY <2>1, <4>1, <4>2, <4>3 DEF Edits
    <3> QED
      BY <3>1, <3>3, <3>4, <3>5, <3>6 DEF PaceInv
  <2>2. CASE FinishEnd \/ FinishFails
    <3>1. /\ phase \in {"finish", "deliver"} /\ phase' = AfterFinish
          /\ now' = now /\ clock' = clock /\ at' = at /\ idx' = idx /\ db' = db
          /\ owed' = owed /\ work' \in {work, db} /\ (phase = "deliver" => work' = work)
      BY <2>2 DEF FinishEnd, FinishFails
    <3>2. phase' \in {"debit", "reschedule", "refund", "shift", "commit"}
          /\ (phase' = "debit" <=> phase = "deliver")
      <4>1. phase = "deliver" => AfterFinish = "debit"
        BY DEF AfterFinish
      <4>2. phase # "deliver" => AfterFinish \in {"reschedule", "refund", "shift", "commit"}
        BY DEF AfterFinish
      <4> QED
        BY <3>1, <4>1, <4>2
    <3>3. Time' = Time /\ Extra' = Extra
      BY <3>1, <3>2 DEF Time, Extra
    <3>4. phase = "finish" => Extra = 0
      BY DEF Extra
    <3>5. Paced(work', Extra, Time)
      BY <1>1, <3>1, <3>4
    <3>6. phase' \in {"refund", "reschedule"} => at' = now'
      BY <1>1, <3>1, <3>2
    <3>7. Paced(db, 0, Time)' /\ Paced(work, Extra, Time)' /\ now' <= clock'
      BY <1>1, <3>1, <3>3, <3>5
    <3> QED
      BY <3>2, <3>6, <3>7 DEF PaceInv
  <2>3. CASE KeepHead \/ RescheduleEnd \/ PlaceEnd
    <3>1. /\ now' = now /\ clock' = clock /\ work' = work /\ db' = db
          /\ phase \in {"reschedule", "place"}
          /\ \/ phase' \in {"place", "commit"}
             \/ phase' = "reschedule" /\ idx' = 2
      BY <2>3 DEF KeepHead, KeepsWindow, RescheduleEnd, PlaceEnd
    <3>2. Time' = Time /\ Extra' = 0 /\ Extra = 0
      BY <3>1 DEF Time, Extra
    <3>3. Paced(db, 0, Time)' /\ Paced(work, Extra, Time)' /\ now' <= clock'
      BY <1>1, <3>1, <3>2
    <3> QED
      BY <3>1, <3>3 DEF PaceInv
  <2>4. CASE RejectEnqueue \/ CancelNotFound \/ NothingToBoost
    <3>1. Close(db) /\ clock' = clock /\ db' = db
      BY <2>4 DEF RejectEnqueue, CancelNotFound, NothingToBoost, accountVars
    <3> QED
      BY <1>1, <3>1, ClosePaced
  <2>5. CASE Commit
    <3>1. Close(work) /\ clock' = clock /\ db' = work /\ phase = "commit"
      BY <2>5 DEF Commit
    <3>2. Paced(work, 0, Time)
      BY <1>1, <3>1 DEF Extra
    <3> QED
      BY <1>1, <3>1, <3>2, ClosePaced
  <2> QED
    BY <1>6, <2>1, <2>2, <2>3, <2>4, <2>5 DEF Transaction, FinishPass, Edits
<1> QED
  BY <1>2, <1>3, <1>4, <1>5, <1>6 DEF Next

(* Nothing is delivered at the start. *)
LEMMA InitPace == Init => PaceInv
<1> SUFFICES ASSUME Init PROVE PaceInv
  OBVIOUS
<1>1. /\ db.queue = << >> /\ db.orders = << >> /\ db.tk = InitialTk /\ work = db
      /\ clock = 0 /\ now = 0 /\ phase = "idle"
  BY DEF Init
<1>2. DeliveredIn(db.orders) = {}
  BY <1>1 DEF DeliveredIn
<1>3. Built(db.orders) = 0
  BY <1>2, SumEmpty DEF Built
<1>4. Time = 0 /\ Extra = 0
  BY <1>1 DEF Time, Extra
<1>5. Paced(db, 0, 0)
  BY <1>1, <1>3, LimitsAssumption DEF Paced
<1> QED
  BY <1>1, <1>4, <1>5 DEF PaceInv

(* The slot delivers no more building time than has passed, beyond the      *)
(* seconds the Timekeeper was charged for and one due window per job: no    *)
(* sequence of reschedules, cancels and boosts builds faster than that.     *)
THEOREM NoFasterThanTime == Spec => []SlotThroughput
<1>1. Spec => []PaceInv
  <2>1. /\ TypeInv /\ TypeInv' /\ SerialInv /\ RowsInv /\ LongInv /\ PaceInv /\ [Next]_vars
        => PaceInv'
    BY StepPace
  <2> QED
    BY <2>1, InitPace, SerialSafe, LongSafe, PTL DEF Spec
<1>2. TypeInv /\ PaceInv => SlotThroughput
  <2> SUFFICES ASSUME TypeInv, PaceInv PROVE SlotThroughput
    OBVIOUS
  <2>1. db \in Rows /\ clock \in Int /\ Time \in Int /\ Time <= clock
    BY DEF TypeInv, TypeOK, PaceInv, Time
  <2>2. Paced(db, 0, clock)
    BY <2>1, PacedLater DEF PaceInv
  <2>3. Built(db.orders) \in Int /\ db.tk \in Int /\ InitialTk \in Int
    BY <2>1, BuiltType, RowFacts, LimitsAssumption
  <2>4. Built(db.orders) <= clock + (InitialTk - db.tk)
    BY <2>1, <2>2, <2>3 DEF Paced
  <2>5. Built(db.orders) = SumOver(OrdersIn("delivered"),
                                   [i \in 1..Len(db.orders) |-> db.orders[i].took - Grace])
    BY DEF Built, SumOf, SumOver, DeliveredIn, Times, OrdersIn
  <2> QED
    BY <2>4, <2>5 DEF SlotThroughput
<1> QED
  BY <1>1, <1>2, SerialSafe, PTL

-----------------------------------------------------------------------------
(* Vacation. With one writer the flag cannot change under an open           *)
(* transaction, so a finish pass that is not frozen began, and commits,     *)
(* while the account is not on vacation.                                    *)

FrozenInv ==
    /\ phase = "idle" => work = db
    /\ phase # "idle" => frozen = vacation
    /\ frozen => work.level = db.level

(* On SQLite every step keeps the freeze, and delivers nothing under it. *)
LEMMA StepFrozen ==
    ASSUME ~Postgres, TypeInv, FrozenInv, [Next]_vars
    PROVE  FrozenInv' /\ (vacation /\ vacation' => db'.level = db.level)
<1>1. work \in Rows /\ frozen \in BOOLEAN /\ vacation \in BOOLEAN
  BY DEF TypeInv, TypeOK
<1>2. CASE UNCHANGED vars
  BY <1>2 DEF vars, FrozenInv
<1>3. CASE Tick
  BY <1>3 DEF Tick, accountVars, txVars, FrozenInv
<1>4. CASE Requests
  <2>1. db' = db
    BY <1>4 DEF Requests, AdmitEnqueue, BeginEnqueue, BeginCancel, BeginFinish, BeginBoost,
                BeginVacation, VacationCheck, VacationEnable, VacationDisable
  <2>2. CASE vacation' = vacation /\ (UNCHANGED txVars \/ \E r : Open(r))
    BY <2>1, <2>2 DEF Open, txVars, FrozenInv
  <2>3. CASE VacationEnable \/ VacationDisable
    <3>1. phase = "idle" /\ UNCHANGED txVars
      BY <2>3 DEF VacationEnable, VacationDisable, PlayerRowFree
    <3> QED
      BY <2>1, <3>1 DEF txVars, FrozenInv
  <2> QED
    BY <1>4, <2>2, <2>3
       DEF Requests, AdmitEnqueue, BeginEnqueue, BeginCancel, BeginFinish, BeginBoost,
           BeginVacation, VacationCheck, accountVars
<1>5. CASE Abort \/ RejectEnqueue \/ CancelNotFound \/ NothingToBoost
  BY <1>5 DEF Abort, RejectEnqueue, CancelNotFound, NothingToBoost, Close, FrozenInv
<1>6. CASE Commit
  BY <1>6 DEF Commit, Close, FrozenInv
<1>7. CASE FinishHead
  BY <1>7 DEF FinishHead, accountVars, FrozenInv
<1>8. CASE FinishEnd \/ FinishFails \/ FinishLosesHead
  <2>1. /\ phase' = AfterFinish /\ AfterFinish # "idle" /\ db' = db
        /\ frozen' = frozen /\ vacation' = vacation /\ phase # "idle"
    BY <1>8 DEF FinishEnd, FinishFails, FinishLosesHead, AfterFinish, accountVars
  <2>2. work'.level = work.level
    BY <1>8, LosesHeadRows DEF FinishEnd, FinishFails
  <2> QED
    BY <2>1, <2>2 DEF FrozenInv
<1>9. CASE KeepHead \/ RescheduleEnd \/ PlaceEnd
  BY <1>9 DEF KeepHead, RescheduleEnd, PlaceEnd, accountVars, FrozenInv
<1>10. CASE RescheduleRow \/ PlaceOrder \/ CancelJob \/ ShiftQueue \/ Debit
  <2>1. work'.level = work.level
    <3>1. CASE RescheduleRow \/ ShiftQueue \/ Debit
      BY <3>1, RescheduleRowRows, ShiftRows, DebitRows DEF Retimes
    <3>2. CASE PlaceOrder
      BY <3>2, PlaceRows DEF Gains
    <3>3. CASE CancelJob
      BY <3>3, CancelRows
    <3> QED
      BY <1>10, <3>1, <3>2, <3>3
  <2>2. /\ db' = db /\ vacation' = vacation /\ phase # "idle" /\ phase' # "idle"
        /\ (frozen' = frozen \/ frozen' = vacation)
    BY <1>10 DEF RescheduleRow, PlaceOrder, CancelJob, ShiftQueue, Debit, accountVars
  <2> QED
    BY <2>1, <2>2 DEF FrozenInv
<1> QED
  BY <1>2, <1>3, <1>4, <1>5, <1>6, <1>7, <1>8, <1>9, <1>10 DEF Next, Transaction, FinishPass

(* On SQLite a planet of an account on vacation delivers nothing, although  *)
(* vacation begins while orders are open and between the steps of requests. *)
THEOREM SqliteFrozenOnVacation ==
    ASSUME ~Postgres
    PROVE  Spec => FrozenOnVacation
<1>1. Init => FrozenInv
  BY DEF Init, FrozenInv
<1>2. TypeInv /\ FrozenInv /\ [Next]_vars => FrozenInv'
  BY StepFrozen
<1>3. TypeInv /\ FrozenInv /\ [Next]_vars =>
        [vacation /\ vacation' => db'.level = db.level]_vars
  BY StepFrozen
<1> QED
  BY <1>1, <1>2, <1>3, SerialSafe, PTL DEF Spec, FrozenOnVacation

-----------------------------------------------------------------------------
(* The contract. What a transaction has done to the orders, from those      *)
(* committed to its own: which are new, how an old one may have changed,    *)
(* which were delivered or cancelled, and what that did to the levels and   *)
(* the metal.                                                               *)

Placed(old, new) == (Len(old) + 1)..Len(new)

Turned(old, new, s) ==
    {i \in 1..Len(old) : old[i].state = "open" /\ new[i].state = s}

TurnedInto(old, new, b) == {i \in Turned(old, new, "delivered") : old[i].building = b}

Ahead(orders, b, n) ==
    {i \in 1..n : orders[i].state = "open" /\ orders[i].building = b}

Fate(order, later) ==
    /\ later.building = order.building /\ later.paid = order.paid
    /\ \/ later.state = order.state /\ later.back = order.back
       \/ /\ order.state = "open" /\ later.state = "delivered"
          /\ later.back = order.back
       \/ /\ order.state = "open" /\ later.state = "cancelled"
          /\ later.back \in {0, order.paid \div 2, order.paid}

Fates(old, new) ==
    /\ Len(old) <= Len(new)
    /\ \A i \in 1..Len(old) : Fate(old[i], new[i])

InTurn(old, new) ==
    \A i \in Turned(old, new, "delivered"), j \in 1..Len(old) :
        j < i /\ old[j].state = "open" => new[j].state = "delivered"

OneCancel(old, new) == \A i, j \in Turned(old, new, "cancelled") : i = j

PriceOf(orders, level, n) ==
    CostOf(orders[n].building,
           level[orders[n].building] + Cardinality(Ahead(orders, orders[n].building, n - 1)) + 1)

Priced(old, new, level) ==
    \A n \in Placed(old, new) :
        /\ new[n].state = "open" /\ new[n].back = 0
        /\ new[n].paid = PriceOf(new, level, n)

LevelsAdd(old, new, level, later) ==
    \A b \in Buildings : later[b] = level[b] + Cardinality(TurnedInto(old, new, b))

Prices(orders) == [n \in 1..Len(orders) |-> orders[n].paid]

Refunds(orders) == [n \in 1..Len(orders) |-> orders[n].back]

Spent(old, new) == SumOf(Placed(old, new), Prices(new))

Returned(old, new) == SumOf(Turned(old, new, "cancelled"), Refunds(new))

Settles(d, w) ==
    /\ Fates(d.orders, w.orders)
    /\ InTurn(d.orders, w.orders)
    /\ OneCancel(d.orders, w.orders)
    /\ Priced(d.orders, w.orders, w.level)
    /\ LevelsAdd(d.orders, w.orders, d.level, w.level)
    /\ w.metal = d.metal - Spent(d.orders, w.orders) + Returned(d.orders, w.orders)

(* Committed rows settle themselves.                                       *)
LEMMA SettlesSelf ==
    ASSUME NEW d \in Rows
    PROVE  Settles(d, d)
<1>1. PICK o \in Seq(Order) : o = d.orders
  BY RowFacts
<1>2. Turned(o, o, "delivered") = {} /\ Turned(o, o, "cancelled") = {} /\ Placed(o, o) = {}
  BY DEF Turned, Placed
<1>3. Fates(o, o)
  BY DEF Fates, Fate
<1>4. InTurn(o, o) /\ OneCancel(o, o) /\ Priced(o, o, d.level)
  BY <1>2 DEF InTurn, OneCancel, Priced
<1>5. LevelsAdd(o, o, d.level, d.level)
  <2>1. ASSUME NEW b \in Buildings PROVE d.level[b] = d.level[b] + Cardinality(TurnedInto(o, o, b))
    <3>1. TurnedInto(o, o, b) = {}
      BY <1>2 DEF TurnedInto
    <3> QED
      BY <3>1, FS_EmptySet, RowFacts
  <2> QED
    BY <2>1 DEF LevelsAdd
<1>6. Spent(o, o) = 0 /\ Returned(o, o) = 0
  BY <1>2, SumEmpty DEF Spent, Returned
<1>7. d.metal = d.metal - Spent(o, o) + Returned(o, o)
  BY <1>6, RowFacts
<1> QED
  BY <1>1, <1>3, <1>4, <1>5, <1>7 DEF Settles

(* Rows that only move in time settle as before.                           *)
LEMMA SettlesAlike ==
    ASSUME NEW d, NEW w, NEW s, Settles(d, w),
           s.orders = w.orders, s.level = w.level, s.metal = w.metal
    PROVE  Settles(d, s)
  BY DEF Settles

(* A refund is nothing, half or all of the cost.                           *)
LEMMA RefundOneOf ==
    ASSUME NEW job \in Job, NEW t \in Nat
    PROVE  Refund(job, t) \in {0, job.cost \div 2, job.cost}
  BY DEF Refund

(* What is still open was not changed.                                     *)
LEMMA OpenWasOpen ==
    ASSUME NEW old, NEW new, Fates(old, new), NEW i \in 1..Len(old), new[i].state = "open"
    PROVE  old[i].state = "open" /\ old[i].building = new[i].building
           /\ old[i].paid = new[i].paid /\ old[i].back = new[i].back
<1>1. Fate(old[i], new[i])
  BY DEF Fates
<1> QED
  BY <1>1 DEF Fate

(* The head of the queue holds the oldest open order.                      *)
LEMMA HeadIsOldest ==
    ASSUME NEW r \in Rows, BooksKept(r), r.queue # << >>,
           NEW i \in 1..Len(r.orders), r.orders[i].state = "open"
    PROVE  r.queue[1].id <= i
<1>1. PICK k \in 1..Len(r.queue) : r.queue[k].id = i
  BY DEF BooksKept
<1>2. Len(r.queue) \in Nat /\ 1 \in 1..Len(r.queue) /\ r.queue[1].id \in Int /\ i \in Int
  <2>1. r.queue \in Seq(Job) /\ Len(r.queue) \in Nat /\ Len(r.orders) \in Nat
    BY RowFacts
  <2>2. 1 \in 1..Len(r.queue)
    BY <2>1
  <2>3. r.queue[1] \in Job
    BY <2>1, <2>2
  <2>4. r.queue[1].id \in Int
    <3>1. PICK job \in Job : job = r.queue[1]
      BY <2>3
    <3>2. job.id \in Int
      BY DEF Job
    <3> QED
      BY <3>1, <3>2
  <2> QED
    BY <2>1, <2>2, <2>4
<1>3. CASE k = 1
  BY <1>1, <1>2, <1>3
<1>4. CASE k # 1
  <2>1. 1 < k
    BY <1>2, <1>4
  <2>2. r.queue[1].id < r.queue[k].id
    BY <1>2, <2>1 DEF BooksKept
  <2> QED
    BY <1>1, <1>2, <2>2
<1> QED
  BY <1>3, <1>4

\* One order is closed: delivered or cancelled.
Closes(w, s, id, order) ==
    /\ id \in 1..Len(w.orders)
    /\ w.orders[id].state = "open"
    /\ s.orders = [w.orders EXCEPT ![id] = order]
    /\ order.state \in {"delivered", "cancelled"}
    /\ order.building = w.orders[id].building
    /\ order.paid = w.orders[id].paid

\* The transaction has placed or cancelled nothing so far.
NothingPlaced(d, w) == Len(w.orders) = Len(d.orders)

NothingCancelled(d, w) == Turned(d.orders, w.orders, "cancelled") = {}

(* Closing an order changes no other, and the order was open before.       *)
LEMMA ClosesKeeps ==
    ASSUME NEW d \in Rows, NEW w \in Rows, NEW s \in Rows, NEW id, NEW order,
           Fates(d.orders, w.orders), NothingPlaced(d, w), Closes(w, s, id, order)
    PROVE  /\ id \in 1..Len(d.orders) /\ d.orders[id].state = "open"
           /\ Len(s.orders) = Len(d.orders)
           /\ s.orders[id] = order
           /\ \A i \in 1..Len(d.orders) : i # id => s.orders[i] = w.orders[i]
<1>1. PICK old \in Seq(Order), new \in Seq(Order), later \in Seq(Order) :
        old = d.orders /\ new = w.orders /\ later = s.orders
  BY RowFacts
<1>2. Len(new) = Len(old) /\ id \in 1..Len(old)
  BY <1>1 DEF NothingPlaced, Closes
<1>3. old[id].state = "open"
  BY <1>1, <1>2, OpenWasOpen DEF Closes
<1>4. /\ Len(later) = Len(old) /\ later[id] = order
      /\ \A i \in 1..Len(old) : i # id => later[i] = new[i]
  BY <1>1, <1>2 DEF Closes
<1> QED
  BY <1>1, <1>2, <1>3, <1>4

(* A closed order joins those that turned into its state.                  *)
LEMMA ClosesJoins ==
    ASSUME NEW d \in Rows, NEW w \in Rows, NEW s \in Rows, NEW id, NEW order,
           Fates(d.orders, w.orders), NothingPlaced(d, w), Closes(w, s, id, order),
           NEW state, state = order.state
    PROVE  /\ Turned(d.orders, s.orders, state) = Turned(d.orders, w.orders, state) \cup {id}
           /\ id \notin Turned(d.orders, w.orders, state)
<1>1. /\ id \in 1..Len(d.orders) /\ d.orders[id].state = "open"
      /\ s.orders[id] = order
      /\ \A i \in 1..Len(d.orders) : i # id => s.orders[i] = w.orders[i]
  BY ClosesKeeps
<1>2. w.orders[id].state # state
  BY DEF Closes
<1> QED
  BY <1>1, <1>2 DEF Turned

(* The orders that turned into the other state stay the same.              *)
LEMMA ClosesLeaves ==
    ASSUME NEW d \in Rows, NEW w \in Rows, NEW s \in Rows, NEW id, NEW order,
           Fates(d.orders, w.orders), NothingPlaced(d, w), Closes(w, s, id, order),
           NEW state \in {"delivered", "cancelled"}, state # order.state
    PROVE  Turned(d.orders, s.orders, state) = Turned(d.orders, w.orders, state)
<1>1. /\ s.orders[id] = order
      /\ \A i \in 1..Len(d.orders) : i # id => s.orders[i] = w.orders[i]
  BY ClosesKeeps
<1>2. w.orders[id].state # state
  BY DEF Closes
<1> QED
  BY <1>1, <1>2 DEF Turned

(* A closed order has met a fate the contract allows.                      *)
LEMMA ClosesFates ==
    ASSUME NEW d \in Rows, NEW w \in Rows, NEW s \in Rows, NEW id, NEW order,
           Fates(d.orders, w.orders), NothingPlaced(d, w), Closes(w, s, id, order),
           \/ order.state = "delivered" /\ order.back = w.orders[id].back
           \/ order.state = "cancelled" /\ order.back \in {0, order.paid \div 2, order.paid}
    PROVE  Fates(d.orders, s.orders)
<1>1. /\ id \in 1..Len(d.orders) /\ d.orders[id].state = "open"
      /\ Len(s.orders) = Len(d.orders) /\ s.orders[id] = order
      /\ \A i \in 1..Len(d.orders) : i # id => s.orders[i] = w.orders[i]
  BY ClosesKeeps
<1>2. /\ w.orders[id].building = d.orders[id].building
      /\ w.orders[id].paid = d.orders[id].paid /\ w.orders[id].back = d.orders[id].back
  BY <1>1, OpenWasOpen DEF Closes
<1>3. Fate(d.orders[id], order)
  BY <1>1, <1>2 DEF Fate, Closes
<1>4. ASSUME NEW i \in 1..Len(d.orders) PROVE Fate(d.orders[i], s.orders[i])
  <2>1. CASE i = id
    BY <1>1, <1>3, <2>1
  <2>2. CASE i # id
    BY <1>1, <2>2 DEF Fates
  <2> QED
    BY <2>1, <2>2
<1>5. Len(d.orders) <= Len(s.orders)
  BY <1>1, RowFacts
<1> QED
  BY <1>4, <1>5 DEF Fates

(* Nothing new is priced while nothing is placed.                          *)
LEMMA NothingPriced ==
    ASSUME NEW d \in Rows, NEW w \in Rows, NothingPlaced(d, w)
    PROVE  /\ Placed(d.orders, w.orders) = {}
           /\ Priced(d.orders, w.orders, w.level)
           /\ Spent(d.orders, w.orders) = 0
<1>1. Placed(d.orders, w.orders) = {}
  <2>1. Len(d.orders) \in Nat
    BY RowFacts
  <2> QED
    BY <2>1 DEF Placed, NothingPlaced
<1>2. Priced(d.orders, w.orders, w.level)
  BY <1>1 DEF Priced
<1>3. Spent(d.orders, w.orders) = 0
  BY <1>1, SumEmpty DEF Spent
<1> QED
  BY <1>1, <1>2, <1>3

(* Delivering the oldest open order keeps the deliveries in turn.          *)
LEMMA DeliversInTurn ==
    ASSUME NEW d \in Rows, NEW w \in Rows, NEW s \in Rows, NEW id, NEW order,
           Fates(d.orders, w.orders), NothingPlaced(d, w), NothingCancelled(d, w),
           Closes(w, s, id, order), order.state = "delivered",
           InTurn(d.orders, w.orders),
           \A i \in 1..Len(w.orders) : w.orders[i].state = "open" => id <= i
    PROVE  InTurn(d.orders, s.orders)
<1>1. /\ id \in 1..Len(d.orders) /\ d.orders[id].state = "open"
      /\ Len(s.orders) = Len(d.orders) /\ s.orders[id] = order
      /\ \A i \in 1..Len(d.orders) : i # id => s.orders[i] = w.orders[i]
  BY ClosesKeeps
<1>5. Turned(d.orders, s.orders, "delivered")
        = Turned(d.orders, w.orders, "delivered") \cup {id}
  BY ClosesJoins
<1>2. Len(w.orders) = Len(d.orders)
  BY DEF NothingPlaced
<1> SUFFICES ASSUME NEW i \in Turned(d.orders, s.orders, "delivered"),
                    NEW j \in 1..Len(d.orders), j < i, d.orders[j].state = "open"
             PROVE  s.orders[j].state = "delivered"
  BY DEF InTurn
<1>3. CASE i = id
  <2>1. j # id /\ s.orders[j] = w.orders[j]
    BY <1>1, <1>3
  <2>2. w.orders[j].state # "open"
    <3>1. id \in Int /\ j \in Int
      BY <1>1, RowFacts
    <3> QED
      BY <1>2, <1>3, <3>1
  <2>3. w.orders[j].state # "cancelled"
    BY DEF NothingCancelled, Turned
  <2>4. Fate(d.orders[j], w.orders[j])
    BY DEF Fates
  <2> QED
    BY <2>1, <2>2, <2>3, <2>4 DEF Fate
<1>4. CASE i # id
  <2>1. i \in Turned(d.orders, w.orders, "delivered")
    BY <1>4, <1>5
  <2>2. w.orders[j].state = "delivered"
    BY <2>1 DEF InTurn
  <2> QED
    BY <1>1, <2>2
<1> QED
  BY <1>3, <1>4

(* A delivery settles when it is the oldest order, of a request that has    *)
(* neither placed nor cancelled any.                                        *)
LEMMA DeliverySettles ==
    ASSUME NEW d \in Rows, NEW w \in Rows, NEW s \in Rows, NEW id, NEW order,
           Settles(d, w), NothingPlaced(d, w), NothingCancelled(d, w),
           Closes(w, s, id, order), order.state = "delivered",
           order.back = w.orders[id].back,
           \A i \in 1..Len(w.orders) : w.orders[i].state = "open" => id <= i,
           order.building \in Buildings, s.metal = w.metal,
           s.level = [w.level EXCEPT ![order.building] = w.level[order.building] + 1]
    PROVE  /\ Settles(d, s) /\ NothingPlaced(d, s) /\ NothingCancelled(d, s)
<1>1. Fates(d.orders, w.orders) /\ InTurn(d.orders, w.orders)
      /\ LevelsAdd(d.orders, w.orders, d.level, w.level)
  BY DEF Settles
<1>2. /\ id \in 1..Len(d.orders) /\ d.orders[id].state = "open"
      /\ Len(s.orders) = Len(d.orders)
  BY <1>1, ClosesKeeps
<1>3. /\ Turned(d.orders, s.orders, "delivered")
           = Turned(d.orders, w.orders, "delivered") \cup {id}
      /\ id \notin Turned(d.orders, w.orders, "delivered")
  BY <1>1, ClosesJoins
<1>13. Turned(d.orders, s.orders, "cancelled") = Turned(d.orders, w.orders, "cancelled")
  BY <1>1, ClosesLeaves
<1>4. NothingPlaced(d, s)
  BY <1>2 DEF NothingPlaced
<1>5. NothingCancelled(d, s)
  BY <1>13 DEF NothingCancelled
<1>6. Fates(d.orders, s.orders)
  BY <1>1, ClosesFates
<1>7. InTurn(d.orders, s.orders)
  BY <1>1, DeliversInTurn
<1>8. OneCancel(d.orders, s.orders)
  BY <1>5 DEF OneCancel, NothingCancelled
<1>9. Priced(d.orders, s.orders, s.level)
      /\ Spent(d.orders, s.orders) = 0 /\ Spent(d.orders, w.orders) = 0
  BY <1>4, NothingPriced
<1>10. Returned(d.orders, s.orders) = 0 /\ Returned(d.orders, w.orders) = 0
  BY <1>5, SumEmpty DEF Returned, NothingCancelled
<1>11. s.metal = d.metal - Spent(d.orders, s.orders) + Returned(d.orders, s.orders)
  BY <1>9, <1>10 DEF Settles
<1>12. LevelsAdd(d.orders, s.orders, d.level, s.level)
  <2> SUFFICES ASSUME NEW b \in Buildings
               PROVE  s.level[b] = d.level[b]
                        + Cardinality(TurnedInto(d.orders, s.orders, b))
    BY DEF LevelsAdd
  <2>1. w.level[b] = d.level[b] + Cardinality(TurnedInto(d.orders, w.orders, b))
    BY <1>1 DEF LevelsAdd
  <2>2. d.orders[id].building = order.building
    BY <1>1, <1>2, OpenWasOpen DEF Closes
  <2>3. IsFiniteSet(TurnedInto(d.orders, w.orders, b))
    <3>1. TurnedInto(d.orders, w.orders, b) \subseteq 1..Len(d.orders)
      BY DEF TurnedInto, Turned
    <3>2. Len(d.orders) \in Int /\ 1 \in Int
      BY RowFacts
    <3>3. IsFiniteSet(1..Len(d.orders))
      BY <3>2, FS_Interval
    <3> QED
      BY <3>1, <3>3, FS_Subset
  <2>4. w.level[b] \in Nat /\ d.level[b] \in Nat
        /\ Cardinality(TurnedInto(d.orders, w.orders, b)) \in Nat
    BY <2>3, RowFacts, FS_CardinalityType
  <2>5. w.level \in [Buildings -> Nat]
    BY RowFacts
  <2>6. CASE b = order.building
    <3>1. TurnedInto(d.orders, s.orders, b) = TurnedInto(d.orders, w.orders, b) \cup {id}
          /\ id \notin TurnedInto(d.orders, w.orders, b)
      BY <1>3, <2>2, <2>6 DEF TurnedInto
    <3>2. Cardinality(TurnedInto(d.orders, s.orders, b))
            = Cardinality(TurnedInto(d.orders, w.orders, b)) + 1
      BY <2>3, <3>1, FS_AddElement
    <3>3. s.level[b] = w.level[b] + 1
      BY <2>5, <2>6
    <3> QED
      BY <2>1, <2>4, <3>2, <3>3
  <2>7. CASE b # order.building
    <3>1. TurnedInto(d.orders, s.orders, b) = TurnedInto(d.orders, w.orders, b)
      BY <1>3, <2>2, <2>7 DEF TurnedInto
    <3>2. s.level[b] = w.level[b]
      BY <2>5, <2>7
    <3> QED
      BY <2>1, <3>1, <3>2
  <2> QED
    BY <2>6, <2>7
<1> QED
  BY <1>4, <1>5, <1>6, <1>7, <1>8, <1>9, <1>11, <1>12 DEF Settles

(* A cancel settles when it is the first of its request, which places none. *)
LEMMA CancelSettles ==
    ASSUME NEW d \in Rows, NEW w \in Rows, NEW s \in Rows, NEW id, NEW order,
           Settles(d, w), NothingPlaced(d, w), NothingCancelled(d, w),
           Closes(w, s, id, order), order.state = "cancelled",
           order.back \in {0, order.paid \div 2, order.paid}, order.back \in Nat,
           s.level = w.level, s.metal = w.metal + order.back
    PROVE  Settles(d, s) /\ NothingPlaced(d, s)
<1>1. Fates(d.orders, w.orders) /\ InTurn(d.orders, w.orders)
      /\ LevelsAdd(d.orders, w.orders, d.level, w.level)
  BY DEF Settles
<1>2. /\ id \in 1..Len(d.orders) /\ d.orders[id].state = "open"
      /\ Len(s.orders) = Len(d.orders) /\ s.orders[id] = order
      /\ \A i \in 1..Len(d.orders) : i # id => s.orders[i] = w.orders[i]
  BY <1>1, ClosesKeeps
<1>3. Turned(d.orders, s.orders, "cancelled")
        = Turned(d.orders, w.orders, "cancelled") \cup {id}
  BY <1>1, ClosesJoins
<1>4. NothingPlaced(d, s)
  BY <1>2 DEF NothingPlaced
<1>5. Turned(d.orders, s.orders, "cancelled") = {id}
      /\ Turned(d.orders, w.orders, "cancelled") = {}
  BY <1>3 DEF NothingCancelled
<1>13. Turned(d.orders, s.orders, "delivered") = Turned(d.orders, w.orders, "delivered")
  BY <1>1, ClosesLeaves
<1>6. Fates(d.orders, s.orders)
  BY <1>1, ClosesFates
<1>7. InTurn(d.orders, s.orders)
  <2> SUFFICES ASSUME NEW i \in Turned(d.orders, w.orders, "delivered"),
                      NEW j \in 1..Len(d.orders), j < i, d.orders[j].state = "open"
               PROVE  s.orders[j].state = "delivered"
    BY <1>13 DEF InTurn
  <2>1. w.orders[j].state = "delivered"
    BY <1>1 DEF InTurn
  <2>2. j # id
    BY <2>1 DEF Closes
  <2> QED
    BY <1>2, <2>1, <2>2
<1>8. OneCancel(d.orders, s.orders)
  BY <1>5 DEF OneCancel
<1>9. Priced(d.orders, s.orders, s.level)
      /\ Spent(d.orders, s.orders) = 0 /\ Spent(d.orders, w.orders) = 0
  BY <1>4, NothingPriced
<1>10. Returned(d.orders, w.orders) = 0
  BY <1>5, SumEmpty DEF Returned
<1>14. Returned(d.orders, s.orders) = order.back
  <2>1. Refunds(s.orders)[id] = order.back
    BY <1>2 DEF Refunds
  <2>6. IsFiniteSet({id})
    BY FS_Singleton
  <2>2. Integral({id}, Refunds(s.orders))
    <3>1. \A x \in {id} : Refunds(s.orders)[x] \in Int
      BY <2>1
    <3> QED
      BY <2>6, <3>1 DEF Integral
  <2>3. SumOf({id}, Refunds(s.orders))
          = Refunds(s.orders)[id] + SumOf({id} \ {id}, Refunds(s.orders))
    BY <2>2, SumTakeOut
  <2>4. {id} \ {id} = {}
    OBVIOUS
  <2>5. SumOf({id}, Refunds(s.orders)) = order.back + 0
    BY <2>1, <2>3, <2>4, SumEmpty
  <2> QED
    BY <1>5, <2>5 DEF Returned
<1>11. s.metal = d.metal - Spent(d.orders, s.orders) + Returned(d.orders, s.orders)
  <2>1. w.metal = d.metal - Spent(d.orders, w.orders) + Returned(d.orders, w.orders)
        /\ d.metal \in Nat
    BY RowFacts DEF Settles
  <2> QED
    BY <1>9, <1>10, <1>14, <2>1
<1>12. LevelsAdd(d.orders, s.orders, d.level, s.level)
  <2>1. \A b : TurnedInto(d.orders, s.orders, b) = TurnedInto(d.orders, w.orders, b)
    BY <1>13 DEF TurnedInto
  <2> QED
    BY <1>1, <2>1 DEF LevelsAdd
<1> QED
  BY <1>4, <1>6, <1>7, <1>8, <1>9, <1>11, <1>12 DEF Settles

(* As many open orders of a building as rows for it.                       *)
LEMMA OpenAreQueued ==
    ASSUME NEW r \in Rows, BooksKept(r), NEW b
    PROVE  Cardinality(Ahead(r.orders, b, Len(r.orders)))
             = QueuedSame(r.queue, b, Len(r.queue))
<1>1. PICK n \in Nat, m \in Nat : n = Len(r.queue) /\ m = Len(r.orders)
  BY RowFacts
<1> DEFINE S == {k \in 1..n : r.queue[k].building = b}
           T == Ahead(r.orders, b, m)
           f == [k \in S |-> r.queue[k].id]
<1>2. \A k \in 1..n : /\ r.queue[k].id \in 1..m
                      /\ r.orders[r.queue[k].id].state = "open"
                      /\ r.orders[r.queue[k].id].building = r.queue[k].building
  BY <1>1 DEF BooksKept
<1>3. f \in [S -> T]
  BY <1>2 DEF Ahead
<1>4. ASSUME NEW j \in S, NEW k \in S, f[j] = f[k] PROVE j = k
  <2>1. \A x, y \in 1..n : x < y => r.queue[x].id < r.queue[y].id
    BY <1>1 DEF BooksKept
  <2>2. r.queue[j].id = r.queue[k].id /\ r.queue[j].id \in Int
    BY <1>2, <1>4
  <2> QED
    BY <2>1, <2>2
<1>5. ASSUME NEW i \in T PROVE \E k \in S : f[k] = i
  <2>1. i \in 1..m /\ r.orders[i].state = "open" /\ r.orders[i].building = b
    BY DEF Ahead
  <2>2. PICK k \in 1..n : r.queue[k].id = i
    BY <1>1, <2>1 DEF BooksKept
  <2>3. k \in S
    BY <1>2, <2>1, <2>2
  <2> QED
    BY <2>2, <2>3
<1>6. IsFiniteSet(S)
  <2>1. IsFiniteSet(1..n)
    BY FS_Interval
  <2> QED
    BY <2>1, FS_Subset
<1> HIDE DEF S, T, f
<1>7. f \in Bijection(S, T)
  <2>1. f \in Injection(S, T)
    BY <1>3, <1>4 DEF Injection, IsInjective
  <2>2. f \in Surjection(S, T)
    BY <1>3, <1>5 DEF Surjection
  <2> QED
    BY <2>1, <2>2 DEF Bijection
<1>8. Cardinality(T) = Cardinality(S)
  BY <1>6, <1>7, FS_Bijection DEF ExistsBijection
<1> QED
  BY <1>1, <1>8 DEF S, T, QueuedSame

(* The queue limit bounds the open orders.                                 *)
LEMMA OpenBounded ==
    ASSUME NEW r \in Rows, BooksKept(r), CapsKept(r)
    PROVE  Cardinality({i \in 1..Len(r.orders) : r.orders[i].state = "open"}) <= QueueLimit
<1>1. PICK n \in Nat, m \in Nat : n = Len(r.queue) /\ m = Len(r.orders)
  BY RowFacts
<1> DEFINE S == 1..n
           T == {i \in 1..m : r.orders[i].state = "open"}
           f == [k \in S |-> r.queue[k].id]
<1>2. \A k \in 1..n : /\ r.queue[k].id \in 1..m
                      /\ r.orders[r.queue[k].id].state = "open"
  BY <1>1 DEF BooksKept
<1>3. f \in [S -> T]
  BY <1>2
<1>4. \A i \in T : \E k \in S : f[k] = i
  BY <1>1 DEF BooksKept
<1>5. IsFiniteSet(S) /\ Cardinality(S) = n
  BY FS_Interval
<1> HIDE DEF S, T, f
<1>6. f \in Surjection(S, T)
  BY <1>3, <1>4 DEF Surjection
<1>7. Cardinality(T) <= Cardinality(S)
  BY <1>5, <1>6, FS_Surjection
<1>8. n <= QueueLimit
  BY <1>1 DEF CapsKept
<1>9. Cardinality(T) \in Nat /\ QueueLimit \in Nat
  <2>1. IsFiniteSet(T)
    BY <1>5, <1>6, FS_Surjection
  <2> QED
    BY <2>1, FS_CardinalityType, LimitsAssumption
<1>10. Cardinality(T) <= QueueLimit
  BY <1>5, <1>7, <1>8, <1>9
<1> QED
  BY <1>1, <1>10 DEF T

(* An order placed at the price of the next level of its building settles,  *)
(* when the request cancels none.                                           *)
LEMMA PlaceSettles ==
    ASSUME NEW d \in Rows, NEW w \in Rows, NEW s \in Rows, NEW order \in Order,
           Settles(d, w), NothingCancelled(d, w), BooksKept(w),
           s.orders = Append(w.orders, order), s.level = w.level,
           s.metal = w.metal - order.paid,
           order.state = "open", order.back = 0,
           order.paid = CostOf(order.building,
                               w.level[order.building]
                                 + QueuedSame(w.queue, order.building, Len(w.queue)) + 1)
    PROVE  Settles(d, s) /\ NothingCancelled(d, s)
<1>1. PICK old \in Seq(Order), new \in Seq(Order), later \in Seq(Order) :
        old = d.orders /\ new = w.orders /\ later = s.orders
  BY RowFacts
<1>2. PICK k \in Nat, m \in Nat : k = Len(old) /\ m = Len(new)
  OBVIOUS
<1>3. /\ Fates(old, new) /\ InTurn(old, new) /\ Priced(old, new, w.level)
      /\ LevelsAdd(old, new, d.level, w.level)
      /\ w.metal = d.metal - Spent(old, new) + Returned(old, new)
  BY <1>1 DEF Settles
<1>4. k <= m
  BY <1>2, <1>3 DEF Fates
<1>5. /\ Len(later) = m + 1 /\ later[m + 1] = order
      /\ \A i \in 1..m : later[i] = new[i]
  BY <1>1, <1>2
<1>6. \A i \in 1..k : later[i] = new[i]
  BY <1>4, <1>5
<1>7. \A state : Turned(old, later, state) = Turned(old, new, state)
  BY <1>2, <1>6 DEF Turned
<1>8. Fates(old, later)
  BY <1>2, <1>3, <1>4, <1>5, <1>6 DEF Fates
<1>9. InTurn(old, later)
  BY <1>2, <1>3, <1>6, <1>7 DEF InTurn
<1>10. NothingCancelled(d, s) /\ Turned(old, later, "cancelled") = {}
       /\ Turned(old, new, "cancelled") = {}
  BY <1>1, <1>7 DEF NothingCancelled
<1>11. OneCancel(old, later)
  BY <1>10 DEF OneCancel
<1>12. LevelsAdd(old, later, d.level, s.level)
  <2>1. \A b : TurnedInto(old, later, b) = TurnedInto(old, new, b)
    BY <1>7 DEF TurnedInto
  <2> QED
    BY <1>3, <2>1 DEF LevelsAdd
<1>13. Placed(old, later) = Placed(old, new) \cup {m + 1}
       /\ m + 1 \notin Placed(old, new) /\ Placed(old, new) \subseteq 1..m
  BY <1>2, <1>4, <1>5 DEF Placed
<1>14. \A b : \A n \in 0..m : Ahead(later, b, n) = Ahead(new, b, n)
  BY SMTT(20), <1>5 DEF Ahead
<1>15. Priced(old, later, s.level)
  <2>1. ASSUME NEW n \in Placed(old, new)
        PROVE  /\ later[n].state = "open" /\ later[n].back = 0
               /\ later[n].paid = PriceOf(later, s.level, n)
    <3>1. n \in 1..m /\ later[n] = new[n]
      BY <1>5, <1>13
    <3>2. \A b : Ahead(later, b, n - 1) = Ahead(new, b, n - 1)
      <4>1. n - 1 \in 0..m
        BY <3>1
      <4> QED
        BY <1>14, <4>1
    <3>3. PriceOf(later, s.level, n) = PriceOf(new, w.level, n)
      BY <3>1, <3>2 DEF PriceOf
    <3> QED
      BY <1>3, <3>1, <3>3 DEF Priced
  <2>2. PriceOf(later, s.level, m + 1) = order.paid
    <3>1. Cardinality(Ahead(new, order.building, m))
            = QueuedSame(w.queue, order.building, Len(w.queue))
      BY <1>1, <1>2, OpenAreQueued
    <3>2. (m + 1) - 1 = m
      OBVIOUS
    <3>3. Ahead(later, order.building, m) = Ahead(new, order.building, m)
      BY <1>14
    <3> QED
      BY <1>5, <3>1, <3>2, <3>3 DEF PriceOf
  <2>3. ASSUME NEW n \in Placed(old, later)
        PROVE  /\ later[n].state = "open" /\ later[n].back = 0
               /\ later[n].paid = PriceOf(later, s.level, n)
    <3>1. CASE n \in Placed(old, new)
      BY <2>1, <3>1
    <3>2. CASE n = m + 1
      BY <1>5, <2>2, <3>2
    <3> QED
      BY <1>13, <3>1, <3>2
  <2> QED
    BY <2>3 DEF Priced
<1>19. Integral(Placed(old, new), Prices(new))
  <2>1. IsFiniteSet(1..m)
    <3>1. 1 \in Int /\ m \in Int
      OBVIOUS
    <3> QED
      BY ONLY <3>1, FS_Interval
  <2>2. IsFiniteSet(Placed(old, new))
    BY <1>13, <2>1, FS_Subset
  <2>3. ASSUME NEW n \in Placed(old, new) PROVE Prices(new)[n] \in Int
    <3>1. n \in 1..Len(new) /\ new[n] \in Order
      BY <1>2, <1>13
    <3>2. PICK o \in Order : o = new[n]
      BY <3>1
    <3>3. o.paid \in Int
      BY DEF Order
    <3> QED
      BY <3>1, <3>2, <3>3 DEF Prices
  <2> QED
    BY <2>2, <2>3 DEF Integral
<1>16. Spent(old, later) = Spent(old, new) + order.paid
  <2>2. Prices(later)[m + 1] = order.paid /\ order.paid \in Int
    <3>1. m + 1 \in 1..Len(later) /\ order.paid \in Int
      BY <1>5 DEF Order
    <3> QED
      BY <1>5, <3>1 DEF Prices
  <2>3. \A n \in Placed(old, new) : Prices(later)[n] = Prices(new)[n]
    BY <1>2, <1>5, <1>13 DEF Prices
  <2>4. SumOf(Placed(old, later), Prices(later))
          = SumOf(Placed(old, new), Prices(new)) + Prices(later)[m + 1]
    BY <1>13, <1>19, <2>2, <2>3, SumAdd
  <2>5. SumOf(Placed(old, new), Prices(new)) \in Int
    BY <1>19, SumType
  <2> QED
    BY <2>2, <2>4 DEF Spent
<1>17. Returned(old, later) = 0 /\ Returned(old, new) = 0
  BY <1>10, SumEmpty DEF Returned
<1>18. s.metal = d.metal - Spent(old, later) + Returned(old, later)
  <2>1. w.metal \in Nat /\ d.metal \in Nat
    BY RowFacts
  <2>2. order.paid \in Nat
    BY DEF Order
  <2>3. Spent(old, new) \in Int
    BY <1>19, SumType DEF Spent
  <2> QED
    BY <1>3, <1>16, <1>17, <2>1, <2>2, <2>3
<1> QED
  BY <1>1, <1>8, <1>9, <1>10, <1>11, <1>12, <1>15, <1>18 DEF Settles

-----------------------------------------------------------------------------
(* What each stage of a transaction has not done yet.                      *)

Stage ==
    /\ phase = "idle" => work = db
    /\ phase = "refund" => req.kind = "cancel"
    /\ phase \in {"finish", "reschedule", "refund", "shift", "deliver", "debit"} =>
         NothingPlaced(db, work)
    /\ phase \in {"finish", "place", "refund", "shift", "deliver", "debit"} =>
         NothingCancelled(db, work)
    /\ phase = "reschedule" /\ req.kind # "cancel" => NothingCancelled(db, work)

AccountInv == Settles(db, work) /\ Stage

(* A transaction that has done nothing has placed and cancelled nothing.   *)
LEMMA NothingYet ==
    ASSUME NEW d \in Rows
    PROVE  NothingPlaced(d, d) /\ NothingCancelled(d, d)
  BY DEF NothingPlaced, NothingCancelled, Turned

(* A delivered head settles.                                               *)
LEMMA FinishHeadSettles ==
    ASSUME TypeInv, TypeInv', RowsInv, AccountInv, FinishHead
    PROVE  AccountInv'
<1>1. db \in Rows /\ work \in Rows /\ work' \in Rows /\ BooksKept(work)
  BY DEF TypeInv, TypeOK, RowsInv, Good
<1>2. /\ Loses(work, work', 1) /\ Granted(work, work')
      /\ work'.orders = [work.orders EXCEPT ![work.queue[1].id] =
            [work.orders[work.queue[1].id] EXCEPT
               !.state = "delivered",
               !.took = work.queue[1].finish - work.queue[1].start]]
      /\ work'.metal = work.metal
  BY FinishHeadRows
<1>3. PICK job \in Job : job = work.queue[1]
  <2>1. 1 \in 1..Len(work.queue)
    BY <1>2 DEF Loses
  <2> QED
    BY <1>1, <2>1, RowFacts
<1>4. PICK old \in Order : old = work.orders[job.id]
  <2>1. 1 \in 1..Len(work.queue)
    BY <1>2 DEF Loses
  <2>2. job.id \in 1..Len(work.orders)
    BY <1>1, <1>3, <2>1 DEF BooksKept
  <2> QED
    BY <1>1, <2>2, RowFacts
<1>5. PICK took \in Int : took = job.finish - job.start
  BY JobFields
<1>6. PICK order : order = [old EXCEPT !.state = "delivered", !.took = took]
  OBVIOUS
<1>7. /\ order.state = "delivered" /\ order.building = old.building
      /\ order.paid = old.paid /\ order.back = old.back /\ old.building \in Buildings
  BY <1>6 DEF Order
<1>8. /\ job.id \in 1..Len(work.orders) /\ work.orders[job.id].state = "open"
      /\ job.building = old.building
  <2>1. 1 \in 1..Len(work.queue)
    BY <1>2 DEF Loses
  <2> QED
    BY <1>1, <1>3, <1>4, <2>1 DEF BooksKept
<1>9. work'.orders = [work.orders EXCEPT ![job.id] = order]
  BY <1>2, <1>3, <1>4, <1>5, <1>6
<1>10. Closes(work, work', job.id, order)
  BY <1>4, <1>7, <1>8, <1>9 DEF Closes
<1>11. \A i \in 1..Len(work.orders) : work.orders[i].state = "open" => job.id <= i
  <2>1. work.queue # << >>
    BY DEF FinishHead, HeadIsDue
  <2> QED
    BY <1>1, <1>3, <2>1, HeadIsOldest
<1>12. work'.level = [work.level EXCEPT ![order.building] = work.level[order.building] + 1]
  BY <1>2, <1>3, <1>7, <1>8 DEF Granted
<1>13. NothingPlaced(db, work) /\ NothingCancelled(db, work) /\ Settles(db, work)
  BY DEF FinishHead, AccountInv, Stage
<1>14. order.back = work.orders[job.id].back /\ order.building \in Buildings
  BY <1>4, <1>7
<1>15. Settles(db, work') /\ NothingPlaced(db, work') /\ NothingCancelled(db, work')
  BY <1>1, <1>2, <1>7, <1>10, <1>11, <1>12, <1>13, <1>14, DeliverySettles
<1>16. db' = db /\ phase' = phase /\ phase \in {"finish", "deliver"}
  BY DEF FinishHead
<1> QED
  BY <1>15, <1>16 DEF AccountInv, Stage

(* A cancelled order settles.                                              *)
LEMMA CancelJobSettles ==
    ASSUME TypeInv, TypeInv', RowsInv, AccountInv, CancelJob
    PROVE  AccountInv'
<1>1. db \in Rows /\ work \in Rows /\ work' \in Rows /\ BooksKept(work) /\ now \in Nat
  BY DEF TypeInv, TypeOK, RowsInv, Good
<1>2. PICK k \in 1..Len(work.queue) :
        /\ work.queue[k].id = req.job
        /\ work'.orders = [work.orders EXCEPT ![req.job] =
             [work.orders[req.job] EXCEPT !.back = Refund(work.queue[k], now),
                                          !.state = "cancelled"]]
        /\ work'.metal = work.metal + Refund(work.queue[k], now)
        /\ work'.level = work.level
  BY CancelRows
<1>3. PICK job \in Job : job = work.queue[k]
  BY <1>1, RowFacts
<1>4. PICK id : id = req.job
  OBVIOUS
<1>5. /\ id \in 1..Len(work.orders) /\ work.orders[id].state = "open"
      /\ job.cost = work.orders[id].paid
  BY <1>1, <1>2, <1>3, <1>4 DEF BooksKept
<1>6. PICK old \in Order : old = work.orders[id]
  BY <1>1, <1>5, RowFacts
<1>7. PICK back \in Nat : back = Refund(job, now)
  BY <1>1, RefundType
<1>8. back \in {0, job.cost \div 2, job.cost}
  BY <1>1, <1>7, RefundOneOf
<1>9. PICK order : order = [old EXCEPT !.back = back, !.state = "cancelled"]
  OBVIOUS
<1>10. /\ order.state = "cancelled" /\ order.building = old.building
       /\ order.paid = old.paid /\ order.back = back
  BY <1>9 DEF Order
<1>11. work'.orders = [work.orders EXCEPT ![id] = order] /\ work'.metal = work.metal + back
  BY <1>2, <1>3, <1>4, <1>6, <1>7, <1>9
<1>12. Closes(work, work', id, order)
  BY <1>5, <1>6, <1>10, <1>11 DEF Closes
<1>13. order.back \in {0, order.paid \div 2, order.paid} /\ order.back \in Nat
  BY <1>5, <1>6, <1>8, <1>10
<1>14. /\ NothingPlaced(db, work) /\ NothingCancelled(db, work) /\ Settles(db, work)
       /\ req.kind = "cancel"
  BY DEF CancelJob, AccountInv, Stage
<1>15. Settles(db, work') /\ NothingPlaced(db, work')
  BY <1>1, <1>2, <1>10, <1>11, <1>12, <1>13, <1>14, CancelSettles
<1>16. db' = db /\ phase' = "reschedule" /\ req' = req
  BY DEF CancelJob
<1> QED
  BY <1>14, <1>15, <1>16 DEF AccountInv, Stage

(* A placed order settles.                                                 *)
LEMMA PlaceOrderSettles ==
    ASSUME TypeInv, TypeInv', RowsInv, AccountInv, PlaceOrder
    PROVE  AccountInv'
<1>1. db \in Rows /\ work \in Rows /\ work' \in Rows /\ BooksKept(work)
  BY DEF TypeInv, TypeOK, RowsInv, Good
<1>2. PICK cost \in Nat, order \in Order :
        /\ cost = CostOf(req.building, NextTarget)
        /\ work'.orders = Append(work.orders, order) /\ work'.level = work.level
        /\ work'.metal = work.metal - cost
        /\ order.building = req.building /\ order.paid = cost
        /\ order.back = 0 /\ order.state = "open"
  <2> DEFINE cost == CostOf(req.building, NextTarget)
             job == [id |-> Len(work.orders) + 1, building |-> req.building,
                     start |-> PlacedStart, finish |-> PlacedStart + PlacedLength,
                     cost |-> cost]
             order == [building |-> req.building, paid |-> cost, back |-> 0,
                       took |-> 0, state |-> "open"]
  <2>1. /\ cost \in Nat /\ order \in Order /\ Gains(work, work', job, order)
        /\ work'.metal = work.metal - cost
    BY PlaceRows
  <2>2. /\ order.building = req.building /\ order.paid = cost
        /\ order.back = 0 /\ order.state = "open"
    OBVIOUS
  <2> HIDE DEF job, order
  <2>3. work'.orders = Append(work.orders, order) /\ work'.level = work.level
    BY <2>1 DEF Gains
  <2> QED
    BY <2>1, <2>2, <2>3
<1>3. order.paid = CostOf(order.building,
                          work.level[order.building]
                            + QueuedSame(work.queue, order.building, Len(work.queue)) + 1)
  BY <1>2 DEF NextTarget
<1>4. NothingCancelled(db, work) /\ Settles(db, work)
  BY DEF PlaceOrder, AccountInv, Stage
<1>5. work'.metal = work.metal - order.paid
  BY <1>2
<1>6. Settles(db, work') /\ NothingCancelled(db, work')
  BY <1>1, <1>2, <1>3, <1>4, <1>5, PlaceSettles
<1>7. db' = db /\ phase' = "place"
  BY DEF PlaceOrder
<1> QED
  BY <1>6, <1>7 DEF AccountInv, Stage

(* Moving windows and the debit leave the account as it is.                *)
LEMMA RetimeSettles ==
    ASSUME TypeInv, AccountInv, RescheduleRow \/ ShiftQueue \/ Debit
    PROVE  AccountInv'
<1>1. Retimes(work, work') /\ work'.metal = work.metal
  BY RescheduleRowRows, ShiftRows, DebitRows
<1>2. work'.orders = work.orders /\ work'.level = work.level
  BY <1>1 DEF Retimes
<1>3. db' = db /\ req' = req
  BY DEF RescheduleRow, ShiftQueue, Debit
<1>4. Settles(db, work')
  BY <1>1, <1>2, SettlesAlike DEF AccountInv
<1>5. /\ NothingPlaced(db, work') <=> NothingPlaced(db, work)
      /\ NothingCancelled(db, work') <=> NothingCancelled(db, work)
  BY <1>2 DEF NothingPlaced, NothingCancelled
<1>6. \/ phase = "reschedule" /\ phase' = phase
      \/ phase = "shift" /\ phase' \in {"deliver", "debit"}
      \/ phase = "debit" /\ phase' = "commit"
  BY DEF RescheduleRow, ShiftQueue, Debit
<1> QED
  BY <1>3, <1>4, <1>5, <1>6 DEF AccountInv, Stage

(* Where a finish pass goes on, it has delivered orders and done no more.  *)
LEMMA FinishLeaves ==
    ASSUME phase \in {"finish", "deliver"}, phase' = AfterFinish, req' = req
    PROVE  /\ phase' \in {"debit", "reschedule", "refund", "shift", "commit"}
           /\ phase' = "refund" => req'.kind = "cancel"
           /\ phase' = "reschedule" => req'.kind = "enqueue"
<1>1. CASE phase = "deliver"
  BY <1>1 DEF AfterFinish
<1>2. CASE phase = "finish"
  <2>1. CASE req.kind = "enqueue"
    BY <1>2, <2>1 DEF AfterFinish
  <2>2. CASE req.kind = "cancel"
    BY <1>2, <2>2 DEF AfterFinish
  <2>3. CASE req.kind = "boost"
    BY <1>2, <2>3 DEF AfterFinish
  <2>4. CASE req.kind \notin {"enqueue", "cancel", "boost"}
    BY <1>2, <2>4 DEF AfterFinish
  <2> QED
    BY <2>1, <2>2, <2>3, <2>4
<1> QED
  BY <1>1, <1>2

(* A transaction that has done nothing is accounted for at every stage.    *)
LEMMA FreshSettles ==
    ASSUME TypeInv, TypeInv', work' = db', phase' = "refund" => req'.kind = "cancel"
    PROVE  AccountInv'
<1>1. db' \in Rows
  BY DEF TypeInv, TypeOK
<1>2. Settles(db', work') /\ NothingPlaced(db', work') /\ NothingCancelled(db', work')
  BY <1>1, SettlesSelf, NothingYet
<1> QED
  BY <1>2 DEF AccountInv, Stage

(* Every step keeps the account of what the transaction has done.          *)
LEMMA StepAccount ==
    ASSUME Postgres, TypeInv, TypeInv', RowsInv, AccountInv, [Next]_vars
    PROVE  AccountInv'
<1>1. ASSUME UNCHANGED <<db, phase, req, work>> PROVE AccountInv'
  BY <1>1 DEF AccountInv, Stage, Settles, NothingPlaced, NothingCancelled
<1>2. CASE UNCHANGED vars
  BY <1>1, <1>2 DEF vars
<1>3. CASE Tick
  BY <1>1, <1>3 DEF Tick, txVars
<1>4. CASE Requests
  <2>1. ASSUME NEW r, Open(r), db' = db PROVE AccountInv'
    <3>1. phase = "idle" /\ phase' = "finish" /\ work' = work
      BY <2>1 DEF Open
    <3>2. work' = db'
      BY <2>1, <3>1 DEF AccountInv, Stage
    <3> QED
      BY <3>1, <3>2, FreshSettles
  <2>2. CASE \E r \in EnqueueRequest : AdmitEnqueue(r)
    BY <1>1, <2>2 DEF AdmitEnqueue, txVars
  <2>3. CASE \E r \in EnqueueRequest : BeginEnqueue(r)
    BY <2>1, <2>3 DEF BeginEnqueue
  <2>4. CASE \E id \in 1..MaxJobs : BeginCancel(id)
    BY <2>1, <2>4 DEF BeginCancel
  <2>5. CASE BeginFinish \/ BeginVacation
    BY <2>1, <2>5 DEF BeginFinish, BeginVacation
  <2>6. CASE \E s \in BoostAsks : BeginBoost(s)
    BY <2>1, <2>6 DEF BeginBoost
  <2>7. CASE VacationCheck \/ VacationEnable \/ VacationDisable
    BY <1>1, <2>7 DEF VacationCheck, VacationEnable, VacationDisable, txVars
  <2> QED
    BY <1>4, <2>2, <2>3, <2>4, <2>5, <2>6, <2>7 DEF Requests
<1>5. ASSUME Close(db), db' = db PROVE AccountInv'
  <2>1. work' = db' /\ phase' = "idle"
    BY <1>5 DEF Close
  <2> QED
    BY <2>1, FreshSettles
<1>6. CASE Abort
  BY <1>5, <1>6 DEF Abort
<1>7. CASE Transaction
  <2>1. CASE FinishHead
    BY <2>1, FinishHeadSettles
  <2>2. CASE FinishEnd
    <3>1. /\ phase \in {"finish", "deliver"} /\ phase' = AfterFinish
          /\ UNCHANGED <<db, req, work>>
      BY <2>2 DEF FinishEnd
    <3>2. NothingPlaced(db, work) /\ NothingCancelled(db, work) /\ Settles(db, work)
      BY <3>1 DEF AccountInv, Stage
    <3> QED
      BY <3>1, <3>2, FinishLeaves DEF AccountInv, Stage
  <2>3. CASE FinishFails
    <3>1. /\ phase \in {"finish", "deliver"} /\ phase' = AfterFinish
          /\ UNCHANGED <<db, req>> /\ work' \in {db, work}
      BY <2>3 DEF FinishFails
    <3>2. NothingPlaced(db, work) /\ NothingCancelled(db, work) /\ Settles(db, work)
      BY <3>1 DEF AccountInv, Stage
    <3>3. CASE work' = work
      BY <3>1, <3>2, <3>3, FinishLeaves DEF AccountInv, Stage
    <3>4. CASE work' = db
      BY <3>1, <3>4, FinishLeaves, FreshSettles
    <3> QED
      BY <3>1, <3>3, <3>4
  <2>4. CASE KeepHead
    BY <1>1, <2>4 DEF KeepHead
  <2>5. CASE RescheduleRow \/ ShiftQueue \/ Debit
    BY <2>5, RetimeSettles
  <2>6. CASE RescheduleEnd
    <3>1. /\ phase = "reschedule" /\ UNCHANGED <<db, req, work>>
          /\ \/ req.kind = "enqueue" /\ phase' = "place"
             \/ phase' = "commit"
      BY <2>6 DEF RescheduleEnd
    <3>2. req.kind = "enqueue" => NothingCancelled(db, work)
      BY <3>1 DEF AccountInv, Stage
    <3> QED
      BY <3>1, <3>2 DEF AccountInv, Stage
  <2>7. CASE PlaceOrder
    BY <2>7, PlaceOrderSettles
  <2>8. CASE PlaceEnd
    BY <2>8 DEF PlaceEnd, AccountInv, Stage
  <2>9. CASE RejectEnqueue \/ CancelNotFound \/ NothingToBoost
    BY <1>5, <2>9 DEF RejectEnqueue, CancelNotFound, NothingToBoost
  <2>10. CASE CancelJob
    BY <2>10, CancelJobSettles
  <2>11. CASE Commit
    <3>1. work' = db' /\ phase' = "idle"
      BY <2>11 DEF Commit, Close
    <3> QED
      BY <3>1, FreshSettles
  <2> QED
    BY <1>7, <2>1, <2>2, <2>3, <2>4, <2>5, <2>6, <2>7, <2>8, <2>9, <2>10, <2>11
       DEF Transaction, FinishPass, FinishLosesHead
<1> QED
  BY <1>2, <1>3, <1>4, <1>6, <1>7 DEF Next

-----------------------------------------------------------------------------
(* The operators of the contract, read on the rows. *)

(* Its counts and sums are those of the libraries.                         *)
LEMMA ContractCounts ==
    ASSUME NEW S
    PROVE  Contract!Cardinality(S) = Cardinality(S)
  BY DEF Contract!Cardinality, Cardinality

(* The sums of the contract are the sums of SetSums.                       *)
LEMMA ContractSums ==
    ASSUME NEW S, NEW f
    PROVE  Contract!SumOver(S, f) = SumOf(S, f)
<1>1. Contract!SumOver(S, f) = (CHOOSE g : Sums(g, S, f))[S]
  BY DEF Contract!SumOver, Contract!MapThenSumSet, Contract!MapThenFoldSet, Sums, Some
<1>2. SumOf(S, f) = (CHOOSE g : Sums(g, S, f))[S]
  BY DEF SumOf, MapThenSumSet, MapThenFoldSet, Sums, Some
<1> QED
  BY <1>1, <1>2

\* An order as the contract reads it.
Read(order) == [building |-> order.building, paid |-> order.paid,
                back |-> order.back, state |-> order.state]

ReadDelivered(order) == [Read(order) EXCEPT !.state = "delivered"]

CancelledWith(entry, back) == [entry EXCEPT !.state = "cancelled", !.back = back]

ReadCancelled(order, back) == CancelledWith(Read(order), back)

(* The columns the contract reads.                                         *)
LEMMA ReadColumns ==
    ASSUME NEW order
    PROVE  /\ Read(order).building = order.building /\ Read(order).paid = order.paid
           /\ Read(order).back = order.back /\ Read(order).state = order.state
  BY DEF Read

(* A delivered order reads as before but for its state.                    *)
LEMMA DeliveredRead ==
    ASSUME NEW order \in Order, NEW later \in Order, Fate(order, later), order.state = "open"
    PROVE  Read(later) = ReadDelivered(order) <=> later.state = "delivered"
<1>1. ReadDelivered(order).state = "delivered" /\ Read(later).state = later.state
  BY DEF ReadDelivered, Read
<1>2. ASSUME later.state = "delivered" PROVE Read(later) = ReadDelivered(order)
  <2>1. later.building = order.building /\ later.paid = order.paid /\ later.back = order.back
    BY <1>2 DEF Fate
  <2> QED
    BY <1>2, <2>1 DEF ReadDelivered, Read
<1> QED
  BY <1>1, <1>2

(* A cancelled order reads as before but for its state and the refund.     *)
LEMMA CancelledRead ==
    ASSUME NEW order \in Order, NEW later \in Order, Fate(order, later), order.state = "open"
    PROVE  (\E back \in {0, order.paid \div 2, order.paid} :
              Read(later) = ReadCancelled(order, back)) <=> later.state = "cancelled"
<1>1. ASSUME NEW back, Read(later) = ReadCancelled(order, back) PROVE later.state = "cancelled"
  <2>1. ReadCancelled(order, back).state = "cancelled" /\ Read(later).state = later.state
    BY DEF ReadCancelled, CancelledWith, Read
  <2> QED
    BY <1>1, <2>1
<1>2. ASSUME later.state = "cancelled"
      PROVE  \E back \in {0, order.paid \div 2, order.paid} :
               Read(later) = ReadCancelled(order, back)
  <2>1. /\ later.building = order.building /\ later.paid = order.paid
        /\ later.back \in {0, order.paid \div 2, order.paid}
    BY <1>2 DEF Fate
  <2>2. PICK b, p, k, t : /\ b = order.building /\ p = order.paid
                          /\ k = later.back /\ t = order.back
    OBVIOUS
  <2>3. Read(order) = [building |-> b, paid |-> p, back |-> t, state |-> order.state]
    BY <2>2 DEF Read
  <2>4. ReadCancelled(order, k) = [building |-> b, paid |-> p, back |-> k, state |-> "cancelled"]
    <3>1. PICK r : r = [Read(order) EXCEPT !.state = "cancelled"]
      OBVIOUS
    <3>2. r = [building |-> b, paid |-> p, back |-> t, state |-> "cancelled"]
      BY <2>3, <3>1
    <3>3. ReadCancelled(order, k) = [r EXCEPT !.back = k]
      BY <3>1 DEF ReadCancelled, CancelledWith
    <3> QED
      BY <3>2, <3>3
  <2>5. Read(later) = [building |-> b, paid |-> p, back |-> k, state |-> "cancelled"]
    BY <1>2, <2>1, <2>2 DEF Read
  <2>6. Read(later) = ReadCancelled(order, k) /\ k \in {0, order.paid \div 2, order.paid}
    BY <2>1, <2>2, <2>4, <2>5
  <2> QED
    BY <2>6
<1> QED
  BY <1>1, <1>2

(* An order that met neither end reads as before.                          *)
LEMMA KeptRead ==
    ASSUME NEW order \in Order, NEW later \in Order, Fate(order, later)
    PROVE  \/ Read(later) = Read(order)
           \/ order.state = "open" /\ later.state \in {"delivered", "cancelled"}
  BY DEF Fate, Read

(* The account has an entry for every order.                               *)
LEMMA AccountReads ==
    ASSUME NEW orders \in Seq(Order)
    PROVE  /\ Len(Account(orders)) = Len(orders)
           /\ \A i \in 1..Len(orders) : Account(orders)[i] = Read(orders[i])
<1>1. Account(orders) = [i \in 1..Len(orders) |-> Read(orders[i])]
  BY DEF Account, Read
<1>2. PICK f : f = Account(orders)
  OBVIOUS
<1>3. PICK S : S = {f[i] : i \in 1..Len(orders)}
  OBVIOUS
<1>4. f \in [1..Len(orders) -> S]
  BY <1>1, <1>2, <1>3
<1>5. f \in Seq(S) /\ Len(f) = Len(orders)
  BY <1>4
<1> QED
  BY <1>1, <1>2, <1>5

\* The account of the committed orders, and of those of the next state.
Reads(old, new) ==
    /\ old \in Seq(Order) /\ new \in Seq(Order)
    /\ Account(db.orders) = Account(old) /\ Account(db'.orders) = Account(new)
    /\ Fates(old, new)

(* The contract numbers the orders as the rows do.                         *)
LEMMA ContractIds ==
    ASSUME NEW old, NEW new, Reads(old, new)
    PROVE  /\ Contract!Ids = 1..Len(old)
           /\ Contract!NewIds = Placed(old, new)
           /\ Contract!OpenIds = {i \in 1..Len(old) : old[i].state = "open"}
<1>1. /\ Len(Account(db.orders)) = Len(old) /\ Len(Account(db'.orders)) = Len(new)
      /\ \A i \in 1..Len(old) : Account(db.orders)[i] = Read(old[i])
  BY AccountReads DEF Reads
<1>2. Contract!Ids = 1..Len(old)
  BY <1>1 DEF Contract!Ids
<1>3. Contract!NewIds = Placed(old, new)
  BY <1>1 DEF Contract!NewIds, Placed
<1>4. \A i \in 1..Len(old) : Account(db.orders)[i].state = old[i].state
  BY <1>1, ReadColumns
<1>5. Contract!OpenIds = {i \in 1..Len(old) : old[i].state = "open"}
  BY <1>2, <1>4 DEF Contract!OpenIds
<1> QED
  BY <1>2, <1>3, <1>5

(* What the contract calls delivered are the open orders that turned so.   *)
LEMMA ContractDelivered ==
    ASSUME NEW old, NEW new, Reads(old, new)
    PROVE  Contract!Delivered = Turned(old, new, "delivered")
<1>1. /\ \A i \in 1..Len(old) : Account(db.orders)[i] = Read(old[i])
      /\ \A i \in 1..Len(new) : Account(db'.orders)[i] = Read(new[i])
  BY AccountReads DEF Reads
<1>2. Contract!OpenIds = {i \in 1..Len(old) : old[i].state = "open"}
  BY ContractIds
<1>3. ASSUME NEW i \in 1..Len(old), old[i].state = "open"
      PROVE  Account(db'.orders)[i] = [Account(db.orders)[i] EXCEPT !.state = "delivered"]
               <=> new[i].state = "delivered"
  <2>1. i \in 1..Len(new) /\ Fate(old[i], new[i]) /\ old[i] \in Order /\ new[i] \in Order
    BY DEF Reads, Fates
  <2>2. Read(new[i]) = ReadDelivered(old[i]) <=> new[i].state = "delivered"
    BY <1>3, <2>1, DeliveredRead
  <2>3. [Account(db.orders)[i] EXCEPT !.state = "delivered"] = ReadDelivered(old[i])
    BY <1>1 DEF ReadDelivered
  <2> QED
    BY <1>1, <2>1, <2>2, <2>3
<1>4. Contract!Delivered
        = {i \in Contract!OpenIds :
             Account(db'.orders)[i] = [Account(db.orders)[i] EXCEPT !.state = "delivered"]}
  BY DEF Contract!Delivered
<1> QED
  BY <1>2, <1>3, <1>4 DEF Turned

(* What the contract calls cancelled are the open orders that turned so.   *)
LEMMA ContractCancelled ==
    ASSUME NEW old, NEW new, Reads(old, new)
    PROVE  Contract!Cancelled = Turned(old, new, "cancelled")
<1>1. /\ \A i \in 1..Len(old) : Account(db.orders)[i] = Read(old[i])
      /\ \A i \in 1..Len(new) : Account(db'.orders)[i] = Read(new[i])
  BY AccountReads DEF Reads
<1>2. Contract!OpenIds = {i \in 1..Len(old) : old[i].state = "open"}
  BY ContractIds
<1>3. ASSUME NEW i \in 1..Len(old), old[i].state = "open"
      PROVE  (\E back \in {0, Account(db.orders)[i].paid \div 2, Account(db.orders)[i].paid} :
                Account(db'.orders)[i] = CancelledWith(Account(db.orders)[i], back))
               <=> new[i].state = "cancelled"
  <2>1. i \in 1..Len(new) /\ Fate(old[i], new[i]) /\ old[i] \in Order /\ new[i] \in Order
    BY DEF Reads, Fates
  <2>2. (\E back \in {0, old[i].paid \div 2, old[i].paid} :
           Read(new[i]) = ReadCancelled(old[i], back)) <=> new[i].state = "cancelled"
    BY <1>3, <2>1, CancelledRead
  <2>3. \A back : CancelledWith(Account(db.orders)[i], back) = ReadCancelled(old[i], back)
    BY <1>1 DEF ReadCancelled
  <2>4. Account(db.orders)[i].paid = old[i].paid /\ Account(db'.orders)[i] = Read(new[i])
    BY <1>1, <2>1, ReadColumns
  <2> QED
    BY <2>2, <2>3, <2>4
<1>4. Contract!Cancelled
        = {i \in Contract!OpenIds :
             \E back \in {0, Account(db.orders)[i].paid \div 2, Account(db.orders)[i].paid} :
                Account(db'.orders)[i] = CancelledWith(Account(db.orders)[i], back)}
  BY DEF Contract!Cancelled, CancelledWith
<1> QED
  BY <1>2, <1>3, <1>4 DEF Turned

(* The contract's price of a new order is that of the rows.                *)
LEMMA ContractPrice ==
    ASSUME NEW old, NEW new, Reads(old, new), NEW i \in 1..Len(new)
    PROVE  Contract!Price(i) = PriceOf(new, db'.level, i)
<1>1. /\ Len(Account(db'.orders)) = Len(new)
      /\ \A j \in 1..Len(new) : Account(db'.orders)[j] = Read(new[j])
  BY AccountReads DEF Reads
<1>2. \A j \in 1..Len(new) : /\ Account(db'.orders)[j].state = new[j].state
                             /\ Account(db'.orders)[j].building = new[j].building
  BY <1>1, ReadColumns
<1>3. \A j \in 1..(i - 1) : j \in 1..Len(new)
  BY DEF Reads
<1>4. {j \in 1..(i - 1) : /\ Account(db'.orders)[j].state = "open"
                          /\ Account(db'.orders)[j].building = Account(db'.orders)[i].building}
        = Ahead(new, new[i].building, i - 1)
  BY <1>2, <1>3 DEF Ahead
<1>5. Contract!OpenAhead(i)
        = Contract!Cardinality(
            {j \in 1..(i - 1) :
               /\ Account(db'.orders)[j].state = "open"
               /\ Account(db'.orders)[j].building = Account(db'.orders)[i].building})
  BY DEF Contract!OpenAhead
<1>6. Contract!OpenAhead(i) = Cardinality(Ahead(new, new[i].building, i - 1))
  BY <1>4, <1>5, ContractCounts
<1>7. Contract!Price(i)
        = BaseCost[Account(db'.orders)[i].building]
            * (db'.level[Account(db'.orders)[i].building] + Contract!OpenAhead(i) + 1)
  BY DEF Contract!Price
<1> QED
  BY <1>2, <1>6, <1>7 DEF PriceOf, CostOf

(* An entry is kept, delivered or cancelled, or it is new and open at its   *)
(* price.                                                                   *)
LEMMA EntriesSettle ==
    ASSUME NEW old, NEW new, Reads(old, new), Priced(old, new, db'.level)
    PROVE  /\ Len(Account(db.orders)) <= Len(Account(db'.orders))
           /\ \A i \in Contract!Ids :
                \/ Account(db'.orders)[i] = Account(db.orders)[i]
                \/ i \in Contract!Delivered \cup Contract!Cancelled
           /\ \A i \in Contract!NewIds :
                Account(db'.orders)[i]
                  = [building |-> Account(db'.orders)[i].building, paid |-> Contract!Price(i),
                     back |-> 0, state |-> "open"]
<1>1. /\ Len(Account(db.orders)) = Len(old) /\ Len(Account(db'.orders)) = Len(new)
      /\ \A i \in 1..Len(old) : Account(db.orders)[i] = Read(old[i])
      /\ \A i \in 1..Len(new) : Account(db'.orders)[i] = Read(new[i])
      /\ Len(old) <= Len(new) /\ old \in Seq(Order) /\ new \in Seq(Order)
  BY AccountReads DEF Reads, Fates
<1>2. ASSUME NEW i \in Contract!Ids
      PROVE  \/ Account(db'.orders)[i] = Account(db.orders)[i]
             \/ i \in Contract!Delivered \cup Contract!Cancelled
  <2>1. i \in 1..Len(old) /\ i \in 1..Len(new)
    BY <1>1, ContractIds
  <2>2. Fate(old[i], new[i]) /\ old[i] \in Order /\ new[i] \in Order
    BY <1>1, <2>1 DEF Reads, Fates
  <2>3. CASE Read(new[i]) = Read(old[i])
    BY <1>1, <2>1, <2>3
  <2>4. CASE old[i].state = "open" /\ new[i].state \in {"delivered", "cancelled"}
    <3>1. i \in Turned(old, new, "delivered") \/ i \in Turned(old, new, "cancelled")
      BY <2>1, <2>4 DEF Turned
    <3> QED
      BY <3>1, ContractDelivered, ContractCancelled
  <2> QED
    BY <2>2, <2>3, <2>4, KeptRead
<1>3. ASSUME NEW i \in Contract!NewIds
      PROVE  Account(db'.orders)[i]
               = [building |-> Account(db'.orders)[i].building, paid |-> Contract!Price(i),
                  back |-> 0, state |-> "open"]
  <2>1. i \in Placed(old, new)
    BY ContractIds
  <2>2. i \in 1..Len(new)
    BY <1>1, <2>1 DEF Placed
  <2>3. new[i].state = "open" /\ new[i].back = 0 /\ new[i].paid = PriceOf(new, db'.level, i)
    BY <2>1 DEF Priced
  <2>4. new[i].paid = Contract!Price(i)
    BY <2>2, <2>3, ContractPrice
  <2>5. Account(db'.orders)[i] = Read(new[i]) /\ Read(new[i]).building = new[i].building
    BY <1>1, <2>2, ReadColumns
  <2> QED
    BY <2>3, <2>4, <2>5 DEF Read
<1> QED
  BY <1>1, <1>2, <1>3

(* At most one cancelled order is counted once at most.                    *)
LEMMA CancelledOnce ==
    ASSUME NEW old, NEW new, OneCancel(old, new)
    PROVE  Cardinality(Turned(old, new, "cancelled")) <= 1
<1>1. CASE Turned(old, new, "cancelled") = {}
  BY <1>1, FS_EmptySet
<1>2. CASE Turned(old, new, "cancelled") # {}
  <2>1. PICK i : Turned(old, new, "cancelled") = {i}
    BY <1>2 DEF OneCancel
  <2> QED
    BY <2>1, FS_Singleton
<1> QED
  BY <1>1, <1>2

(* The metal of the contract is what was spent and what came back.         *)
LEMMA MetalSettles ==
    ASSUME NEW old, NEW new, Reads(old, new),
           db'.metal = db.metal - Spent(old, new) + Returned(old, new)
    PROVE  db'.metal = db.metal
             - Contract!SumOver(Contract!NewIds,
                                [i \in Contract!NewIds |-> Account(db'.orders)[i].paid])
             + Contract!SumOver(Contract!Cancelled,
                                [i \in Contract!Cancelled |-> Account(db'.orders)[i].back])
<1>1. PICK N, C : N = Placed(old, new) /\ C = Turned(old, new, "cancelled")
  OBVIOUS
<1>2. Contract!NewIds = N /\ Contract!Cancelled = C
  BY <1>1, ContractIds, ContractCancelled
<1>3. old \in Seq(Order) /\ new \in Seq(Order) /\ Len(old) <= Len(new)
  BY DEF Reads, Fates
<1>4. N \subseteq 1..Len(new) /\ C \subseteq 1..Len(new)
  BY <1>1, <1>3 DEF Placed, Turned
<1>5. ASSUME NEW i \in 1..Len(new)
      PROVE  /\ Account(db'.orders)[i].paid = Prices(new)[i]
             /\ Account(db'.orders)[i].back = Refunds(new)[i]
             /\ Prices(new)[i] \in Int /\ Refunds(new)[i] \in Int
  <2>1. Account(db'.orders)[i] = Read(new[i])
    BY AccountReads DEF Reads
  <2>2. PICK order \in Order : order = new[i]
    BY <1>3
  <2>3. order.paid \in Int /\ order.back \in Int
    BY DEF Order
  <2>4. Prices(new)[i] = order.paid /\ Refunds(new)[i] = order.back
    BY <2>2 DEF Prices, Refunds
  <2> QED
    BY <2>1, <2>2, <2>3, <2>4, ReadColumns
<1>6. IsFiniteSet(N) /\ IsFiniteSet(C)
  <2>1. 1 \in Int /\ Len(new) \in Int
    BY <1>3
  <2>2. IsFiniteSet(1..Len(new))
    BY ONLY <2>1, FS_Interval
  <2> QED
    BY <1>4, <2>2, FS_Subset
<1>7. PICK f, g : /\ f = [i \in N |-> Account(db'.orders)[i].paid]
                  /\ g = [i \in C |-> Account(db'.orders)[i].back]
  OBVIOUS
<1>8. SumOf(N, f) = SumOf(N, Prices(new))
  <2>1. Integral(N, Prices(new))
    BY <1>4, <1>5, <1>6 DEF Integral
  <2>2. \A i \in N : f[i] = Prices(new)[i]
    BY <1>4, <1>5, <1>7
  <2> QED
    BY <2>1, <2>2, SumSame
<1>9. SumOf(C, g) = SumOf(C, Refunds(new))
  <2>1. Integral(C, Refunds(new))
    BY <1>4, <1>5, <1>6 DEF Integral
  <2>2. \A i \in C : g[i] = Refunds(new)[i]
    BY <1>4, <1>5, <1>7
  <2> QED
    BY <2>1, <2>2, SumSame
<1>10. Contract!SumOver(N, f) = Spent(old, new) /\ Contract!SumOver(C, g) = Returned(old, new)
  BY <1>1, <1>8, <1>9, ContractSums DEF Spent, Returned
<1> QED
  BY <1>2, <1>7, <1>10

(* A commit whose transaction settles is a step of the contract.           *)
LEMMA CommitSettles ==
    ASSUME TypeInv, TypeInv', RowsInv', Settles(db, db')
    PROVE  Contract!Settle
<1>1. PICK old \in Seq(Order), new \in Seq(Order) : old = db.orders /\ new = db'.orders
  BY RowFacts DEF TypeInv, TypeOK
<1>2. /\ Fates(old, new) /\ InTurn(old, new) /\ OneCancel(old, new)
      /\ Priced(old, new, db'.level) /\ LevelsAdd(old, new, db.level, db'.level)
      /\ db'.metal = db.metal - Spent(old, new) + Returned(old, new)
  BY <1>1 DEF Settles
<1>3. Reads(old, new)
  BY <1>1, <1>2 DEF Reads
<1>4. /\ Contract!Delivered = Turned(old, new, "delivered")
      /\ Contract!Cancelled = Turned(old, new, "cancelled")
      /\ Contract!OpenIds = {i \in 1..Len(old) : old[i].state = "open"}
  BY <1>3, ContractDelivered, ContractCancelled, ContractIds
<1>5. Contract!OldestFirst
  <2>1. ASSUME NEW i \in Turned(old, new, "delivered"),
               NEW j \in {n \in 1..Len(old) : old[n].state = "open"}, j < i
        PROVE  j \in Turned(old, new, "delivered")
    BY <1>2, <2>1 DEF InTurn, Turned
  <2> QED
    BY <1>4, <2>1 DEF Contract!OldestFirst
<1>6. Contract!Cardinality(Contract!Cancelled) <= 1
  BY <1>2, <1>4, CancelledOnce, ContractCounts
<1>7. Contract!Cardinality({i \in 1..Len(Account(db'.orders)) :
                              Account(db'.orders)[i].state = "open"}) <= QueueLimit
  <2>1. Len(Account(db'.orders)) = Len(new)
        /\ \A i \in 1..Len(new) : Account(db'.orders)[i] = Read(new[i])
    BY <1>3, AccountReads DEF Reads
  <2>2. {i \in 1..Len(Account(db'.orders)) : Account(db'.orders)[i].state = "open"}
          = {i \in 1..Len(db'.orders) : db'.orders[i].state = "open"}
    BY <1>1, <2>1, ReadColumns
  <2>3. db' \in Rows /\ BooksKept(db') /\ CapsKept(db')
    BY DEF TypeInv, TypeOK, RowsInv, Good
  <2> QED
    BY <2>2, <2>3, OpenBounded, ContractCounts
<1>8. db'.level = [b \in Buildings |->
                     db.level[b] + Contract!Cardinality(
                       {i \in Contract!Delivered : Account(db.orders)[i].building = b})]
  <2>1. ASSUME NEW b \in Buildings
        PROVE  db'.level[b] = db.level[b] + Contract!Cardinality(
                 {i \in Contract!Delivered : Account(db.orders)[i].building = b})
    <3>1. \A i \in 1..Len(old) : Account(db.orders)[i].building = old[i].building
      BY <1>3, AccountReads, ReadColumns DEF Reads
    <3>2. {i \in Contract!Delivered : Account(db.orders)[i].building = b}
            = TurnedInto(old, new, b)
      BY <1>4, <3>1 DEF TurnedInto, Turned
    <3> QED
      BY <1>2, <3>2, ContractCounts DEF LevelsAdd
  <2>2. db'.level \in [Buildings -> Nat]
    BY RowFacts DEF TypeInv, TypeOK
  <2> QED
    BY <2>1, <2>2
<1>9. db'.metal >= 0
  BY RowFacts DEF TypeInv, TypeOK
<1>10. /\ Len(Account(db.orders)) <= Len(Account(db'.orders))
       /\ \A i \in Contract!Ids :
            \/ Account(db'.orders)[i] = Account(db.orders)[i]
            \/ i \in Contract!Delivered \cup Contract!Cancelled
       /\ \A i \in Contract!NewIds :
            Account(db'.orders)[i]
              = [building |-> Account(db'.orders)[i].building, paid |-> Contract!Price(i),
                 back |-> 0, state |-> "open"]
  BY <1>2, <1>3, EntriesSettle
<1>11. db'.metal = db.metal
             - Contract!SumOver(Contract!NewIds,
                                [i \in Contract!NewIds |-> Account(db'.orders)[i].paid])
             + Contract!SumOver(Contract!Cancelled,
                                [i \in Contract!Cancelled |-> Account(db'.orders)[i].back])
  BY <1>2, <1>3, MetalSettles
<1> QED
  BY <1>5, <1>6, <1>7, <1>8, <1>9, <1>10, <1>11 DEF Contract!Settle

(* At the start nothing is ordered.                                        *)
LEMMA InitAccount == Init => AccountInv
<1> SUFFICES ASSUME Init PROVE AccountInv
  OBVIOUS
<1>1. db \in Rows /\ work = db /\ phase = "idle"
  BY InitType DEF Init, TypeInv, TypeOK
<1>2. Settles(db, work)
  BY <1>1, SettlesSelf
<1> QED
  BY <1>1, <1>2 DEF AccountInv, Stage

(* The contract starts where the rows do.                                  *)
LEMMA InitContract == Init => Contract!Init
<1> SUFFICES ASSUME Init PROVE Contract!Init
  OBVIOUS
<1>1. /\ db.orders = << >> /\ db.metal = InitialMetal
      /\ db.level = [b \in Buildings |-> 0]
  BY DEF Init
<1>2. Account(db.orders) = << >>
  BY <1>1 DEF Account
<1> QED
  BY <1>1, <1>2 DEF Contract!Init

(* Every step of the queue is one of the contract or changes nothing the    *)
(* contract speaks of.                                                      *)
LEMMA StepContract ==
    TypeInv /\ TypeInv' /\ RowsInv' /\ AccountInv /\ [Next]_vars
        => [Contract!Settle]_(Contract!contractVars)
<1> SUFFICES ASSUME TypeInv, TypeInv', RowsInv', AccountInv, [Next]_vars
             PROVE  [Contract!Settle]_(Contract!contractVars)
  OBVIOUS
<1>1. CASE db' = db
  <2>1. UNCHANGED Contract!contractVars
    BY <1>1 DEF Contract!contractVars, Account
  <2> QED
    BY <2>1
<1>2. CASE db' = work
  <2>1. Settles(db, db')
    BY <1>2 DEF AccountInv
  <2> QED
    BY <2>1, CommitSettles
<1> QED
  BY <1>1, <1>2, OtherSteps

(* On PostgreSQL the queue keeps the contract of BuildContract: a committed *)
(* request pays for what it orders at the price of the level that will be   *)
(* delivered, ends orders oldest first or by a cancel that gives back no    *)
(* more than was paid, and nothing else ever moves an order, a level or the *)
(* metal, whatever fails, is rolled back or is delivered on the way.        *)
THEOREM PostgresKeepsContract ==
    ASSUME Postgres
    PROVE  Spec => ImplementsContract
<1>1. Spec => [](TypeInv /\ RowsInv)
  BY RowsSafe
<1>2. Spec => []AccountInv
  <2>1. TypeInv /\ TypeInv' /\ RowsInv /\ AccountInv /\ [Next]_vars => AccountInv'
    BY StepAccount
  <2> QED
    BY <1>1, <2>1, InitAccount, PTL DEF Spec
<1>3. Spec => Contract!Init
  BY InitContract DEF Spec
<1>4. Spec => [][Contract!Settle]_(Contract!contractVars)
  BY <1>1, <1>2, StepContract, PTL DEF Spec
<1> QED
  BY <1>3, <1>4 DEF ImplementsContract, Contract!Spec
=============================================================================
