--------------------------- MODULE UnitQueueProofs ---------------------------
(***************************************************************************)
(* What is inferred of an order from its row may be wrong; what is         *)
(* delivered is right all the same, as long as passes and requests do not  *)
(* overlap: on SQLite.                                                     *)
(***************************************************************************)
EXTENDS UnitQueue, SetSums

-----------------------------------------------------------------------------
(* Arithmetic. *)

\* The larger and the smaller of two.
Larger(a, b) == Max({a, b})
Smaller(a, b) == Min({a, b})

(* The larger of two integers. *)
LEMMA MaxTwo ==
    ASSUME NEW a \in Int, NEW b \in Int
    PROVE  /\ Larger(a, b) \in Int /\ Larger(a, b) >= a /\ Larger(a, b) >= b
           /\ (Larger(a, b) = a \/ Larger(a, b) = b)
<1>1. \E x \in {a, b} : \A y \in {a, b} : x >= y
  OBVIOUS
<1>2. Max({a, b}) \in {a, b} /\ \A y \in {a, b} : Max({a, b}) >= y
  BY <1>1 DEF Max
<1> QED
  BY <1>2 DEF Larger

(* The smaller of two integers. *)
LEMMA MinTwo ==
    ASSUME NEW a \in Int, NEW b \in Int
    PROVE  /\ Smaller(a, b) \in Int /\ Smaller(a, b) <= a /\ Smaller(a, b) <= b
           /\ (Smaller(a, b) = a \/ Smaller(a, b) = b)
<1>1. \E x \in {a, b} : \A y \in {a, b} : x <= y
  OBVIOUS
<1>2. Min({a, b}) \in {a, b} /\ \A y \in {a, b} : Min({a, b}) <= y
  BY <1>1 DEF Min
<1> QED
  BY <1>2 DEF Smaller

(* Division with rest. *)
LEMMA Division ==
    ASSUME NEW x \in Int, NEW b \in Nat \ {0}
    PROVE  /\ x \div b \in Int
           /\ (x \div b) * b <= x
           /\ x < (x \div b) * b + b
  OBVIOUS

(* A factor that is not negative keeps the order. *)
LEMMA Scales ==
    ASSUME NEW x \in Int, NEW y \in Int, NEW c \in Nat, x <= y
    PROVE  x * c <= y * c
  OBVIOUS

(* Batches, rounded up: as many as it takes, and no more. *)
LEMMA CeilBounds ==
    ASSUME NEW a \in Int, NEW b \in Nat \ {0}
    PROVE  /\ CeilDiv(a, b) \in Int
           /\ a <= CeilDiv(a, b) * b
           /\ CeilDiv(a, b) * b < a + b
<1> DEFINE x == a + b - 1
           d == x \div b
<1>1. x \in Int
  OBVIOUS
<1> HIDE DEF x
<1>2. d \in Int /\ d * b <= x /\ x < d * b + b
  BY <1>1, Division
<1> HIDE DEF d
<1>3. a <= d * b /\ d * b < a + b
  <2>1. d * b \in Int
    BY <1>2
  <2> QED
    BY <1>2, <2>1 DEF x
<1>4. CeilDiv(a, b) = d
  BY DEF CeilDiv, d, x
<1> QED
  BY <1>2, <1>3, <1>4

(* A number whose batches are known. *)
LEMMA CeilIs ==
    ASSUME NEW a \in Int, NEW b \in Nat \ {0}, NEW c \in Int,
           (c - 1) * b < a, a <= c * b
    PROVE  CeilDiv(a, b) = c
<1> DEFINE d == CeilDiv(a, b)
<1>1. d \in Int /\ a <= d * b /\ d * b < a + b
  BY CeilBounds
<1> HIDE DEF d
<1>2. c <= d
  <2> SUFFICES ASSUME d <= c - 1 PROVE FALSE
    BY <1>1
  <2>1. d * b <= (c - 1) * b
    BY <1>1, Scales
  <2>2. d * b \in Int /\ (c - 1) * b \in Int
    BY <1>1
  <2> QED
    BY <1>1, <2>1, <2>2
<1>3. d <= c
  <2> SUFFICES ASSUME c + 1 <= d PROVE FALSE
    BY <1>1
  <2>1. (c + 1) * b <= d * b
    BY <1>1, Scales
  <2>2. (c + 1) * b = c * b + b /\ c * b \in Int /\ d * b \in Int
    BY <1>1
  <2> QED
    BY <1>1, <2>1, <2>2
<1> QED
  BY <1>1, <1>2, <1>3 DEF d

(* More units take at least as many batches, and more capacity at most as    *)
(* many.                                                                     *)
LEMMA CeilMonotone ==
    ASSUME NEW a \in Nat, NEW c \in Nat, a <= c, NEW b \in Nat \ {0}, NEW d \in Nat \ {0}, d <= b
    PROVE  CeilDiv(a, b) <= CeilDiv(c, d) /\ 0 <= CeilDiv(a, b)
<1> DEFINE x == CeilDiv(a, b)
           y == CeilDiv(c, d)
<1>1. x \in Int /\ a <= x * b /\ x * b < a + b
  BY CeilBounds
<1>2. y \in Int /\ c <= y * d /\ y * d < c + d
  BY CeilBounds
<1> HIDE DEF x, y
<1>3. 0 <= x
  <2> SUFFICES ASSUME x <= 0 - 1 PROVE FALSE
    BY <1>1
  <2>1. x * b <= (0 - 1) * b
    BY <1>1, Scales
  <2>2. (0 - 1) * b = 0 - b /\ x * b \in Int
    BY <1>1
  <2> QED
    BY <1>1, <2>1, <2>2
<1>4. 0 <= y
  <2> SUFFICES ASSUME y <= 0 - 1 PROVE FALSE
    BY <1>2
  <2>1. y * d <= (0 - 1) * d
    BY <1>2, Scales
  <2>2. (0 - 1) * d = 0 - d /\ y * d \in Int
    BY <1>2
  <2> QED
    BY <1>2, <2>1, <2>2
<1>5. x <= y
  <2> SUFFICES ASSUME y + 1 <= x PROVE FALSE
    BY <1>1, <1>2
  <2>1. (y + 1) * b <= x * b
    BY <1>1, <1>2, Scales
  <2>2. (y + 1) * b = y * b + b /\ y * b \in Int /\ x * b \in Int /\ y * d \in Int
    BY <1>1, <1>2
  <2>3. y * b < a
    BY <1>1, <2>1, <2>2
  <2>4. d * y <= b * y /\ d * y = y * d /\ b * y = y * b
    BY <1>2, <1>4, Scales
  <2> QED
    BY <1>2, <2>2, <2>3, <2>4
<1> QED
  BY <1>3, <1>5 DEF x, y

(* A level. *)
Levels == Nat \ {0}

(* A duration is a number, as long as its batches.                           *)
LEMMA DurationType ==
    ASSUME NEW a \in Nat, NEW l \in Levels
    PROVE  Duration(a, l) \in Nat /\ Duration(a, l) = CeilDiv(a, l) * Unit
<1>1. CeilDiv(a, l) \in Int /\ 0 <= CeilDiv(a, l)
  BY CeilBounds, CeilMonotone DEF Levels
<1>2. Unit \in Nat
  BY UnitAssumption
<1> QED
  BY <1>1, <1>2 DEF Duration

-----------------------------------------------------------------------------
(* Types. *)

(* The fields of a row. *)
LEMMA JobFields ==
    ASSUME NEW job \in Job
    PROVE  /\ job.id \in 1..MaxOrders /\ job.id \in Nat
           /\ job.amount \in Nat /\ job.amount > 0
           /\ job.start \in Int /\ job.finish \in Int
  BY DEF Job

(* The length of a row is positive. *)
LEMMA ScheduledType ==
    ASSUME NEW job \in Job
    PROVE  /\ Scheduled(job) \in Int /\ Scheduled(job) >= 1
           /\ (job.finish - job.start >= 1 => Scheduled(job) = job.finish - job.start)
           /\ Scheduled(job) >= job.finish - job.start
<1>1. job.finish - job.start \in Int
  BY JobFields
<1> QED
  BY <1>1, MaxTwo DEF Scheduled, Larger

\* The batches a row is scheduled for.
Batches(job) == Larger(1, Scheduled(job) \div Unit)

(* There is at least one batch, and all of them fit in the row. *)
LEMMA BatchesType ==
    ASSUME NEW job \in Job
    PROVE  /\ Batches(job) \in Nat /\ Batches(job) >= 1
           /\ (Scheduled(job) >= Unit => /\ Batches(job) * Unit <= Scheduled(job)
                                         /\ Scheduled(job) < Batches(job) * Unit + Unit)
<1>1. Unit \in Nat \ {0}
  BY UnitAssumption
<1> DEFINE s == Scheduled(job)
           d == s \div Unit
<1>2. s \in Int /\ s >= 1
  BY ScheduledType
<1> HIDE DEF s
<1>3. d \in Int /\ d * Unit <= s /\ s < d * Unit + Unit
  BY <1>1, <1>2, Division
<1>4. Batches(job) = Larger(1, d)
  BY DEF Batches, s
<1> HIDE DEF d
<1>5. Larger(1, d) \in Int /\ Larger(1, d) >= 1 /\ (d >= 1 => Larger(1, d) = d)
  BY <1>3, MaxTwo
<1>6. ASSUME s >= Unit PROVE d >= 1
  <2> SUFFICES ASSUME d <= 0 PROVE FALSE
    BY <1>3
  <2>1. d * Unit <= 0 * Unit
    BY <1>1, <1>3, Scales
  <2>2. d * Unit \in Int
    BY <1>1, <1>3
  <2> QED
    BY <1>1, <1>2, <1>3, <1>6, <2>1, <2>2
<1> QED
  BY <1>3, <1>4, <1>5, <1>6 DEF s

(* What an order is taken to have had, by its batches and what is left. *)
LEMMA TotalOf ==
    ASSUME NEW b \in Nat, b >= 1, NEW a \in Nat, a > 0, NEW l \in Levels
    PROVE  /\ Larger(a, UnitsIn(b, a, l)) \in Nat /\ Larger(a, UnitsIn(b, a, l)) >= a
           /\ (a <= l => Larger(a, UnitsIn(b, a, l)) = (b - 1) * l + a)
           /\ (a > l => Larger(a, UnitsIn(b, a, l)) = a)
<1> DEFINE u == UnitsIn(b, a, l)
<1>1. u = IF a <= l THEN (b - 1) * l + a ELSE Smaller(a, b * l)
  BY DEF UnitsIn, Smaller
<1> HIDE DEF u
<1>2. (b - 1) * l \in Nat /\ b * l \in Nat /\ l \in Nat
  BY DEF Levels
<1>3. CASE a <= l
  <2>1. u = (b - 1) * l + a /\ u \in Int /\ u >= a
    BY <1>1, <1>2, <1>3
  <2>2. Larger(a, u) = u
    BY <2>1, MaxTwo
  <2> QED
    BY <1>2, <1>3, <2>1, <2>2 DEF u
<1>4. CASE a > l
  <2>1. u = Smaller(a, b * l) /\ u \in Int /\ u <= a
    BY <1>1, <1>2, <1>4, MinTwo
  <2>2. Larger(a, u) = a
    BY <2>1, MaxTwo
  <2> QED
    BY <1>2, <1>4, <2>1, <2>2 DEF u
<1> QED
  BY <1>2, <1>3, <1>4

(* What an order is taken to have had: at least what is left, and when that  *)
(* fits in a batch, all the batches before the last.                         *)
LEMMA TotalType ==
    ASSUME NEW job \in Job, NEW l \in Levels
    PROVE  /\ Total(job, l) \in Nat /\ Total(job, l) >= job.amount
           /\ (job.amount <= l => Total(job, l) = (Batches(job) - 1) * l + job.amount)
           /\ (job.amount > l => Total(job, l) = job.amount)
<1>1. PICK a \in Nat : a = job.amount /\ a > 0
  BY JobFields
<1>2. PICK b \in Nat : b = Batches(job) /\ b >= 1
  BY BatchesType
<1>3. Total(job, l) = Larger(a, UnitsIn(b, a, l))
  BY <1>1, <1>2 DEF Total, InferTotal, Batches, Larger
<1>4. PICK x : x = Larger(a, UnitsIn(b, a, l))
  OBVIOUS
<1>5. x \in Nat /\ x >= a /\ (a <= l => x = (b - 1) * l + a) /\ (a > l => x = a)
  <2>1. /\ Larger(a, UnitsIn(b, a, l)) \in Nat /\ Larger(a, UnitsIn(b, a, l)) >= a
        /\ (a <= l => Larger(a, UnitsIn(b, a, l)) = (b - 1) * l + a)
        /\ (a > l => Larger(a, UnitsIn(b, a, l)) = a)
    BY ONLY <1>1, <1>2, l \in Levels, TotalOf
  <2> QED
    BY ONLY <1>4, <2>1
<1>6. Total(job, l) = x
  BY ONLY <1>3, <1>4
<1> QED
  BY ONLY <1>1, <1>2, <1>5, <1>6

\* What a time of e makes due of an order that had T, of which a are left.
Progress(a, T, e, l) ==
    Larger(0, Smaller(a, (IF e < Unit THEN 0 ELSE Smaller(T, (e \div Unit) * l)) - (T - a)))

(* No more is due than is left, and than the batches that are over.          *)
LEMMA ProgressType ==
    ASSUME NEW a \in Nat, NEW T \in Nat, T >= a, NEW e \in Int, NEW l \in Levels
    PROVE  /\ Progress(a, T, e, l) \in Nat /\ Progress(a, T, e, l) <= a
           /\ (Progress(a, T, e, l) > 0 =>
                 \E k \in Nat \ {0} :
                    /\ k * Unit <= e
                    /\ Progress(a, T, e, l) + (T - a) <= k * l
                    /\ \/ Progress(a, T, e, l) = a
                       \/ Progress(a, T, e, l) + (T - a) = k * l)
<1>1. Unit \in Nat \ {0} /\ l \in Nat
  BY UnitAssumption DEF Levels
<1> DEFINE k == e \div Unit
           U == IF e < Unit THEN 0 ELSE Smaller(T, k * l)
           v == U - (T - a)
           m == Smaller(a, v)
           d == Larger(0, m)
<1>2. k \in Int /\ k * Unit <= e /\ e < k * Unit + Unit
  BY <1>1, Division
<1>3. d = Progress(a, T, e, l)
  BY DEF Progress
<1> HIDE DEF k
<1>4. k * l \in Int
  BY <1>1, <1>2
<1>5. Smaller(T, k * l) \in Int /\ Smaller(T, k * l) <= T /\ Smaller(T, k * l) <= k * l
      /\ (Smaller(T, k * l) = T \/ Smaller(T, k * l) = k * l)
  BY <1>4, MinTwo
<1>6. U \in Int /\ (e < Unit => U = 0) /\ (~(e < Unit) => U <= k * l /\ (U = T \/ U = k * l))
  BY <1>5
<1> HIDE DEF U
<1>7. v \in Int /\ v + (T - a) = U
  BY <1>6
<1> HIDE DEF v
<1>8. m \in Int /\ m <= a /\ m <= v /\ (m = a \/ m = v)
  BY <1>7, MinTwo
<1> HIDE DEF m
<1>9. d \in Int /\ d >= 0 /\ d >= m /\ (d = 0 \/ d = m)
  <2>1. PICK z \in Int : z = 0
    OBVIOUS
  <2>2. Larger(z, m) \in Int /\ Larger(z, m) >= z /\ Larger(z, m) >= m /\ (Larger(z, m) = z \/ Larger(z, m) = m)
    BY <1>8, MaxTwo
  <2> QED
    BY <2>1, <2>2
<1> HIDE DEF d
<1>10. d \in Nat /\ d <= a
  BY <1>8, <1>9
<1>11. ASSUME d > 0
       PROVE  \E n \in Nat \ {0} : /\ n * Unit <= e
                                   /\ d + (T - a) <= n * l
                                   /\ (d = a \/ d + (T - a) = n * l)
  <2>1. d = m
    BY <1>9, <1>11
  <2>2. ~(e < Unit)
    BY <1>6, <1>7, <1>8, <1>11, <2>1
  <2>3. k >= 1
    <3> SUFFICES ASSUME k <= 0 PROVE FALSE
      BY <1>2
    <3>1. k * Unit <= 0
      <4>1. k * Unit <= 0 * Unit
        BY <1>1, <1>2, Scales
      <4> QED
        BY <1>1, <4>1
    <3>2. k * Unit \in Int
      BY <1>1, <1>2
    <3> QED
      BY <1>1, <1>2, <2>2, <3>1, <3>2
  <2>4. U <= k * l /\ (U = T \/ U = k * l)
    BY <1>6, <2>2
  <2>5. d + (T - a) <= k * l
    BY <1>4, <1>6, <1>7, <1>8, <2>1, <2>4
  <2>6. d = a \/ d + (T - a) = k * l
    BY <1>4, <1>6, <1>7, <1>8, <2>1, <2>4
  <2>7. k \in Nat \ {0}
    BY <1>2, <2>3
  <2> QED
    BY <1>2, <2>5, <2>6, <2>7
<1> QED
  BY <1>3, <1>10, <1>11

(* What is due of a row: all of it when its time is over; before that at     *)
(* most what is left, and no more than the batches that are over.            *)
LEMMA DueType ==
    ASSUME NEW job \in Job, NEW l \in Levels, NEW t \in Int
    PROVE  /\ ToDeliver(job, l, t) \in Nat /\ ToDeliver(job, l, t) <= job.amount
           /\ (t >= job.finish => ToDeliver(job, l, t) = job.amount)
           /\ (t < job.finish /\ ToDeliver(job, l, t) > 0 =>
                \E k \in Nat \ {0} :
                   /\ k * Unit <= t - job.start
                   /\ ToDeliver(job, l, t) + (Total(job, l) - job.amount) <= k * l
                   /\ \/ ToDeliver(job, l, t) = job.amount
                      \/ ToDeliver(job, l, t) + (Total(job, l) - job.amount) = k * l)
<1>1. /\ job.amount \in Nat /\ job.start \in Int /\ job.finish \in Int
      /\ t - job.start \in Int
  BY JobFields
<1>2. Total(job, l) \in Nat /\ Total(job, l) >= job.amount
  BY TotalType
<1>3. ToDeliver(job, l, t) = IF t >= job.finish THEN job.amount
                             ELSE Progress(job.amount, Total(job, l), t - job.start, l)
  BY DEF ToDeliver, UnitsElapsed, Progress, Larger, Smaller
<1>4. CASE t >= job.finish
  BY <1>1, <1>3, <1>4
<1>5. CASE ~(t >= job.finish)
  <2>1. ToDeliver(job, l, t) = Progress(job.amount, Total(job, l), t - job.start, l)
    BY <1>3, <1>5
  <2> QED
    BY <1>1, <1>2, <1>5, <2>1, ProgressType
<1> QED
  BY <1>4, <1>5

-----------------------------------------------------------------------------
(* Rescheduling. *)

\* A row and what becomes of it: the order is the same.
Same(new, old) == new.id = old.id /\ new.amount = old.amount

SameOrders(r, q) == Len(r) = Len(q) /\ \A i \in 1..Len(q) : Same(r[i], q[i])

\* Each row but the first starts when the one before it ends, or later, and
\* has the time that it takes.
Follows(r, l) ==
    \A i \in 1..Len(r) : i # 1 => /\ r[i - 1].finish <= r[i].start
                                 /\ r[i].start + Duration(r[i].amount, l) <= r[i].finish

\* ... and no later.
Seamless(r) == \A i \in 1..Len(r) : i # 1 => r[i].start = r[i - 1].finish

\* When the rows end.
IsEnds(f, q, head, l) ==
    f = [i \in DOMAIN q |-> IF i = 1 THEN head.finish ELSE f[i - 1] + Duration(q[i].amount, l)]

Ends(q, head, l) == CHOOSE f : IsEnds(f, q, head, l)

(* The ends of the rows can be computed one after the other. *)
LEMMA EndsExist ==
    ASSUME NEW q \in Seq(Job), NEW head \in Job, NEW l \in Levels
    PROVE  \E f \in [DOMAIN q -> Int] : IsEnds(f, q, head, l)
<1> DEFINE To(n) == \E f \in [1..n -> Int] :
                      \A i \in 1..n : f[i] = IF i = 1 THEN head.finish
                                             ELSE f[i - 1] + Duration(q[i].amount, l)
           S == {n \in Nat : n <= Len(q) => To(n)}
<1>1. head.finish \in Int
  BY JobFields
<1>2. 0 \in S
  <2> DEFINE f == [i \in 1..0 |-> 0]
  <2>1. f \in [1..0 -> Int]
    OBVIOUS
  <2>2. \A i \in 1..0 : FALSE
    OBVIOUS
  <2> HIDE DEF f
  <2>3. To(0)
    BY <2>1, <2>2
  <2> QED
    BY <2>3
<1>3. ASSUME NEW n \in Nat, n \in S PROVE n + 1 \in S
  <2> SUFFICES ASSUME n + 1 <= Len(q) PROVE To(n + 1)
    OBVIOUS
  <2>1. Len(q) \in Nat /\ n <= Len(q) /\ n + 1 \in 1..Len(q)
    OBVIOUS
  <2>2. PICK f \in [1..n -> Int] :
           \A i \in 1..n : f[i] = IF i = 1 THEN head.finish
                                  ELSE f[i - 1] + Duration(q[i].amount, l)
    BY <1>3, <2>1
  <2> DEFINE x == IF n + 1 = 1 THEN head.finish ELSE f[n] + Duration(q[n + 1].amount, l)
             g == [i \in 1..n + 1 |-> IF i = n + 1 THEN x ELSE f[i]]
  <2>3. Duration(q[n + 1].amount, l) \in Int
    BY SMTT(20), <2>1, JobFields, DurationType
  <2>4. x \in Int
    BY <1>1, <2>3
  <2> HIDE DEF x
  <2>5. g \in [1..n + 1 -> Int]
    BY <2>4
  <2>6. ASSUME NEW i \in 1..n + 1
        PROVE  g[i] = IF i = 1 THEN head.finish ELSE g[i - 1] + Duration(q[i].amount, l)
    <3>1. CASE i = n + 1
      <4>1. g[i] = x
        BY <3>1
      <4>2. n + 1 # 1 => g[i - 1] = f[n]
        BY <3>1
      <4> QED
        BY <3>1, <4>1, <4>2 DEF x
    <3>2. CASE i \in 1..n
      <4>1. g[i] = f[i] /\ (i # 1 => g[i - 1] = f[i - 1])
        BY <3>2
      <4> QED
        BY <2>2, <3>2, <4>1
    <3> QED
      BY <3>1, <3>2
  <2> HIDE DEF g
  <2> QED
    BY <2>5, <2>6
<1> HIDE DEF S
<1>4. Nat \subseteq S
  BY <1>2, <1>3, Induct
<1>5. To(Len(q))
  <2>1. Len(q) \in S
    BY <1>4
  <2> QED
    BY <2>1 DEF S
<1>6. PICK f \in [1..Len(q) -> Int] :
         \A i \in 1..Len(q) : f[i] = IF i = 1 THEN head.finish
                                     ELSE f[i - 1] + Duration(q[i].amount, l)
  BY <1>5
<1>7. DOMAIN q = 1..Len(q)
  OBVIOUS
<1>8. f = [i \in DOMAIN q |-> IF i = 1 THEN head.finish ELSE f[i - 1] + Duration(q[i].amount, l)]
  BY <1>6, <1>7
<1> QED
  BY <1>6, <1>7, <1>8 DEF IsEnds

(* They are numbers.                                                         *)
LEMMA EndsAre ==
    ASSUME NEW q \in Seq(Job), NEW head \in Job, NEW l \in Levels
    PROVE  \A i \in 1..Len(q) : /\ Ends(q, head, l)[i] \in Int
                               /\ Ends(q, head, l)[i] =
                                     IF i = 1 THEN head.finish
                                     ELSE Ends(q, head, l)[i - 1] + Duration(q[i].amount, l)
<1> DEFINE e == Ends(q, head, l)
<1>1. IsEnds(e, q, head, l)
  BY EndsExist DEF Ends
<1> HIDE DEF e
<1>2. DOMAIN q = 1..Len(q) /\ Len(q) \in Nat
  OBVIOUS
<1>3. \A i \in 1..Len(q) : e[i] = IF i = 1 THEN head.finish ELSE e[i - 1] + Duration(q[i].amount, l)
  BY <1>1, <1>2 DEF IsEnds
<1> DEFINE S == {n \in Nat : n + 1 \in 1..Len(q) => e[n + 1] \in Int}
<1>4. 0 \in S
  BY <1>3, JobFields
<1>5. ASSUME NEW n \in Nat, n \in S PROVE n + 1 \in S
  <2> SUFFICES ASSUME n + 1 + 1 \in 1..Len(q) PROVE e[n + 1 + 1] \in Int
    OBVIOUS
  <2>1. e[n + 1] \in Int
    BY <1>2, <1>5
  <2>2. Duration(q[n + 1 + 1].amount, l) \in Int
    BY <1>2, JobFields, DurationType
  <2>3. e[n + 1 + 1] = e[n + 1] + Duration(q[n + 1 + 1].amount, l)
    BY <1>2, <1>3
  <2> QED
    BY <2>1, <2>2, <2>3
<1> HIDE DEF S
<1>6. Nat \subseteq S
  BY <1>4, <1>5, Induct
<1>7. \A i \in 1..Len(q) : e[i] \in Int
  <2> TAKE i \in 1..Len(q)
  <2>1. i - 1 \in Nat /\ (i - 1) + 1 = i
    BY <1>2
  <2> QED
    BY <1>6, <2>1 DEF S
<1> QED
  BY <1>3, <1>7 DEF e

(* A rescheduled queue has the same orders, one after the other.             *)
LEMMA ChainIs ==
    ASSUME NEW q \in Seq(Job), q # <<>>, NEW head \in Job, Same(head, q[1]), NEW l \in Levels
    PROVE  /\ Chain(q, head, l) \in Seq(Job) /\ SameOrders(Chain(q, head, l), q)
           /\ Chain(q, head, l)[1] = head
           /\ Follows(Chain(q, head, l), l) /\ Seamless(Chain(q, head, l))
<1> DEFINE e == Ends(q, head, l)
           c == Chain(q, head, l)
<1>1. DOMAIN q = 1..Len(q) /\ Len(q) \in Nat /\ Len(q) >= 1
  OBVIOUS
<1>2. c = [i \in DOMAIN q |-> IF i = 1 THEN head
                              ELSE [q[i] EXCEPT !.start = e[i - 1], !.finish = e[i]]]
  BY DEF Chain, Ends, IsEnds
<1>3. \A i \in 1..Len(q) : e[i] \in Int /\ (i = 1 => e[i] = head.finish)
                           /\ (i # 1 => e[i] = e[i - 1] + Duration(q[i].amount, l))
  BY EndsAre
<1> HIDE DEF e, c
<1>4. ASSUME NEW i \in 1..Len(q)
      PROVE  c[i] \in Job /\ Same(c[i], q[i]) /\ c[i].finish = e[i] /\ (i # 1 => c[i].start = e[i - 1])
  <2>1. CASE i = 1
    <3>1. c[i] = head
      BY <1>1, <1>2, <2>1
    <3> QED
      BY <1>3, <2>1, <3>1
  <2>2. CASE i # 1
    <3>1. PICK s \in Int : s = e[i - 1]
      BY <1>1, <1>3, <2>2
    <3>2. PICK f \in Int : f = e[i]
      BY <1>3
    <3>3. PICK j \in Job : j = q[i]
      OBVIOUS
    <3>4. c[i] = [j EXCEPT !.start = s, !.finish = f]
      BY <1>1, <1>2, <2>2, <3>1, <3>2, <3>3
    <3>5. /\ [j EXCEPT !.start = s, !.finish = f] \in Job
          /\ Same([j EXCEPT !.start = s, !.finish = f], j)
          /\ [j EXCEPT !.start = s, !.finish = f].finish = f
          /\ [j EXCEPT !.start = s, !.finish = f].start = s
      BY DEF Job, Same
    <3> QED
      BY <3>1, <3>2, <3>3, <3>4, <3>5
  <2> QED
    BY <2>1, <2>2
<1>5. c \in [1..Len(q) -> Job]
  BY <1>1, <1>2, <1>4
<1>6. c \in Seq(Job) /\ Len(c) = Len(q)
  BY <1>1, <1>5
<1>7. SameOrders(c, q)
  BY <1>4, <1>6 DEF SameOrders
<1>8. c[1] = head
  <2>1. 1 \in DOMAIN q
    BY <1>1
  <2> QED
    BY <1>2, <2>1
<1>9. Seamless(c)
  <2>1. ASSUME NEW i \in 1..Len(q), i # 1 PROVE c[i].start = c[i - 1].finish
    <3>1. i - 1 \in 1..Len(q)
      BY <1>1, <2>1
    <3> QED
      BY <1>4, <2>1, <3>1
  <2> QED
    BY <1>6, <2>1 DEF Seamless
<1>10. Follows(c, l)
  <2>1. ASSUME NEW i \in 1..Len(q), i # 1
        PROVE  c[i - 1].finish <= c[i].start /\ c[i].start + Duration(c[i].amount, l) <= c[i].finish
    <3>1. i - 1 \in 1..Len(q)
      BY <1>1, <2>1
    <3>2. c[i].start = e[i - 1] /\ c[i - 1].finish = e[i - 1] /\ c[i].finish = e[i]
      BY <1>4, <2>1, <3>1
    <3>3. c[i].amount = q[i].amount
      BY <1>4 DEF Same
    <3>4. e[i] = e[i - 1] + Duration(q[i].amount, l) /\ e[i - 1] \in Int /\ e[i] \in Int
      BY <1>3, <2>1, <3>1
    <3>5. Duration(q[i].amount, l) \in Nat
      BY SMTT(20), JobFields, DurationType
    <3> QED
      BY <3>2, <3>3, <3>4, <3>5
  <2> QED
    BY <1>6, <2>1 DEF Follows
<1> QED
  BY <1>6, <1>7, <1>8, <1>9, <1>10 DEF c

(* What is left of a batch, and the batches after it, take some time.        *)
LEMMA RemainingType ==
    ASSUME NEW job \in Job, NEW l \in Levels, NEW t \in Int
    PROVE  /\ LiveRemaining(job, l, t) \in Int
           /\ t + LiveRemaining(job, l, t) >=
                job.start + (CeilDiv(Total(job, l) - job.amount, l) + CeilDiv(job.amount, l)) * Unit
<1>1. /\ job.amount \in Nat /\ job.start \in Int /\ Unit \in Nat /\ l \in Nat \ {0}
      /\ Total(job, l) - job.amount \in Int
  BY JobFields, UnitAssumption, TotalType DEF Levels
<1> DEFINE a == CeilDiv(Total(job, l) - job.amount, l)
           b == CeilDiv(job.amount, l)
           x == job.start + (a + 1) * Unit - t
<1>2. a \in Int /\ b \in Int
  <2>1. PICK u \in Int : u = Total(job, l) - job.amount
    BY <1>1
  <2>2. PICK v \in Int : v = job.amount
    BY <1>1
  <2>3. CeilDiv(u, l) \in Int /\ CeilDiv(v, l) \in Int
    BY <1>1, CeilBounds
  <2> QED
    BY <2>1, <2>2, <2>3
<1>3. LiveRemaining(job, l, t) = Larger(0, x) + (b - 1) * Unit
  BY DEF LiveRemaining, Larger
<1> HIDE DEF a, b
<1>4. x \in Int /\ (a + 1) * Unit \in Int /\ (b - 1) * Unit \in Int
  BY <1>1, <1>2
<1>5. (a + 1) * Unit + (b - 1) * Unit = (a + b) * Unit
  BY <1>1, <1>2
<1>6. PICK y \in Int : y = Larger(0, x) /\ y >= x
  <2>1. PICK z \in Int : z = 0
    OBVIOUS
  <2>2. Larger(z, x) \in Int /\ Larger(z, x) >= x
    BY <1>4, <2>1, MaxTwo
  <2> QED
    BY <2>1, <2>2
<1>7. LiveRemaining(job, l, t) = y + (b - 1) * Unit
  BY <1>3, <1>6
<1>8. y >= job.start + (a + 1) * Unit - t
  BY <1>6
<1> QED
  <2>1. t + (y + (b - 1) * Unit) >= job.start + (a + b) * Unit
    BY <1>1, <1>2, <1>4, <1>5, <1>6, <1>8
  <2>2. y + (b - 1) * Unit \in Int
    BY <1>4
  <2> QED
    BY <1>7, <2>1, <2>2 DEF a, b

(* A row that is synchronised keeps its order: it keeps its start or starts  *)
(* now, with the time that it takes.                                         *)
LEMMA SyncHeadIs ==
    ASSUME NEW job \in Job, NEW l \in Levels, NEW t \in Int
    PROVE  /\ SyncHead(job, l, t) \in Job /\ Same(SyncHead(job, l, t), job)
           /\ \/ /\ SyncHead(job, l, t).start = job.start
                 /\ SyncHead(job, l, t).finish = t + LiveRemaining(job, l, t)
              \/ /\ SyncHead(job, l, t).start = t
                 /\ SyncHead(job, l, t).finish = t + Duration(job.amount, l)
<1>1. PICK x \in Int : x = t + LiveRemaining(job, l, t)
  BY RemainingType
<1>2. PICK y \in Int : y = t + Duration(job.amount, l)
  BY JobFields, DurationType
<1>3. SyncHead(job, l, t) = IF Matches(job, l) THEN [job EXCEPT !.finish = x]
                            ELSE [job EXCEPT !.start = t, !.finish = y]
  BY <1>1, <1>2 DEF SyncHead
<1>4. /\ [job EXCEPT !.finish = x] \in Job /\ Same([job EXCEPT !.finish = x], job)
      /\ [job EXCEPT !.finish = x].start = job.start
      /\ [job EXCEPT !.finish = x].finish = x
  BY DEF Job, Same
<1>5. /\ [job EXCEPT !.start = t, !.finish = y] \in Job
      /\ Same([job EXCEPT !.start = t, !.finish = y], job)
      /\ [job EXCEPT !.start = t, !.finish = y].start = t
      /\ [job EXCEPT !.start = t, !.finish = y].finish = y
  BY DEF Job, Same
<1> QED
  BY <1>1, <1>2, <1>3, <1>4, <1>5

(* A synchronised queue has the same orders, one after the other.            *)
LEMMA SyncIs ==
    ASSUME NEW q \in Seq(Job), NEW l \in Levels, NEW t \in Int
    PROVE  /\ Sync(q, l, t) \in Seq(Job) /\ SameOrders(Sync(q, l, t), q)
           /\ Follows(Sync(q, l, t), l) /\ Seamless(Sync(q, l, t))
           /\ (q # <<>> => Sync(q, l, t)[1] = SyncHead(q[1], l, t))
<1>1. CASE q = <<>>
  <2>1. Sync(q, l, t) = q /\ Len(q) = 0
    BY <1>1 DEF Sync
  <2>2. \A i \in 1..0 : FALSE
    OBVIOUS
  <2> QED
    BY <1>1, <2>1, <2>2 DEF SameOrders, Follows, Seamless
<1>2. CASE q # <<>>
  <2>1. q[1] \in Job
    <3>1. 1 \in 1..Len(q)
      BY <1>2
    <3> QED
      BY <3>1
  <2>2. SyncHead(q[1], l, t) \in Job /\ Same(SyncHead(q[1], l, t), q[1])
    BY <2>1, SyncHeadIs
  <2>3. Sync(q, l, t) = Chain(q, SyncHead(q[1], l, t), l)
    BY <1>2 DEF Sync
  <2> QED
    BY <1>2, <2>2, <2>3, ChainIs
<1> QED
  BY <1>1, <1>2

(* A recalculated queue begins now. *)
LEMMA RecalculateIs ==
    ASSUME NEW q \in Seq(Job), NEW l \in Levels, NEW t \in Int
    PROVE  /\ Recalculate(q, l, t) \in Seq(Job) /\ SameOrders(Recalculate(q, l, t), q)
           /\ Follows(Recalculate(q, l, t), l) /\ Seamless(Recalculate(q, l, t))
           /\ (q # <<>> => /\ Recalculate(q, l, t)[1].start = t
                           /\ Recalculate(q, l, t)[1].finish = t + Duration(q[1].amount, l))
<1>1. CASE q = <<>>
  <2>1. Recalculate(q, l, t) = q /\ Len(q) = 0
    BY <1>1 DEF Recalculate
  <2>2. \A i \in 1..0 : FALSE
    OBVIOUS
  <2> QED
    BY <1>1, <2>1, <2>2 DEF SameOrders, Follows, Seamless
<1>2. CASE q # <<>>
  <2>1. PICK j \in Job : j = q[1]
    <3>1. 1 \in 1..Len(q)
      BY <1>2
    <3> QED
      BY <3>1
  <2>2. PICK y \in Int : y = t + Duration(j.amount, l)
    BY JobFields, DurationType
  <2> DEFINE h == [j EXCEPT !.start = t, !.finish = y]
  <2>3. h \in Job /\ Same(h, j) /\ h.start = t /\ h.finish = y
    BY DEF Job, Same
  <2>4. Recalculate(q, l, t) = Chain(q, h, l)
    BY <1>2, <2>1, <2>2 DEF Recalculate
  <2> HIDE DEF h
  <2>5. /\ Chain(q, h, l) \in Seq(Job) /\ SameOrders(Chain(q, h, l), q)
        /\ Chain(q, h, l)[1] = h
        /\ Follows(Chain(q, h, l), l) /\ Seamless(Chain(q, h, l))
    BY <1>2, <2>1, <2>3, ChainIs
  <2> QED
    BY <2>1, <2>2, <2>3, <2>4, <2>5
<1> QED
  BY <1>1, <1>2

-----------------------------------------------------------------------------
(* The finish pass. *)

\* What is left of a queue after its first n rows.
Later(r, q, n) == Len(r) = Len(q) - n /\ \A i \in 1..Len(r) : Same(r[i], q[n + i])

\* What is left after one more.
NextRest(r, l, t) == IF kind = "barracks" THEN Sync(Tail(r), l, t) ELSE Tail(r)

IsRest(f, q, l, t) ==
    f = [n \in 0..Len(q) |->
            IF n = 0 THEN q
            ELSE IF kind = "barracks" THEN Sync(Tail(f[n - 1]), l, t)
            ELSE Tail(f[n - 1])]

(* The rest of a queue without its first row.                                *)
LEMMA TailIs ==
    ASSUME NEW r \in Seq(Job), r # <<>>
    PROVE  /\ Tail(r) \in Seq(Job) /\ Later(Tail(r), r, 1)
           /\ \A i \in 1..Len(Tail(r)) : i + 1 \in 1..Len(r) /\ Tail(r)[i] = r[i + 1]
           /\ Len(Tail(r)) = Len(r) - 1
<1>1. /\ Tail(r) \in Seq(Job) /\ Len(Tail(r)) = Len(r) - 1 /\ Len(r) \in Nat
      /\ \A i \in 1..Len(Tail(r)) : Tail(r)[i] = r[i + 1]
  OBVIOUS
<1>2. \A i \in 1..Len(Tail(r)) : i + 1 \in 1..Len(r) /\ 1 + i = i + 1
  BY <1>1
<1> QED
  BY <1>1, <1>2 DEF Later, Same

(* One more row less. *)
LEMMA NextRestIs ==
    ASSUME NEW q \in Seq(Job), NEW n \in Nat, n < Len(q), NEW r \in Seq(Job), Later(r, q, n),
           NEW l \in Levels, NEW t \in Int
    PROVE  NextRest(r, l, t) \in Seq(Job) /\ Later(NextRest(r, l, t), q, n + 1)
<1>1. Len(r) = Len(q) - n /\ Len(q) \in Nat /\ r # <<>>
  BY DEF Later
<1>2. PICK s \in Seq(Job) : s = Tail(r)
  BY <1>1, TailIs
<1>3. /\ Len(s) = Len(r) - 1
      /\ \A i \in 1..Len(s) : i + 1 \in 1..Len(r) /\ s[i] = r[i + 1]
  BY <1>1, <1>2, TailIs
<1>4. \A i \in 1..Len(s) : Same(s[i], q[n + 1 + i])
  <2> TAKE i \in 1..Len(s)
  <2>1. i + 1 \in 1..Len(r) /\ s[i] = r[i + 1]
    BY <1>3
  <2>2. n + (i + 1) = n + 1 + i
    BY <1>1, <1>3
  <2>3. Same(r[i + 1], q[n + (i + 1)])
    BY <2>1 DEF Later
  <2> QED
    BY <2>1, <2>2, <2>3
<1>5. Len(s) = Len(q) - (n + 1)
  BY <1>1, <1>3
<1>6. PICK z \in Seq(Job) : z = Sync(s, l, t)
  BY SyncIs
<1>7. Len(z) = Len(s) /\ \A i \in 1..Len(s) : Same(z[i], s[i])
  BY <1>6, SyncIs DEF SameOrders
<1>8. \A i \in 1..Len(z) : Same(z[i], q[n + 1 + i])
  <2> TAKE i \in 1..Len(z)
  <2>1. Same(z[i], s[i]) /\ Same(s[i], q[n + 1 + i])
    BY <1>4, <1>7
  <2> QED
    BY <2>1 DEF Same
<1>9. NextRest(r, l, t) = IF kind = "barracks" THEN z ELSE s
  BY <1>2, <1>6 DEF NextRest
<1> QED
  BY <1>4, <1>5, <1>7, <1>8, <1>9 DEF Later

(* The rests can be computed one after the other. *)
LEMMA RestExists ==
    ASSUME NEW q \in Seq(Job), NEW l \in Levels, NEW t \in Int
    PROVE  \E f \in [0..Len(q) -> Seq(Job)] : IsRest(f, q, l, t)
<1> DEFINE To(n) == \E f \in [0..n -> Seq(Job)] :
                      /\ f[0] = q
                      /\ \A i \in 0..n : Later(f[i], q, i)
                      /\ \A i \in 1..n : f[i] = NextRest(f[i - 1], l, t)
           S == {n \in Nat : n <= Len(q) => To(n)}
<1>1. Len(q) \in Nat
  OBVIOUS
<1>2. 0 \in S
  <2> DEFINE f == [i \in 0..0 |-> q]
  <2>1. f \in [0..0 -> Seq(Job)] /\ f[0] = q
    OBVIOUS
  <2>2. Later(q, q, 0)
    <3>1. \A i \in 1..Len(q) : 0 + i = i
      BY <1>1
    <3> QED
      BY <1>1, <3>1 DEF Later, Same
  <2>3. (\A i \in 1..0 : FALSE) /\ \A i \in 0..0 : i = 0
    OBVIOUS
  <2> HIDE DEF f
  <2>4. To(0)
    BY <2>1, <2>2, <2>3
  <2> QED
    BY <2>4
<1>3. ASSUME NEW n \in Nat, n \in S PROVE n + 1 \in S
  <2> HIDE DEF To
  <2> SUFFICES ASSUME n + 1 <= Len(q) PROVE To(n + 1)
    OBVIOUS
  <2> USE DEF To
  <2>1. n < Len(q) /\ n <= Len(q)
    BY <1>1
  <2>2. PICK f \in [0..n -> Seq(Job)] :
           /\ f[0] = q
           /\ \A i \in 0..n : Later(f[i], q, i)
           /\ \A i \in 1..n : f[i] = NextRest(f[i - 1], l, t)
    BY <1>3, <2>1
  <2>3. PICK r \in Seq(Job) : r = f[n]
    OBVIOUS
  <2>4. Later(r, q, n)
    BY <2>2, <2>3
  <2>5. PICK s \in Seq(Job) : s = NextRest(r, l, t) /\ Later(s, q, n + 1)
    BY <2>1, <2>4, NextRestIs
  <2> DEFINE g == [i \in 0..n + 1 |-> IF i = n + 1 THEN s ELSE f[i]]
  <2>6. g \in [0..n + 1 -> Seq(Job)]
    OBVIOUS
  <2>7. g[0] = q
    BY <2>2
  <2>8. \A i \in 0..n + 1 : Later(g[i], q, i)
    <3> TAKE i \in 0..n + 1
    <3>1. i = n + 1 \/ i \in 0..n
      OBVIOUS
    <3> QED
      BY <2>2, <2>5, <3>1
  <2>9. \A i \in 1..n + 1 : g[i] = NextRest(g[i - 1], l, t)
    <3> TAKE i \in 1..n + 1
    <3>1. CASE i = n + 1
      <4>1. g[i] = s /\ g[i - 1] = f[n]
        BY <3>1
      <4> QED
        BY <2>3, <2>5, <4>1
    <3>2. CASE i \in 1..n
      <4>1. g[i] = f[i] /\ g[i - 1] = f[i - 1]
        BY <3>2
      <4> QED
        BY <2>2, <3>2, <4>1
    <3> QED
      BY <3>1, <3>2
  <2> HIDE DEF g
  <2> QED
    BY <2>6, <2>7, <2>8, <2>9
<1> HIDE DEF S
<1>4. Nat \subseteq S
  BY <1>2, <1>3, Induct
<1>5. To(Len(q))
  <2>1. Len(q) \in S
    BY <1>1, <1>4
  <2> QED
    BY <1>1, <2>1 DEF S
<1>6. PICK f \in [0..Len(q) -> Seq(Job)] :
         /\ f[0] = q
         /\ \A i \in 1..Len(q) : f[i] = NextRest(f[i - 1], l, t)
  BY <1>5
<1>7. \A n \in 0..Len(q) : f[n] = IF n = 0 THEN q
                                  ELSE IF kind = "barracks" THEN Sync(Tail(f[n - 1]), l, t)
                                  ELSE Tail(f[n - 1])
  <2> TAKE n \in 0..Len(q)
  <2>1. n = 0 \/ n \in 1..Len(q)
    OBVIOUS
  <2> QED
    BY <1>6, <2>1 DEF NextRest
<1> QED
  BY <1>6, <1>7 DEF IsRest

(* They are what is left after the first rows.                               *)
LEMMA RestAre ==
    ASSUME NEW q \in Seq(Job), NEW l \in Levels, NEW t \in Int
    PROVE  /\ DOMAIN Rest(q, l, t) = 0..Len(q)
           /\ Rest(q, l, t)[0] = q
           /\ \A n \in 1..Len(q) : Rest(q, l, t)[n] = NextRest(Rest(q, l, t)[n - 1], l, t)
           /\ \A n \in 0..Len(q) : Rest(q, l, t)[n] \in Seq(Job) /\ Later(Rest(q, l, t)[n], q, n)
<1> DEFINE f == Rest(q, l, t)
<1>1. f = CHOOSE g : IsRest(g, q, l, t)
  BY DEF Rest, IsRest
<1>2. IsRest(f, q, l, t)
  BY <1>1, RestExists
<1> HIDE DEF f
<1>3. Len(q) \in Nat
  OBVIOUS
<1>4. DOMAIN f = 0..Len(q)
  BY <1>2 DEF IsRest
<1>5. \A n \in 0..Len(q) : f[n] = IF n = 0 THEN q
                                  ELSE IF kind = "barracks" THEN Sync(Tail(f[n - 1]), l, t)
                                  ELSE Tail(f[n - 1])
  BY <1>2 DEF IsRest
<1>6. f[0] = q
  BY <1>3, <1>5
<1>7. \A n \in 1..Len(q) : f[n] = NextRest(f[n - 1], l, t)
  <2> TAKE n \in 1..Len(q)
  <2>1. n \in 0..Len(q) /\ n # 0
    BY <1>3
  <2> QED
    BY <1>5, <2>1 DEF NextRest
<1> DEFINE S == {n \in Nat : n <= Len(q) => f[n] \in Seq(Job) /\ Later(f[n], q, n)}
<1>8. 0 \in S
  <2>1. \A i \in 1..Len(q) : 0 + i = i
    BY <1>3
  <2>2. Later(q, q, 0)
    BY <1>3, <2>1 DEF Later, Same
  <2> QED
    BY <1>6, <2>2
<1>9. ASSUME NEW n \in Nat, n \in S PROVE n + 1 \in S
  <2> SUFFICES ASSUME n + 1 <= Len(q) PROVE f[n + 1] \in Seq(Job) /\ Later(f[n + 1], q, n + 1)
    OBVIOUS
  <2>1. n < Len(q) /\ f[n] \in Seq(Job) /\ Later(f[n], q, n)
    BY <1>3, <1>9
  <2>2. n + 1 \in 1..Len(q) /\ (n + 1) - 1 = n
    BY <1>3
  <2>3. f[n + 1] = NextRest(f[n], l, t)
    BY <1>7, <2>2
  <2> QED
    BY <2>1, <2>3, NextRestIs
<1> HIDE DEF S
<1>10. Nat \subseteq S
  BY <1>8, <1>9, Induct
<1>11. \A n \in 0..Len(q) : f[n] \in Seq(Job) /\ Later(f[n], q, n)
  <2> TAKE n \in 0..Len(q)
  <2>1. n \in S /\ n <= Len(q)
    BY <1>3, <1>10
  <2> QED
    BY <2>1 DEF S
<1> QED
  BY <1>4, <1>6, <1>7, <1>11 DEF f

\* The first row is to be delivered whole.
Due(r, l, t) == ToDeliver(r[1], l, t) = r[1].amount

\* Exactly the first n rows are.
Complete(q, l, t, n) ==
    /\ n \in 0..Len(q)
    /\ \A i \in 0..n - 1 : Due(Rest(q, l, t)[i], l, t)
    /\ n < Len(q) => ~Due(Rest(q, l, t)[n], l, t)

(* A set of numbers up to some bound has a largest one.                      *)
LEMMA GreatestNatural ==
    ASSUME NEW b \in Nat, NEW C \in SUBSET (0..b), C # {}
    PROVE  Max(C) \in C /\ \A x \in C : x <= Max(C)
<1> DEFINE N == {b - x : x \in C}
<1>1. N \in SUBSET Nat /\ N # {}
  <2>1. \A x \in C : b - x \in Nat
    OBVIOUS
  <2>2. N \subseteq Nat
    BY <2>1
  <2> QED
    BY <2>2
<1>2. PICK n \in N : \A m \in N : n <= m
  BY <1>1, LeastNatural
<1>3. PICK y \in C : n = b - y
  OBVIOUS
<1>4. \A x \in C : y >= x
  <2> TAKE x \in C
  <2>1. b - x \in N
    OBVIOUS
  <2>2. b - y <= b - x
    BY <1>2, <1>3, <2>1
  <2> QED
    BY <2>2
<1>5. Max(C) \in C /\ \A x \in C : Max(C) >= x
  BY <1>3, <1>4 DEF Max
<1> QED
  BY <1>5

(* The pass completes what is due, up to the first row that is not.          *)
LEMMA CompletedIs ==
    ASSUME NEW q \in Seq(Job), NEW l \in Levels, NEW t \in Int
    PROVE  Complete(q, l, t, Completed(Rest(q, l, t), l, t))
<1> DEFINE f == Rest(q, l, t)
           C == {n \in DOMAIN f : \A i \in 0..n - 1 : Due(f[i], l, t)}
           m == Completed(f, l, t)
<1>1. DOMAIN f = 0..Len(q) /\ Len(q) \in Nat
  BY RestAre
<1>2. m = Max(C)
  BY DEF Completed, Due
<1> HIDE DEF f, m
<1>3. C \in SUBSET (0..Len(q))
  BY <1>1
<1>4. 0 \in C
  <2>1. \A i \in 0..0 - 1 : FALSE
    OBVIOUS
  <2> QED
    BY <1>1, <2>1
<1>5. m \in C /\ \A x \in C : x <= m
  BY <1>1, <1>2, <1>3, <1>4, GreatestNatural
<1>6. ASSUME m < Len(q), Due(f[m], l, t) PROVE FALSE
  <2>1. m \in Nat /\ m + 1 \in DOMAIN f
    BY <1>1, <1>3, <1>5, <1>6
  <2>2. \A i \in 0..(m + 1) - 1 : Due(f[i], l, t)
    <3> TAKE i \in 0..(m + 1) - 1
    <3>1. i = m \/ i \in 0..m - 1
      BY <2>1
    <3> QED
      BY <1>5, <1>6, <3>1
  <2>3. m + 1 \in C
    BY <2>1, <2>2
  <2>4. m + 1 <= m
    BY <1>5, <2>3
  <2> QED
    BY <2>1, <2>4
<1>7. m \in 0..Len(q) /\ \A i \in 0..m - 1 : Due(f[i], l, t)
  BY <1>1, <1>5
<1> QED
  BY <1>6, <1>7 DEF Complete, f, m

\* A queue whose first order has delivered some units.
Reduced(r, units) == [r EXCEPT ![1] = Left(r[1], units)]

(* The order keeps its id and its times. *)
LEMMA LeftIs ==
    ASSUME NEW job \in Job, NEW u \in Nat, u < job.amount
    PROVE  /\ Left(job, u) \in Job
           /\ Left(job, u).id = job.id /\ Left(job, u).amount = job.amount - u
           /\ Left(job, u).start = job.start /\ Left(job, u).finish = job.finish
<1>1. PICK a \in Nat \ {0} : a = job.amount - u
  BY JobFields
<1>2. Left(job, u) = [job EXCEPT !.amount = a]
  BY <1>1 DEF Left
<1> QED
  BY <1>1, <1>2 DEF Job

(* The other orders stay as they are. *)
LEMMA ReducedIs ==
    ASSUME NEW r \in Seq(Job), r # <<>>, NEW u \in Nat, u < r[1].amount
    PROVE  /\ Reduced(r, u) \in Seq(Job) /\ Len(Reduced(r, u)) = Len(r)
           /\ Reduced(r, u)[1] = Left(r[1], u)
           /\ \A i \in 1..Len(r) : i # 1 => Reduced(r, u)[i] = r[i]
<1>1. 1 \in 1..Len(r)
  OBVIOUS
<1>2. PICK j \in Job : j = Left(r[1], u)
  BY <1>1, LeftIs
<1>3. Reduced(r, u) = [r EXCEPT ![1] = j]
  BY <1>2 DEF Reduced
<1> QED
  BY <1>1, <1>2, <1>3

\* The queue after a pass: the first n rows are gone, and the next one has
\* delivered u units.
Passed(q, r, n, u) ==
    /\ n \in 0..Len(q) /\ Len(r) = Len(q) - n
    /\ u \in Nat /\ (n = Len(q) => u = 0)
    /\ \A i \in 1..Len(r) : /\ r[i].id = q[n + i].id
                           /\ r[i].amount = IF i = 1 THEN q[n + i].amount - u
                                            ELSE q[n + i].amount

\* The units of each order of D that a pass delivers.
Gives(q, units, n, u, D) ==
    /\ units \in [D -> Nat]
    /\ \A o \in D :
         /\ \A i \in 1..n : q[i].id = o => units[o] = q[i].amount
         /\ n < Len(q) /\ q[n + 1].id = o => units[o] = u
         /\ (\A i \in 1..Len(q) : i <= n + 1 => q[i].id # o) => units[o] = 0

\* Every row has an order of its own.
Distinct(q) == \A i, j \in 1..Len(q) : q[i].id = q[j].id => i = j

(* The queue with a first order that has delivered some units. *)
LEMMA ProgressedIs ==
    ASSUME NEW q \in Seq(Job), NEW n \in 0..Len(q), NEW r \in Seq(Job), Later(r, q, n),
           NEW u \in Nat, r # <<>> => u < r[1].amount, r = <<>> => u = 0,
           NEW l \in Levels, NEW t \in Int
    PROVE  Progressed(r, u, l, t) \in Seq(Job) /\ Passed(q, Progressed(r, u, l, t), n, u)
<1>1. /\ Len(r) \in Nat /\ Len(q) \in Nat /\ Len(r) = Len(q) - n
      /\ \A i \in 1..Len(r) : r[i].id = q[n + i].id /\ r[i].amount = q[n + i].amount
  BY DEF Later, Same
<1>2. r = <<>> <=> n = Len(q)
  BY <1>1
<1>3. CASE u = 0
  <2>1. Progressed(r, u, l, t) = r
    BY <1>3 DEF Progressed
  <2>2. \A i \in 1..Len(r) : q[n + i].amount - u = q[n + i].amount
    BY <1>1, <1>3, JobFields
  <2> QED
    BY <1>1, <1>2, <1>3, <2>1, <2>2 DEF Passed
<1>4. CASE u # 0
  <2>1. r # <<>> /\ u < r[1].amount /\ 1 \in 1..Len(r)
    BY <1>1, <1>4
  <2>2. PICK s \in Seq(Job) : s = Reduced(r, u)
    BY <2>1, ReducedIs
  <2>3. /\ Len(s) = Len(r) /\ s[1] = Left(r[1], u)
        /\ \A i \in 1..Len(r) : i # 1 => s[i] = r[i]
    BY <2>1, <2>2, ReducedIs
  <2>4. s[1].id = r[1].id /\ s[1].amount = r[1].amount - u
    BY <2>1, <2>3, LeftIs
  <2>5. PICK z \in Seq(Job) : z = Sync(s, l, t)
    BY SyncIs
  <2>6. Len(z) = Len(s) /\ \A i \in 1..Len(s) : z[i].id = s[i].id /\ z[i].amount = s[i].amount
    BY <2>5, SyncIs DEF SameOrders, Same
  <2>7. Progressed(r, u, l, t) = z
    BY <1>4, <2>2, <2>5 DEF Progressed, Reduced
  <2>8. \A i \in 1..Len(z) : /\ z[i].id = q[n + i].id
                             /\ z[i].amount = IF i = 1 THEN q[n + i].amount - u ELSE q[n + i].amount
    <3> TAKE i \in 1..Len(z)
    <3>1. z[i].id = s[i].id /\ z[i].amount = s[i].amount /\ i \in 1..Len(r)
      BY <2>3, <2>6
    <3>2. CASE i = 1
      BY <1>1, <2>4, <3>1, <3>2
    <3>3. CASE i # 1
      BY <1>1, <2>3, <3>1, <3>3
    <3> QED
      BY <3>2, <3>3
  <2> QED
    BY <1>1, <1>2, <2>1, <2>3, <2>6, <2>7, <2>8 DEF Passed
<1> QED
  BY <1>3, <1>4

(* The first n rows. *)
LEMMA GoneIs ==
    ASSUME NEW q \in Seq(Job), NEW n \in 0..Len(q)
    PROVE  /\ SubSeq(q, 1, n) \in Seq(Job) /\ DOMAIN SubSeq(q, 1, n) = 1..n
           /\ \A i \in 1..n : SubSeq(q, 1, n)[i] = q[i] /\ i \in 1..Len(q)
           /\ (SubSeq(q, 1, n) = <<>> <=> n = 0)
<1>1. n \in Nat /\ n <= Len(q) /\ Len(q) \in Nat
  OBVIOUS
<1>2. SubSeq(q, 1, n) \in Seq(Job) /\ Len(SubSeq(q, 1, n)) = n
  BY <1>1
<1>3. \A i \in 1..n : SubSeq(q, 1, n)[i] = q[i] /\ i \in 1..Len(q)
  BY <1>1
<1>4. DOMAIN SubSeq(q, 1, n) = 1..n
  BY <1>2
<1>5. SubSeq(q, 1, n) = <<>> <=> n = 0
  BY <1>1, <1>2
<1> QED
  BY <1>2, <1>3, <1>4, <1>5

(* Each order gets what the pass delivers of it.                             *)
LEMMA DeliverGives ==
    ASSUME NEW q \in Seq(Job), Distinct(q), NEW n \in 0..Len(q),
           NEW r \in Seq(Job), Later(r, q, n), NEW u \in Nat, NEW l, NEW t
    PROVE  Gives(q, Deliver(SubSeq(q, 1, n), r, u, l, t).units, n, u, DOMAIN book)
<1>1. PICK g \in Seq(Job) : g = SubSeq(q, 1, n)
  BY GoneIs
<1>2. DOMAIN g = 1..n /\ \A i \in 1..n : g[i] = q[i] /\ i \in 1..Len(q)
  BY <1>1, GoneIs
<1>3. /\ n \in Nat /\ Len(q) \in Nat /\ n <= Len(q) /\ Len(r) = Len(q) - n
      /\ (r # <<>> <=> n < Len(q)) /\ (r # <<>> => r[1].id = q[n + 1].id /\ n + 1 \in 1..Len(q))
  <2>1. n \in Nat /\ Len(q) \in Nat /\ n <= Len(q) /\ Len(r) = Len(q) - n
    BY DEF Later
  <2>2. r # <<>> <=> n < Len(q)
    BY <2>1
  <2>3. r # <<>> => 1 \in 1..Len(r) /\ n + 1 \in 1..Len(q)
    BY <2>1
  <2>4. r # <<>> => Same(r[1], q[n + 1])
    BY <2>3 DEF Later
  <2> QED
    BY <2>1, <2>2, <2>3, <2>4 DEF Same
<1> DEFINE U == Deliver(g, r, u, l, t).units
           At(o) == CHOOSE i \in DOMAIN g : g[i].id = o
<1>4. U = [o \in DOMAIN book |-> IF o \in Ids(g) THEN g[At(o)].amount
                                 ELSE IF r # <<>> /\ r[1].id = o THEN u ELSE 0]
  BY DEF Deliver
<1>5. \A o \in Ids(g) : At(o) \in 1..n /\ q[At(o)].id = o
  <2> TAKE o \in Ids(g)
  <2>1. \E i \in DOMAIN g : g[i].id = o
    BY DEF Ids
  <2>2. At(o) \in DOMAIN g /\ g[At(o)].id = o
    BY <2>1
  <2> QED
    BY <1>2, <2>2
<1> HIDE DEF U, At
<1>6. ASSUME NEW o \in DOMAIN book, NEW i \in 1..n, q[i].id = o PROVE U[o] = q[i].amount
  <2>1. i \in DOMAIN g /\ g[i].id = o
    BY <1>2, <1>6
  <2>2. o \in Ids(g)
    BY <2>1 DEF Ids
  <2>3. At(o) = i
    BY <1>2, <1>5, <1>6, <2>2 DEF Distinct
  <2> QED
    BY <1>2, <1>4, <2>2, <2>3
<1>7. ASSUME NEW o \in DOMAIN book, \A i \in 1..n : q[i].id # o
      PROVE  o \notin Ids(g)
  BY <1>2, <1>7 DEF Ids
<1>8. ASSUME NEW o \in DOMAIN book, n < Len(q), q[n + 1].id = o PROVE U[o] = u
  <2>1. \A i \in 1..n : q[i].id # o
    <3> SUFFICES ASSUME NEW i \in 1..n, q[i].id = o PROVE FALSE
      OBVIOUS
    <3>1. i = n + 1
      BY <1>2, <1>3, <1>8 DEF Distinct
    <3> QED
      BY <1>3, <3>1
  <2>2. o \notin Ids(g)
    BY <1>7, <2>1
  <2> QED
    BY <1>3, <1>4, <1>8, <2>2
<1>9. ASSUME NEW o \in DOMAIN book, \A i \in 1..Len(q) : i <= n + 1 => q[i].id # o
      PROVE  U[o] = 0
  <2>1. \A i \in 1..n : q[i].id # o
    BY <1>2, <1>3, <1>9
  <2>2. o \notin Ids(g)
    BY <1>7, <2>1
  <2>3. r # <<>> => r[1].id # o
    BY <1>3, <1>9
  <2> QED
    BY <1>4, <2>2, <2>3
<1>10. U \in [DOMAIN book -> Nat]
  <2>1. \A o \in DOMAIN book : (IF o \in Ids(g) THEN g[At(o)].amount
                                ELSE IF r # <<>> /\ r[1].id = o THEN u ELSE 0) \in Nat
    <3> TAKE o \in DOMAIN book
    <3>1. CASE o \in Ids(g)
      <4>1. At(o) \in 1..n
        BY <1>5, <3>1
      <4>2. g[At(o)] \in Job
        BY <1>2, <4>1
      <4> QED
        BY <3>1, <4>2, JobFields
    <3>2. CASE o \notin Ids(g)
      BY <3>2
    <3> QED
      BY <3>1, <3>2
  <2> QED
    BY <1>4, <2>1
<1> QED
  BY <1>1, <1>6, <1>8, <1>9, <1>10 DEF Gives, U

\* What a pass does: n rows are complete, r is left, and its first order
\* delivers u units.
FinishesAs(q, l, t, n, r, u) ==
    /\ Complete(q, l, t, n)
    /\ r = Rest(q, l, t)[n] /\ Later(r, q, n)
    /\ r = <<>> => u = 0
    /\ r # <<>> => u = ToDeliver(r[1], l, t) /\ u < r[1].amount
    /\ Finish(q, l, t).queue =
         IF kind = "yard" /\ n # 0 THEN Recalculate(Progressed(r, u, l, t), l, t)
         ELSE Progressed(r, u, l, t)
    /\ Distinct(q) => Gives(q, Finish(q, l, t).units, n, u, DOMAIN book)

(* Every pass does so.                                                       *)
LEMMA FinishIs ==
    ASSUME NEW q \in Seq(Job), NEW l \in Levels, NEW t \in Int
    PROVE  \E n \in 0..Len(q), r \in Seq(Job), u \in Nat : FinishesAs(q, l, t, n, r, u)
<1>1. PICK n \in 0..Len(q) : n = Completed(Rest(q, l, t), l, t)
  BY CompletedIs DEF Complete
<1>2. Complete(q, l, t, n)
  BY <1>1, CompletedIs
<1>3. PICK r \in Seq(Job) : r = Rest(q, l, t)[n] /\ Later(r, q, n)
  BY RestAre
<1> DEFINE v == IF r = <<>> THEN 0 ELSE ToDeliver(r[1], l, t)
           g == SubSeq(q, 1, n)
<1>4. v \in Nat /\ (r = <<>> => v = 0) /\ (r # <<>> => v = ToDeliver(r[1], l, t) /\ v < r[1].amount)
  <2>1. CASE r = <<>>
    BY <2>1
  <2>2. CASE r # <<>>
    <3>1. r[1] \in Job
      <4>1. 1 \in 1..Len(r)
        BY <2>2
      <4> QED
        BY <4>1
    <3>2. ToDeliver(r[1], l, t) \in Nat /\ ToDeliver(r[1], l, t) <= r[1].amount
      BY <3>1, DueType
    <3>3. n < Len(q)
      <4>1. Len(r) = Len(q) - n /\ Len(r) \in Nat /\ Len(q) \in Nat
        BY <1>3 DEF Later
      <4> QED
        BY <2>2, <4>1
    <3>4. ToDeliver(r[1], l, t) # r[1].amount
      BY <1>2, <1>3, <3>3 DEF Complete, Due
    <3>5. r[1].amount \in Nat
      BY <3>1, JobFields
    <3> QED
      BY <2>2, <3>2, <3>4, <3>5
  <2> QED
    BY <2>1, <2>2
<1>5. Finish(q, l, t) = Deliver(g, r, v, l, t)
  BY <1>1, <1>3 DEF Finish, FinishFrom, DeliverAfter, DeliverFirst
<1> HIDE DEF v
<1>6. g = <<>> <=> n = 0
  BY GoneIs
<1>7. Deliver(g, r, v, l, t).queue =
         IF kind = "yard" /\ n # 0 THEN Recalculate(Progressed(r, v, l, t), l, t)
         ELSE Progressed(r, v, l, t)
  <2> HIDE DEF g
  <2> QED
    BY <1>6 DEF Deliver
<1>8. Distinct(q) => Gives(q, Deliver(g, r, v, l, t).units, n, v, DOMAIN book)
  BY <1>3, <1>4, DeliverGives
<1> HIDE DEF g
<1>9. FinishesAs(q, l, t, n, r, v)
  BY <1>2, <1>3, <1>4, <1>5, <1>7, <1>8 DEF FinishesAs
<1> QED
  BY <1>4, <1>9

(* The queue after a pass. *)
LEMMA FinishPasses ==
    ASSUME NEW q \in Seq(Job), NEW l \in Levels, NEW t \in Int,
           NEW n \in 0..Len(q), NEW r \in Seq(Job), NEW u \in Nat, FinishesAs(q, l, t, n, r, u)
    PROVE  Finish(q, l, t).queue \in Seq(Job) /\ Passed(q, Finish(q, l, t).queue, n, u)
<1>1. PICK p \in Seq(Job) : p = Progressed(r, u, l, t) /\ Passed(q, p, n, u)
  BY ProgressedIs DEF FinishesAs
<1>2. PICK z \in Seq(Job) : z = Recalculate(p, l, t)
  BY RecalculateIs
<1>3. Len(z) = Len(p) /\ \A i \in 1..Len(p) : z[i].id = p[i].id /\ z[i].amount = p[i].amount
  BY <1>2, RecalculateIs DEF SameOrders, Same
<1>4. Passed(q, z, n, u)
  <2>1. \A i \in 1..Len(z) : /\ z[i].id = q[n + i].id
                             /\ z[i].amount = IF i = 1 THEN q[n + i].amount - u ELSE q[n + i].amount
    <3> TAKE i \in 1..Len(z)
    <3>1. i \in 1..Len(p) /\ z[i].id = p[i].id /\ z[i].amount = p[i].amount
      BY <1>3
    <3>2. /\ p[i].id = q[n + i].id
          /\ p[i].amount = IF i = 1 THEN q[n + i].amount - u ELSE q[n + i].amount
      BY <1>1, <3>1 DEF Passed
    <3> QED
      BY <3>1, <3>2
  <2>2. n \in 0..Len(q) /\ Len(z) = Len(q) - n /\ u \in Nat /\ (n = Len(q) => u = 0)
    BY <1>1, <1>3 DEF Passed
  <2> QED
    BY <2>1, <2>2 DEF Passed
<1>5. Finish(q, l, t).queue = IF kind = "yard" /\ n # 0 THEN z ELSE p
  BY <1>1, <1>2 DEF FinishesAs
<1> QED
  BY <1>1, <1>4, <1>5

-----------------------------------------------------------------------------
(* The book. *)

Entry == [size : Nat, given : Nat, back : Nat, fate : {"open", "built", "cancelled"}]

\* The book after a pass that delivers units and leaves r.
After(b, units, r) ==
    [o \in DOMAIN b |->
        [b[o] EXCEPT !.given = @ + units[o],
                     !.fate = IF @ = "open" /\ o \notin Ids(r) THEN "built" ELSE @]]

\* Every open order has one row, with what is not delivered of it; what is
\* built was delivered whole.
RowsTell(b, q) ==
    /\ Distinct(q)
    /\ \A i \in 1..Len(q) : /\ q[i].id \in DOMAIN b /\ b[q[i].id].fate = "open"
                           /\ b[q[i].id].given + q[i].amount = b[q[i].id].size
    /\ \A o \in DOMAIN b : b[o].fate = "open" => \E i \in 1..Len(q) : q[i].id = o
    /\ \A o \in DOMAIN b : b[o].fate = "built" => b[o].given = b[o].size
    /\ \A o \in DOMAIN b : b[o].given <= b[o].size

\* Nothing is given back but of an order that is cancelled.
BackTells(b) ==
    \A o \in DOMAIN b : b[o].size > 0 /\ (b[o].fate # "cancelled" => b[o].back = 0)

\* In the barracks only the first order has delivered anything.
FirstOnly(b, q) == \A i \in 1..Len(q) : i # 1 => b[q[i].id].given = 0

WholeOnlyFresh(b) == \A o \in DOMAIN b : b[o].back = 2 * b[o].size => b[o].given = 0

Accounted(b, q) ==
    /\ RowsTell(b, q) /\ BackTells(b)
    /\ kind = "barracks" => FirstOnly(b, q) /\ WholeOnlyFresh(b)

(* The fields of an entry. *)
LEMMA EntryFields ==
    ASSUME NEW b \in Seq(Entry), NEW o \in DOMAIN b
    PROVE  /\ b[o] \in Entry
           /\ b[o].size \in Nat /\ b[o].given \in Nat /\ b[o].back \in Nat
           /\ b[o].fate \in {"open", "built", "cancelled"}
<1>1. b[o] \in Entry
  OBVIOUS
<1> QED
  BY <1>1 DEF Entry

(* An order after a pass.                                                    *)
LEMMA AfterEntry ==
    ASSUME NEW b \in Seq(Entry), NEW units \in [DOMAIN b -> Nat], NEW r, NEW o \in DOMAIN b
    PROVE  /\ After(b, units, r)[o] \in Entry
           /\ After(b, units, r)[o].size = b[o].size
           /\ After(b, units, r)[o].back = b[o].back
           /\ After(b, units, r)[o].given = b[o].given + units[o]
           /\ After(b, units, r)[o].fate =
                IF b[o].fate = "open" /\ o \notin Ids(r) THEN "built" ELSE b[o].fate
<1>1. PICK e \in Entry : e = b[o]
  OBVIOUS
<1>2. PICK g \in Nat : g = e.given + units[o]
  BY DEF Entry
<1>3. PICK f \in {"open", "built", "cancelled"} :
         f = IF e.fate = "open" /\ o \notin Ids(r) THEN "built" ELSE e.fate
  BY DEF Entry
<1>4. After(b, units, r)[o] = [e EXCEPT !.given = g, !.fate = f]
  BY <1>1, <1>2, <1>3 DEF After
<1>5. /\ [e EXCEPT !.given = g, !.fate = f] \in Entry
      /\ [e EXCEPT !.given = g, !.fate = f].size = e.size
      /\ [e EXCEPT !.given = g, !.fate = f].back = e.back
      /\ [e EXCEPT !.given = g, !.fate = f].given = g
      /\ [e EXCEPT !.given = g, !.fate = f].fate = f
  BY DEF Entry
<1> QED
  BY <1>1, <1>2, <1>3, <1>4, <1>5

(* The book stays a book.                                                    *)
LEMMA AfterType ==
    ASSUME NEW b \in Seq(Entry), NEW units \in [DOMAIN b -> Nat], NEW r
    PROVE  /\ After(b, units, r) \in Seq(Entry)
           /\ DOMAIN After(b, units, r) = DOMAIN b
           /\ Len(After(b, units, r)) = Len(b)
<1> DEFINE a == After(b, units, r)
<1>1. DOMAIN b = 1..Len(b) /\ Len(b) \in Nat
  OBVIOUS
<1>2. DOMAIN a = DOMAIN b /\ a = [o \in DOMAIN b |-> a[o]]
  BY DEF After
<1>3. \A o \in DOMAIN b : a[o] \in Entry
  BY AfterEntry
<1> HIDE DEF a
<1>4. a \in [1..Len(b) -> Entry]
  BY <1>1, <1>2, <1>3
<1>5. a \in Seq(Entry) /\ Len(a) = Len(b)
  BY <1>1, <1>4
<1> QED
  BY <1>2, <1>5 DEF a

(* An order whose row is among the first n is built, that of the next has u  *)
(* units more, and the others are as before.                                 *)
LEMMA PassEntry ==
    ASSUME NEW b \in Seq(Entry), NEW q \in Seq(Job), RowsTell(b, q),
           NEW r \in Seq(Job), NEW n \in 0..Len(q), NEW u \in Nat, Passed(q, r, n, u),
           NEW units, Gives(q, units, n, u, DOMAIN b), NEW i \in 1..Len(q)
    PROVE  LET o == q[i].id IN
           /\ o \in DOMAIN b
           /\ i <= n => After(b, units, r)[o].given = b[o].size /\ After(b, units, r)[o].fate = "built"
           /\ i = n + 1 => After(b, units, r)[o].given = b[o].given + u
           /\ i > n + 1 => After(b, units, r)[o].given = b[o].given
           /\ i > n => After(b, units, r)[o].fate = "open" /\ r[i - n].id = o /\ i - n \in 1..Len(r)
<1>1. PICK o \in DOMAIN b : o = q[i].id
  BY DEF RowsTell
<1>2. b[o].fate = "open" /\ b[o].given + q[i].amount = b[o].size
  BY <1>1 DEF RowsTell
<1>3. units \in [DOMAIN b -> Nat]
  BY DEF Gives
<1>4. n \in Nat /\ Len(q) \in Nat /\ n <= Len(q) /\ Len(r) = Len(q) - n /\ i \in Nat
  BY DEF Passed
<1>5. /\ After(b, units, r)[o].given = b[o].given + units[o]
      /\ After(b, units, r)[o].fate = IF o \notin Ids(r) THEN "built" ELSE "open"
  BY <1>2, <1>3, AfterEntry
<1>6. b[o].given \in Nat
  BY EntryFields
<1>7. ASSUME i <= n PROVE units[o] = q[i].amount /\ o \notin Ids(r)
  <2>1. i \in 1..n
    BY <1>4, <1>7
  <2>2. units[o] = q[i].amount
    BY <1>1, <2>1 DEF Gives
  <2>3. ASSUME NEW k \in DOMAIN r, r[k].id = o PROVE FALSE
    <3>1. k \in 1..Len(r)
      OBVIOUS
    <3>2. r[k].id = q[n + k].id /\ n + k \in 1..Len(q)
      BY <1>4, <3>1 DEF Passed
    <3>3. i = n + k
      BY <1>1, <2>3, <3>2 DEF RowsTell, Distinct
    <3> QED
      BY <1>4, <1>7, <3>1, <3>3
  <2> QED
    BY <2>2, <2>3 DEF Ids
<1>8. ASSUME i > n PROVE r[i - n].id = o /\ i - n \in 1..Len(r) /\ o \in Ids(r)
  <2>1. i - n \in 1..Len(r) /\ n + (i - n) = i
    BY <1>4, <1>8
  <2>2. r[i - n].id = q[n + (i - n)].id
    BY <2>1 DEF Passed
  <2> QED
    BY SMTT(20), <1>1, <2>1, <2>2 DEF Ids
<1>9. ASSUME i = n + 1 PROVE units[o] = u
  BY <1>1, <1>4, <1>9 DEF Gives
<1>10. ASSUME i > n + 1 PROVE units[o] = 0
  <2>1. ASSUME NEW k \in 1..Len(q), k <= n + 1, q[k].id = o PROVE FALSE
    <3>1. k = i
      BY <1>1, <2>1 DEF RowsTell, Distinct
    <3> QED
      BY <1>4, <1>10, <2>1, <3>1
  <2> QED
    BY <2>1 DEF Gives
<1>11. i <= n => After(b, units, r)[o].given = b[o].size /\ After(b, units, r)[o].fate = "built"
  BY <1>2, <1>5, <1>7
<1>12. i = n + 1 => After(b, units, r)[o].given = b[o].given + u
  BY <1>5, <1>9
<1>13. i > n + 1 => After(b, units, r)[o].given = b[o].given
  BY <1>5, <1>6, <1>10
<1>14. i > n => After(b, units, r)[o].fate = "open" /\ r[i - n].id = o /\ i - n \in 1..Len(r)
  BY <1>5, <1>8
<1> QED
  BY <1>1, <1>11, <1>12, <1>13, <1>14

(* The other orders are as before. *)
LEMMA PassOther ==
    ASSUME NEW b \in Seq(Entry), NEW q \in Seq(Job), RowsTell(b, q),
           NEW r \in Seq(Job), NEW n \in 0..Len(q), NEW u \in Nat,
           NEW units, Gives(q, units, n, u, DOMAIN b),
           NEW o \in DOMAIN b, \A i \in 1..Len(q) : q[i].id # o
    PROVE  /\ After(b, units, r)[o].given = b[o].given
           /\ After(b, units, r)[o].fate = b[o].fate /\ b[o].fate # "open"
<1>1. b[o].fate # "open"
  BY DEF RowsTell
<1>2. units \in [DOMAIN b -> Nat] /\ units[o] = 0
  BY DEF Gives
<1>3. b[o].given \in Nat
  BY EntryFields
<1>4. /\ After(b, units, r)[o].given = b[o].given + units[o]
      /\ After(b, units, r)[o].fate =
           IF b[o].fate = "open" /\ o \notin Ids(r) THEN "built" ELSE b[o].fate
  BY ONLY b \in Seq(Entry), o \in DOMAIN b, <1>2, AfterEntry, ZenonT(30)
<1> QED
  BY ONLY <1>1, <1>2, <1>3, <1>4

(* A pass keeps the book right.                                              *)
LEMMA PassKeeps ==
    ASSUME NEW b \in Seq(Entry), NEW q \in Seq(Job), Accounted(b, q),
           NEW r \in Seq(Job), NEW n \in 0..Len(q), NEW u \in Nat, Passed(q, r, n, u),
           NEW units, Gives(q, units, n, u, DOMAIN b)
    PROVE  Accounted(After(b, units, r), r)
<1> DEFINE a == After(b, units, r)
<1>1. RowsTell(b, q) /\ BackTells(b) /\ units \in [DOMAIN b -> Nat]
  BY DEF Accounted, Gives
<1>2. DOMAIN a = DOMAIN b
  BY <1>1, AfterType
<1>3. \A o \in DOMAIN b : a[o].size = b[o].size /\ a[o].back = b[o].back
                          /\ b[o].size \in Nat /\ b[o].given \in Nat /\ a[o].given \in Nat
  <2> TAKE o \in DOMAIN b
  <2>1. b[o].size \in Nat /\ b[o].given \in Nat
    BY EntryFields
  <2>2. /\ a[o].size = b[o].size /\ a[o].back = b[o].back
        /\ a[o].given = b[o].given + units[o]
    BY <1>1, AfterEntry
  <2>3. units[o] \in Nat
    BY <1>1
  <2> QED
    BY <2>1, <2>2, <2>3
<1>4. \A i \in 1..Len(q) :
         /\ q[i].id \in DOMAIN b
         /\ i <= n => a[q[i].id].given = b[q[i].id].size /\ a[q[i].id].fate = "built"
         /\ i = n + 1 => a[q[i].id].given = b[q[i].id].given + u
         /\ i > n + 1 => a[q[i].id].given = b[q[i].id].given
         /\ i > n => a[q[i].id].fate = "open" /\ r[i - n].id = q[i].id /\ i - n \in 1..Len(r)
  BY <1>1, PassEntry
<1>5. \A o \in DOMAIN b : (\A i \in 1..Len(q) : q[i].id # o) =>
         a[o].given = b[o].given /\ a[o].fate = b[o].fate /\ b[o].fate # "open"
  <2> SUFFICES ASSUME NEW o \in DOMAIN b, \A i \in 1..Len(q) : q[i].id # o
               PROVE  a[o].given = b[o].given /\ a[o].fate = b[o].fate /\ b[o].fate # "open"
    OBVIOUS
  <2> HIDE DEF a
  <2>1. RowsTell(b, q) /\ Gives(q, units, n, u, DOMAIN b)
    BY <1>1
  <2>2. /\ After(b, units, r)[o].given = b[o].given
        /\ After(b, units, r)[o].fate = b[o].fate /\ b[o].fate # "open"
    BY <2>1, PassOther
  <2> QED
    BY <2>2 DEF a
<1> HIDE DEF a
<1>6. n \in Nat /\ Len(q) \in Nat /\ n <= Len(q) /\ Len(r) = Len(q) - n
  BY DEF Passed
<1>7. \A k \in 1..Len(r) : n + k \in 1..Len(q) /\ r[k].id = q[n + k].id /\ k \in Nat
  BY <1>6 DEF Passed
<1>8. \A i \in 1..Len(q) : b[q[i].id].given + q[i].amount = b[q[i].id].size /\ q[i].amount \in Nat
  BY <1>1, JobFields DEF RowsTell
<1>9. Distinct(r)
  <2>1. ASSUME NEW i \in 1..Len(r), NEW j \in 1..Len(r), r[i].id = r[j].id PROVE i = j
    <3>1. n + i = n + j
      BY <1>1, <1>7, <2>1 DEF RowsTell, Distinct
    <3> QED
      BY <1>6, <1>7, <3>1
  <2> QED
    BY <2>1 DEF Distinct
<1>10. \A k \in 1..Len(r) : /\ r[k].id \in DOMAIN a /\ a[r[k].id].fate = "open"
                            /\ a[r[k].id].given + r[k].amount = a[r[k].id].size
                            /\ k # 1 => a[r[k].id].given = b[r[k].id].given
  <2> TAKE k \in 1..Len(r)
  <2>1. PICK i \in 1..Len(q) : i = n + k /\ r[k].id = q[i].id
    BY <1>7
  <2>2. i > n
    BY <1>6, <1>7, <2>1
  <2>3. q[i].id \in DOMAIN b /\ a[q[i].id].fate = "open" /\ a[q[i].id].size = b[q[i].id].size
    BY <1>3, <1>4, <2>2
  <2>4. b[q[i].id].given \in Nat
    BY <1>3, <2>3
  <2>5. CASE k = 1
    <3>1. i = n + 1 /\ r[k].amount = q[i].amount - u
      BY <2>1, <2>5 DEF Passed
    <3>2. a[q[i].id].given = b[q[i].id].given + u
      BY <1>4, <3>1
    <3>3. a[q[i].id].given + r[k].amount = a[q[i].id].size
      <4>1. PICK x \in Nat : x = b[q[i].id].given
        BY <2>4
      <4>2. PICK y \in Nat : y = q[i].amount /\ x + y = a[q[i].id].size
        BY <1>8, <2>3, <4>1
      <4>3. x + u + (y - u) = x + y
        BY ONLY x \in Nat, y \in Nat, u \in Nat
      <4> QED
        BY ONLY <3>1, <3>2, <4>1, <4>2, <4>3
    <3> QED
      BY <1>2, <2>1, <2>3, <2>5, <3>3
  <2>6. CASE k # 1
    <3>1. i > n + 1 /\ r[k].amount = q[i].amount
      BY <1>6, <1>7, <2>1, <2>6 DEF Passed
    <3>2. a[q[i].id].given = b[q[i].id].given
      BY <1>4, <3>1
    <3> QED
      BY <1>2, <1>8, <2>1, <2>3, <3>1, <3>2
  <2> QED
    BY <2>5, <2>6
<1>11. \A o \in DOMAIN a : /\ a[o].fate = "open" => \E k \in 1..Len(r) : r[k].id = o
                           /\ a[o].fate = "built" => a[o].given = a[o].size
                           /\ a[o].given <= a[o].size
                           /\ a[o].fate # "cancelled" => b[o].fate # "cancelled"
                           /\ a[o].fate = "cancelled" => a[o].given = b[o].given
  <2> TAKE o \in DOMAIN a
  <2>1. /\ o \in DOMAIN b /\ a[o].size = b[o].size /\ b[o].size \in Nat /\ b[o].given \in Nat
        /\ b[o].given <= b[o].size /\ (b[o].fate = "built" => b[o].given = b[o].size)
    BY <1>1, <1>2, <1>3 DEF RowsTell
  <2>2. CASE \A i \in 1..Len(q) : q[i].id # o
    <3>1. a[o].given = b[o].given /\ a[o].fate = b[o].fate /\ b[o].fate # "open"
      BY <1>5, <2>1, <2>2
    <3> QED
      BY <2>1, <3>1
  <2>3. ASSUME NEW i \in 1..Len(q), q[i].id = o
        PROVE  /\ a[o].fate = "open" => \E k \in 1..Len(r) : r[k].id = o
               /\ a[o].fate = "built" => a[o].given = a[o].size
               /\ a[o].given <= a[o].size
               /\ a[o].fate # "cancelled" /\ b[o].fate # "cancelled"
    <3>1. b[o].fate = "open" /\ i \in Nat
      <4>1. b[q[i].id].fate = "open"
        BY ONLY <1>1, <2>3 DEF RowsTell
      <4> QED
        BY ONLY <2>3, <4>1
    <3>2. CASE i <= n
      <4>1. a[o].given = b[o].size /\ a[o].fate = "built"
        BY <1>4, <2>3, <3>2
      <4> QED
        BY <2>1, <3>1, <4>1
    <3>3. CASE i > n
      <4>1. a[o].fate = "open" /\ r[i - n].id = o /\ i - n \in 1..Len(r)
        BY <1>4, <2>3, <3>3
      <4>2. a[o].given + r[i - n].amount = a[o].size
        BY <1>10, <4>1
      <4>5. r[i - n].amount \in Nat
        BY <4>1, JobFields
      <4>3. a[o].given \in Nat
        BY <1>3, <2>1
      <4>4. a[o].given <= a[o].size
        BY ONLY <4>2, <4>3, <4>5
      <4> QED
        BY <3>1, <4>1, <4>4
    <3> QED
      BY <1>6, <3>1, <3>2, <3>3
  <2> QED
    BY <2>2, <2>3
<1>12. RowsTell(a, r)
  BY <1>9, <1>10, <1>11 DEF RowsTell
<1>13. BackTells(a)
  <2> SUFFICES ASSUME NEW o \in DOMAIN a
               PROVE  a[o].size > 0 /\ (a[o].fate # "cancelled" => a[o].back = 0)
    BY DEF BackTells
  <2> QED
    BY <1>1, <1>2, <1>3, <1>11 DEF BackTells
<1>14. ASSUME kind = "barracks" PROVE FirstOnly(a, r) /\ WholeOnlyFresh(a)
  <2>1. FirstOnly(b, q) /\ WholeOnlyFresh(b)
    BY <1>14 DEF Accounted
  <2>2. FirstOnly(a, r)
    <3> SUFFICES ASSUME NEW k \in 1..Len(r), k # 1 PROVE a[r[k].id].given = 0
      BY DEF FirstOnly
    <3>1. n + k \in 1..Len(q) /\ n + k # 1 /\ r[k].id = q[n + k].id
      BY <1>6, <1>7
    <3>2. b[q[n + k].id].given = 0
      BY <2>1, <3>1 DEF FirstOnly
    <3> QED
      BY <1>10, <3>1, <3>2
  <2>3. WholeOnlyFresh(a)
    <3> SUFFICES ASSUME NEW o \in DOMAIN a, a[o].back = 2 * a[o].size PROVE a[o].given = 0
      BY DEF WholeOnlyFresh
    <3>1. b[o].back = 2 * b[o].size /\ b[o].size > 0 /\ b[o].size \in Nat
      BY <1>1, <1>2, <1>3 DEF BackTells
    <3>2. b[o].given = 0
      BY <1>2, <2>1, <3>1 DEF WholeOnlyFresh
    <3>3. a[o].fate = "cancelled"
      <4> SUFFICES ASSUME a[o].fate # "cancelled" PROVE FALSE
        OBVIOUS
      <4>1. a[o].back = 0
        BY <1>13 DEF BackTells
      <4> QED
        BY <1>2, <1>3, <3>1, <4>1
    <3> QED
      BY <1>11, <3>2, <3>3
  <2> QED
    BY <2>2, <2>3
<1> QED
  BY <1>12, <1>13, <1>14 DEF Accounted, a

-----------------------------------------------------------------------------
(* What the operations do to queue and book. *)

\* The yard is not idle: its first row has started, the others follow.
Busy(q, t) == Seamless(q) /\ (q # <<>> => q[1].start <= t)

\* What a pass over q, or none, leaves as it should be.
KeptBy(b, q, done, t) ==
    /\ done.queue \in Seq(Job) /\ done.units \in [DOMAIN b -> Nat]
    /\ Accounted(After(b, done.units, done.queue), done.queue)
    /\ Busy(q, t) /\ kind = "yard" => Busy(done.queue, t)

\* The first row of q was delivered if its time was over.
DueDone(b, q, done, t) ==
    q # <<>> /\ q[1].finish <= t =>
        /\ q[1].id \in DOMAIN b
        /\ After(b, done.units, done.queue)[q[1].id].fate = "built"

(* The same orders have the same book.                                       *)
LEMMA SameKeeps ==
    ASSUME NEW b \in Seq(Entry), NEW q \in Seq(Job), Accounted(b, q),
           NEW r \in Seq(Job), SameOrders(r, q)
    PROVE  Accounted(b, r)
<1>1. Len(r) = Len(q) /\ \A i \in 1..Len(q) : r[i].id = q[i].id /\ r[i].amount = q[i].amount
  BY DEF SameOrders, Same
<1>2. RowsTell(b, q) /\ BackTells(b)
  BY DEF Accounted
<1>3. Distinct(r)
  BY <1>1, <1>2 DEF RowsTell, Distinct
<1>4. \A i \in 1..Len(r) : /\ r[i].id \in DOMAIN b /\ b[r[i].id].fate = "open"
                           /\ b[r[i].id].given + r[i].amount = b[r[i].id].size
  BY <1>1, <1>2 DEF RowsTell
<1>5. ASSUME NEW o \in DOMAIN b, b[o].fate = "open" PROVE \E i \in 1..Len(r) : r[i].id = o
  <2>1. PICK i \in 1..Len(q) : q[i].id = o
    BY <1>2, <1>5 DEF RowsTell
  <2>2. i \in 1..Len(r) /\ r[i].id = o
    BY ONLY <1>1, <2>1
  <2> QED
    BY ONLY <2>2
<1>6. RowsTell(b, r)
  BY <1>2, <1>3, <1>4, <1>5 DEF RowsTell
<1>7. FirstOnly(b, q) => FirstOnly(b, r)
  BY <1>1 DEF FirstOnly
<1> QED
  BY <1>2, <1>6, <1>7 DEF Accounted

(* A pass leaves everything as it should be. *)
LEMMA FinishKeeps ==
    ASSUME NEW b \in Seq(Entry), DOMAIN b = DOMAIN book, NEW q \in Seq(Job), Accounted(b, q),
           NEW l \in Levels, NEW t \in Int
    PROVE  /\ KeptBy(b, q, Finish(q, l, t), t)
           /\ DueDone(b, q, Finish(q, l, t), t)
<1>1. PICK n \in 0..Len(q), r \in Seq(Job), u \in Nat : FinishesAs(q, l, t, n, r, u)
  BY FinishIs
<1>2. PICK z \in Seq(Job) : z = Finish(q, l, t).queue /\ Passed(q, z, n, u)
  BY <1>1, FinishPasses
<1>3. PICK g \in [DOMAIN b -> Nat] : g = Finish(q, l, t).units /\ Gives(q, g, n, u, DOMAIN b)
  BY <1>1 DEF FinishesAs, Gives, Accounted, RowsTell
<1>4. Accounted(After(b, g, z), z)
  BY <1>2, <1>3, PassKeeps
<1>5. ASSUME Busy(q, t), kind = "yard" PROVE Busy(z, t)
  <2>1. PICK p \in Seq(Job) : p = Progressed(r, u, l, t)
    BY <1>1, ProgressedIs DEF FinishesAs
  <2>2. z = IF n # 0 THEN Recalculate(p, l, t) ELSE p
    BY <1>1, <1>2, <1>5, <2>1 DEF FinishesAs
  <2>3. CASE n # 0
    <3>1. Seamless(z) /\ SameOrders(z, p) /\ (p # <<>> => z[1].start = t)
      BY <2>2, <2>3, RecalculateIs
    <3>2. p # <<>> <=> z # <<>>
      BY <3>1 DEF SameOrders
    <3> QED
      BY <3>1, <3>2 DEF Busy
  <2>4. CASE n = 0
    <3>1. z = p /\ r = q
      BY <1>1, <2>2, <2>4, RestAre DEF FinishesAs
    <3>2. CASE u = 0
      BY <1>5, <2>1, <3>1, <3>2 DEF Progressed
    <3>3. CASE u # 0
      <4>1. q # <<>> /\ u < q[1].amount
        BY <1>1, <3>1, <3>3 DEF FinishesAs
      <4>2. PICK s \in Seq(Job) : s = Reduced(q, u) /\ s[1] = Left(q[1], u) /\ Len(s) = Len(q)
        BY <4>1, ReducedIs
      <4>3. p = Sync(s, l, t)
        BY <2>1, <3>1, <3>3, <4>2 DEF Progressed, Reduced
      <4>4. 1 \in 1..Len(q) /\ s # <<>> /\ 1 \in 1..Len(s)
        BY <4>1, <4>2
      <4>5. Seamless(p) /\ p[1] = SyncHead(s[1], l, t)
        BY <4>3, <4>4, SyncIs
      <4>6. p[1].start = s[1].start \/ p[1].start = t
        BY <4>4, <4>5, SyncHeadIs
      <4>7. s[1].start = q[1].start
        <5>1. q[1] \in Job
          BY <4>4
        <5>2. Left(q[1], u).start = q[1].start
          BY <4>1, <5>1, LeftIs
        <5> QED
          BY <4>2, <5>2
      <4> QED
        BY <1>5, <3>1, <4>1, <4>5, <4>6, <4>7 DEF Busy
    <3> QED
      BY <3>2, <3>3
  <2> QED
    BY <2>3, <2>4
<1>6. ASSUME q # <<>>, q[1].finish <= t
      PROVE  q[1].id \in DOMAIN b /\ After(b, g, z)[q[1].id].fate = "built"
  <2>1. 1 \in 1..Len(q) /\ Len(q) \in Nat
    BY <1>6
  <2>2. ToDeliver(q[1], l, t) = q[1].amount
    <3>1. q[1] \in Job /\ q[1].finish \in Int
      BY <2>1, JobFields
    <3> QED
      BY <1>6, <3>1, DueType
  <2>3. n # 0
    <3> SUFFICES ASSUME n = 0 PROVE FALSE
      OBVIOUS
    <3>1. r = q
      BY <1>1, RestAre DEF FinishesAs
    <3>2. ~Due(r, l, t)
      BY <1>1, <2>1 DEF FinishesAs, Complete
    <3> QED
      BY <2>2, <3>1, <3>2 DEF Due
  <2>4. 1 <= n
    BY <2>3
  <2>5. RowsTell(b, q)
    BY DEF Accounted
  <2>6. q[1].id \in DOMAIN b /\ (1 <= n => After(b, g, z)[q[1].id].fate = "built")
    <3>1. PICK i \in 1..Len(q) : i = 1
      BY <2>1
    <3>2. q[i].id \in DOMAIN b /\ (i <= n => After(b, g, z)[q[i].id].fate = "built")
      BY <1>2, <1>3, <2>5, PassEntry
    <3> QED
      BY <3>1, <3>2
  <2> QED
    BY <2>4, <2>6
<1> QED
  BY <1>2, <1>3, <1>4, <1>5, <1>6 DEF KeptBy, DueDone

(* Without a pass everything is as before. *)
LEMMA UnfinishedKeeps ==
    ASSUME book \in Seq(Entry), queue \in Seq(Job), Accounted(book, queue), NEW t \in Int
    PROVE  KeptBy(book, queue, Unfinished, t)
<1>1. Unfinished.queue = queue /\ Unfinished.units = [o \in DOMAIN book |-> 0]
  BY DEF Unfinished
<1>2. PICK b \in Seq(Entry) : b = book
  OBVIOUS
<1>3. PICK q \in Seq(Job) : q = queue
  OBVIOUS
<1> DEFINE g == [o \in DOMAIN b |-> 0]
<1>4. g \in [DOMAIN b -> Nat] /\ \A o \in DOMAIN b : g[o] = 0
  OBVIOUS
<1> HIDE DEF g
<1>5. RowsTell(b, q)
  BY <1>2, <1>3 DEF Accounted
<1>6. Passed(q, q, 0, 0)
  <2>1. Len(q) \in Nat /\ \A i \in 1..Len(q) : 0 + i = i /\ q[i].amount - 0 = q[i].amount
    BY JobFields
  <2> QED
    BY <2>1 DEF Passed
<1>7. Gives(q, g, 0, 0, DOMAIN b)
  <2>1. \A i \in 1..0 : FALSE
    OBVIOUS
  <2> QED
    BY <1>4, <2>1 DEF Gives
<1>8. Accounted(After(b, g, q), q)
  <2>1. PICK z \in Nat : z = 0
    OBVIOUS
  <2>2. z \in 0..Len(q)
    BY <2>1
  <2> QED
    BY <1>2, <1>3, <1>6, <1>7, <2>1, <2>2, PassKeeps
<1> QED
  BY <1>1, <1>2, <1>3, <1>4, <1>8 DEF KeptBy, g

(* The rows without one. *)
LEMMA RemoveAtIs ==
    ASSUME NEW q \in Seq(Job), NEW i \in 1..Len(q)
    PROVE  /\ RemoveAt(q, i) \in Seq(Job) /\ Len(RemoveAt(q, i)) = Len(q) - 1
           /\ \A k \in 1..Len(q) - 1 : RemoveAt(q, i)[k] = IF k < i THEN q[k] ELSE q[k + 1]
<1>1. Len(q) \in Nat /\ i - 1 \in 0..Len(q) /\ i \in Nat
  OBVIOUS
<1> DEFINE x == SubSeq(q, 1, i - 1)
           y == SubSeq(q, i + 1, Len(q))
<1>2. x \in Seq(Job) /\ Len(x) = i - 1 /\ \A k \in 1..i - 1 : x[k] = q[k]
  BY <1>1
<1>3. y \in Seq(Job) /\ Len(y) = Len(q) - i /\ \A k \in 1..Len(q) - i : y[k] = q[i + k]
  BY <1>1
<1>4. RemoveAt(q, i) = x \o y
  BY DEF RemoveAt
<1> HIDE DEF x, y
<1>5. x \o y \in Seq(Job) /\ Len(x \o y) = Len(q) - 1
  <2>1. x \in Seq(Job) /\ y \in Seq(Job)
    BY <1>2, <1>3
  <2>2. x \o y \in Seq(Job) /\ Len(x \o y) = Len(x) + Len(y)
    BY ONLY <2>1
  <2> QED
    BY <1>1, <1>2, <1>3, <2>2
<1>6. ASSUME NEW k \in 1..Len(q) - 1
      PROVE  (x \o y)[k] = IF k < i THEN q[k] ELSE q[k + 1]
  <2>1. CASE k < i
    BY <1>1, <1>2, <1>3, <2>1
  <2>2. CASE k >= i
    <3>1. k - (i - 1) \in 1..Len(q) - i /\ i + (k - (i - 1)) = k + 1
      BY <1>1, <2>2
    <3>2. (x \o y)[k] = y[k - (i - 1)]
      BY <1>1, <1>2, <1>3, <2>2
    <3>3. y[k - (i - 1)] = q[k + 1]
      BY <1>3, <3>1
    <3>4. ~(k < i)
      BY <1>1, <2>2
    <3> QED
      BY <3>2, <3>3, <3>4
  <2>3. k < i \/ k >= i
    BY <1>1
  <2> QED
    BY <2>1, <2>2, <2>3
<1> QED
  BY <1>4, <1>5, <1>6

\* The entry of a new order.
NewEntry(amount) == [size |-> amount, given |-> 0, back |-> 0, fate |-> "open"]

(* One element more at the end. *)
LEMMA AppendIs ==
    ASSUME NEW S, NEW s \in Seq(S), NEW x \in S
    PROVE  /\ Append(s, x) \in Seq(S) /\ Len(Append(s, x)) = Len(s) + 1
           /\ DOMAIN Append(s, x) = 1..Len(s) + 1
           /\ \A i \in 1..Len(s) : Append(s, x)[i] = s[i]
           /\ Append(s, x)[Len(s) + 1] = x
  OBVIOUS

(* A new order keeps the book right. *)
LEMMA AppendKeeps ==
    ASSUME NEW b \in Seq(Entry), NEW q \in Seq(Job), Accounted(b, q),
           NEW job \in Job, job.id = Len(b) + 1
    PROVE  /\ Append(b, NewEntry(job.amount)) \in Seq(Entry) /\ Append(q, job) \in Seq(Job)
           /\ Accounted(Append(b, NewEntry(job.amount)), Append(q, job))
<1>1. PICK e \in Entry : e = NewEntry(job.amount)
  BY JobFields DEF NewEntry, Entry
<1>2. e.size = job.amount /\ e.given = 0 /\ e.back = 0 /\ e.fate = "open"
  BY <1>1 DEF NewEntry
<1>3. PICK a \in Seq(Entry) : a = Append(b, e)
  BY AppendIs
<1>4. PICK r \in Seq(Job) : r = Append(q, job)
  BY AppendIs
<1>5. /\ DOMAIN b = 1..Len(b) /\ DOMAIN a = 1..Len(b) + 1 /\ Len(b) \in Nat
      /\ \A o \in DOMAIN b : a[o] = b[o] /\ o # job.id
      /\ a[job.id] = e
  <2>1. DOMAIN b = 1..Len(b) /\ Len(b) \in Nat
    OBVIOUS
  <2>2. /\ DOMAIN a = 1..Len(b) + 1 /\ a[Len(b) + 1] = e
        /\ \A o \in 1..Len(b) : a[o] = b[o]
    BY <1>3, AppendIs
  <2>3. \A o \in 1..Len(b) : o # Len(b) + 1
    BY <2>1
  <2> QED
    BY <2>1, <2>2, <2>3
<1>6. /\ Len(r) = Len(q) + 1 /\ Len(q) \in Nat
      /\ \A i \in 1..Len(q) : r[i] = q[i]
      /\ r[Len(q) + 1] = job
  BY <1>4, AppendIs
<1>7. RowsTell(b, q) /\ BackTells(b)
  BY DEF Accounted
<1>8. \A i \in 1..Len(q) : q[i].id \in DOMAIN b
  BY <1>7 DEF RowsTell
<1>9. \A i \in 1..Len(r) : i \in 1..Len(q) \/ i = Len(q) + 1
  BY <1>6
<1>10. \A o \in DOMAIN a : o \in DOMAIN b \/ o = job.id
  BY <1>5
<1>11. Distinct(r)
  <2> SUFFICES ASSUME NEW i \in 1..Len(r), NEW j \in 1..Len(r), r[i].id = r[j].id PROVE i = j
    BY DEF Distinct
  <2>1. CASE i \in 1..Len(q) /\ j \in 1..Len(q)
    BY <1>6, <1>7, <2>1 DEF RowsTell, Distinct
  <2>2. CASE i \in 1..Len(q) /\ j = Len(q) + 1
    BY <1>5, <1>6, <1>8, <2>2
  <2>3. CASE i = Len(q) + 1 /\ j \in 1..Len(q)
    BY <1>5, <1>6, <1>8, <2>3
  <2> QED
    BY <1>9, <2>1, <2>2, <2>3
<1>12. \A i \in 1..Len(r) : /\ r[i].id \in DOMAIN a /\ a[r[i].id].fate = "open"
                            /\ a[r[i].id].given + r[i].amount = a[r[i].id].size
  <2> TAKE i \in 1..Len(r)
  <2>1. CASE i \in 1..Len(q)
    <3>1. /\ q[i].id \in DOMAIN b /\ b[q[i].id].fate = "open"
          /\ b[q[i].id].given + q[i].amount = b[q[i].id].size
      BY <1>7, <2>1 DEF RowsTell
    <3>2. r[i] = q[i] /\ a[q[i].id] = b[q[i].id] /\ q[i].id \in DOMAIN a
      BY <1>5, <1>6, <2>1, <3>1
    <3> QED
      BY <3>1, <3>2
  <2>2. CASE i = Len(q) + 1
    <3>1. job.amount \in Nat /\ job.id \in DOMAIN a
      BY <1>5, JobFields
    <3>2. r[i].id = job.id /\ r[i].amount = job.amount /\ a[job.id] = e
      BY <1>5, <1>6, <2>2
    <3> QED
      BY <1>2, <3>1, <3>2
  <2> QED
    BY <1>9, <2>1, <2>2
<1>13. \A o \in DOMAIN a : /\ a[o].fate = "open" => \E i \in 1..Len(r) : r[i].id = o
                           /\ a[o].fate = "built" => a[o].given = a[o].size
                           /\ a[o].given <= a[o].size
                           /\ a[o].size > 0 /\ (a[o].fate # "cancelled" => a[o].back = 0)
  <2> TAKE o \in DOMAIN a
  <2>1. CASE o \in DOMAIN b
    <3>1. a[o] = b[o]
      BY <1>5, <2>1
    <3>2. /\ b[o].fate = "open" => \E i \in 1..Len(q) : q[i].id = o
          /\ b[o].fate = "built" => b[o].given = b[o].size
          /\ b[o].given <= b[o].size
      BY <1>7, <2>1 DEF RowsTell
    <3>3. b[o].size > 0 /\ (b[o].fate # "cancelled" => b[o].back = 0)
      BY <1>7, <2>1 DEF BackTells
    <3>4. \A i \in 1..Len(q) : r[i].id = q[i].id /\ i \in 1..Len(r)
      BY <1>6
    <3> QED
      BY <3>1, <3>2, <3>3, <3>4
  <2>2. CASE o = job.id
    <3>1. a[o] = e
      BY <1>5, <2>2
    <3>2. Len(q) + 1 \in 1..Len(r) /\ r[Len(q) + 1].id = o
      BY <1>6, <2>2
    <3>3. job.amount \in Nat /\ job.amount > 0
      BY JobFields
    <3> QED
      BY <1>2, <3>1, <3>2, <3>3
  <2> QED
    BY <1>10, <2>1, <2>2
<1>14. RowsTell(a, r) /\ BackTells(a)
  BY <1>11, <1>12, <1>13 DEF RowsTell, BackTells
<1>15. ASSUME kind = "barracks" PROVE FirstOnly(a, r) /\ WholeOnlyFresh(a)
  <2>1. FirstOnly(b, q) /\ WholeOnlyFresh(b)
    BY <1>15 DEF Accounted
  <2>2. \A i \in 1..Len(r) : i # 1 => a[r[i].id].given = 0
    <3> TAKE i \in 1..Len(r)
    <3>1. CASE i \in 1..Len(q)
      BY <1>5, <1>6, <1>8, <2>1, <3>1 DEF FirstOnly
    <3>2. CASE i = Len(q) + 1
      BY <1>2, <1>5, <1>6, <3>2
    <3> QED
      BY <1>9, <3>1, <3>2
  <2>3. \A o \in DOMAIN a : a[o].back = 2 * a[o].size => a[o].given = 0
    <3> TAKE o \in DOMAIN a
    <3>1. CASE o \in DOMAIN b
      BY <1>5, <2>1, <3>1 DEF WholeOnlyFresh
    <3>2. CASE o = job.id
      BY <1>2, <1>5, <3>2
    <3> QED
      BY <1>10, <3>1, <3>2
  <2> QED
    BY <2>2, <2>3 DEF FirstOnly, WholeOnlyFresh
<1> QED
  BY <1>1, <1>3, <1>4, <1>14, <1>15 DEF Accounted

\* The book when an order is cancelled.
Closed(b, id, back) == [b EXCEPT ![id].back = back, ![id].fate = "cancelled"]

(* The other orders stay as they are. *)
LEMMA ClosedIs ==
    ASSUME NEW b \in Seq(Entry), NEW id \in DOMAIN b, NEW back \in Nat
    PROVE  /\ Closed(b, id, back) \in Seq(Entry) /\ DOMAIN Closed(b, id, back) = DOMAIN b
           /\ \A o \in DOMAIN b : o # id => Closed(b, id, back)[o] = b[o]
           /\ Closed(b, id, back)[id].size = b[id].size
           /\ Closed(b, id, back)[id].given = b[id].given
           /\ Closed(b, id, back)[id].back = back
           /\ Closed(b, id, back)[id].fate = "cancelled"
<1>1. PICK e \in Entry : e = b[id]
  OBVIOUS
<1>2. PICK f \in Entry : f = [e EXCEPT !.back = back, !.fate = "cancelled"]
  BY DEF Entry
<1>3. f.size = e.size /\ f.given = e.given /\ f.back = back /\ f.fate = "cancelled"
  BY <1>2 DEF Entry
<1>4. Closed(b, id, back) = [b EXCEPT ![id] = f]
  BY <1>1, <1>2 DEF Closed, Entry
<1> QED
  BY <1>1, <1>3, <1>4

(* A row less keeps the book right, if its order is closed and not given     *)
(* back whole when it stands first in the barracks.                          *)
LEMMA RemoveKeeps ==
    ASSUME NEW b \in Seq(Entry), NEW q \in Seq(Job), Accounted(b, q),
           NEW i \in 1..Len(q), NEW back \in Nat,
           kind = "barracks" /\ i = 1 => back # 2 * b[q[i].id].size
    PROVE  /\ q[i].id \in DOMAIN b
           /\ Accounted(Closed(b, q[i].id, back), RemoveAt(q, i))
<1>1. RowsTell(b, q) /\ BackTells(b)
  BY DEF Accounted
<1>2. PICK id \in DOMAIN b : id = q[i].id /\ b[id].fate = "open"
  BY <1>1 DEF RowsTell
<1>3. PICK a \in Seq(Entry) : a = Closed(b, id, back)
  BY ClosedIs
<1>4. /\ DOMAIN a = DOMAIN b /\ \A o \in DOMAIN b : o # id => a[o] = b[o]
      /\ a[id].size = b[id].size /\ a[id].given = b[id].given
      /\ a[id].back = back /\ a[id].fate = "cancelled"
  <2> DEFINE c == Closed(b, id, back)
  <2>1. /\ DOMAIN c = DOMAIN b /\ \A o \in DOMAIN b : o # id => c[o] = b[o]
        /\ c[id].size = b[id].size /\ c[id].given = b[id].given
        /\ c[id].back = back /\ c[id].fate = "cancelled"
    BY ONLY b \in Seq(Entry), id \in DOMAIN b, back \in Nat, ClosedIs, ZenonT(30) DEF c
  <2>2. a = c
    BY <1>3
  <2> HIDE DEF c
  <2> QED
    BY <2>1, <2>2
<1>5. PICK r \in Seq(Job) : r = RemoveAt(q, i)
  BY RemoveAtIs
<1> DEFINE p(k) == IF k < i THEN k ELSE k + 1
<1>6. Len(r) = Len(q) - 1 /\ Len(q) \in Nat /\ i \in Nat
  BY <1>5, RemoveAtIs
<1>7. \A k \in 1..Len(r) : p(k) \in 1..Len(q) /\ p(k) # i /\ r[k] = q[p(k)] /\ (k # 1 => p(k) # 1)
  BY SMTT(20), <1>5, <1>6, RemoveAtIs
<1>8. \A k, m \in 1..Len(r) : p(k) = p(m) => k = m
  BY <1>6
<1>9. \A k \in 1..Len(q) : k # i => \E m \in 1..Len(r) : p(m) = k
  <2> SUFFICES ASSUME NEW k \in 1..Len(q), k # i PROVE \E m \in 1..Len(r) : p(m) = k
    OBVIOUS
  <2>1. CASE k < i
    BY SMTT(20), <1>6, <2>1
  <2>2. CASE k > i
    <3>1. k - 1 \in 1..Len(r) /\ p(k - 1) = k
      BY <1>6, <2>2
    <3> QED
      BY <3>1
  <2> QED
    BY <1>6, <2>1, <2>2
<1> HIDE DEF p
<1>10. \A k \in 1..Len(r) : /\ r[k].id \in DOMAIN b /\ r[k].id # id
                            /\ a[r[k].id] = b[r[k].id]
  <2> TAKE k \in 1..Len(r)
  <2>1. q[p(k)].id # q[i].id
    BY <1>1, <1>7 DEF RowsTell, Distinct
  <2> QED
    BY SMTT(20), <1>1, <1>2, <1>4, <1>7, <2>1 DEF RowsTell
<1>11. Distinct(r)
  <2> SUFFICES ASSUME NEW k \in 1..Len(r), NEW m \in 1..Len(r), r[k].id = r[m].id PROVE k = m
    BY DEF Distinct
  <2>2. /\ p(k) \in 1..Len(q) /\ r[k] = q[p(k)]
        /\ p(m) \in 1..Len(q) /\ r[m] = q[p(m)]
    BY <1>7
  <2>1. p(k) = p(m)
    <3>1. PICK x \in 1..Len(q), y \in 1..Len(q) : x = p(k) /\ y = p(m) /\ q[x].id = q[y].id
      BY <2>2
    <3>2. Distinct(q)
      BY <1>1 DEF RowsTell
    <3>3. x = y
      BY ONLY <3>1, <3>2 DEF Distinct
    <3> QED
      BY ONLY <3>1, <3>3
  <2> QED
    BY <1>8, <2>1
<1>12. \A k \in 1..Len(r) : /\ r[k].id \in DOMAIN a /\ a[r[k].id].fate = "open"
                            /\ a[r[k].id].given + r[k].amount = a[r[k].id].size
  <2> TAKE k \in 1..Len(r)
  <2>1. /\ q[p(k)].id \in DOMAIN b /\ b[q[p(k)].id].fate = "open"
        /\ b[q[p(k)].id].given + q[p(k)].amount = b[q[p(k)].id].size
    BY <1>1, <1>7 DEF RowsTell
  <2> QED
    BY <1>4, <1>7, <1>10, <2>1
<1>13. \A o \in DOMAIN a : /\ a[o].fate = "open" => \E k \in 1..Len(r) : r[k].id = o
                           /\ a[o].fate = "built" => a[o].given = a[o].size
                           /\ a[o].given <= a[o].size
                           /\ a[o].size > 0 /\ (a[o].fate # "cancelled" => a[o].back = 0)
  <2> TAKE o \in DOMAIN a
  <2>1. /\ b[o].fate = "open" => \E k \in 1..Len(q) : q[k].id = o
        /\ b[o].fate = "built" => b[o].given = b[o].size
        /\ b[o].given <= b[o].size
        /\ b[o].size > 0 /\ (b[o].fate # "cancelled" => b[o].back = 0)
    BY <1>1, <1>4 DEF RowsTell, BackTells
  <2>2. CASE o = id
    BY <1>4, <2>1, <2>2
  <2>3. CASE o # id
    <3>1. a[o] = b[o]
      BY <1>4, <2>3
    <3>2. ASSUME NEW k \in 1..Len(q), q[k].id = o PROVE \E m \in 1..Len(r) : r[m].id = o
      <4>1. k # i
        BY <1>2, <2>3, <3>2
      <4>2. PICK m \in 1..Len(r) : p(m) = k
        BY <1>9, <4>1
      <4> QED
        BY <1>7, <3>2, <4>2
    <3> QED
      BY <2>1, <3>1, <3>2
  <2> QED
    BY <2>2, <2>3
<1>14. RowsTell(a, r) /\ BackTells(a)
  BY <1>11, <1>12, <1>13 DEF RowsTell, BackTells
<1>15. ASSUME kind = "barracks" PROVE FirstOnly(a, r) /\ WholeOnlyFresh(a)
  <2>1. FirstOnly(b, q) /\ WholeOnlyFresh(b)
    BY <1>15 DEF Accounted
  <2>2. \A k \in 1..Len(r) : k # 1 => a[r[k].id].given = 0
    <3> SUFFICES ASSUME NEW k \in 1..Len(r), k # 1 PROVE a[r[k].id].given = 0
      OBVIOUS
    <3>1. p(k) \in 1..Len(q) /\ r[k] = q[p(k)] /\ p(k) # 1
      BY <1>7
    <3>2. a[r[k].id] = b[r[k].id]
      BY <1>10
    <3> QED
      BY <2>1, <3>1, <3>2 DEF FirstOnly
  <2>3. \A o \in DOMAIN a : a[o].back = 2 * a[o].size => a[o].given = 0
    <3> TAKE o \in DOMAIN a
    <3>1. CASE o # id
      BY <1>4, <2>1, <3>1 DEF WholeOnlyFresh
    <3>2. CASE o = id
      <4>1. i # 1 => b[id].given = 0
        BY <1>2, <2>1 DEF FirstOnly
      <4>2. i = 1 => back # 2 * b[id].size
        BY <1>2, <1>15
      <4> QED
        BY <1>4, <3>2, <4>1, <4>2
    <3> QED
      BY <3>1, <3>2
  <2> QED
    BY <2>2, <2>3 DEF FirstOnly, WholeOnlyFresh
<1> QED
  BY <1>2, <1>3, <1>5, <1>14, <1>15 DEF Accounted

(* Two neighbours change places: the orders are the same. *)
LEMMA SwapKeeps ==
    ASSUME NEW b \in Seq(Entry), NEW q \in Seq(Job), Accounted(b, q), kind # "barracks",
           NEW i \in 1..Len(q), i + 1 \in 1..Len(q)
    PROVE  LET r == [q EXCEPT ![i] = q[i + 1], ![i + 1] = q[i]]
           IN  r \in Seq(Job) /\ Accounted(b, r)
<1> DEFINE p == [k \in 1..Len(q) |-> IF k = i THEN i + 1 ELSE IF k = i + 1 THEN i ELSE k]
<1>1. \A k \in 1..Len(q) : p[k] \in 1..Len(q) /\ p[p[k]] = k
  OBVIOUS
<1>2. PICK r : r = [q EXCEPT ![i] = q[i + 1], ![i + 1] = q[i]]
  OBVIOUS
<1>3. r \in Seq(Job) /\ Len(r) = Len(q)
  BY <1>2
<1>4. \A k \in 1..Len(q) : r[k] = q[p[k]]
  BY <1>2
<1> HIDE DEF p
<1>5. RowsTell(b, q) /\ BackTells(b)
  BY DEF Accounted
<1>6. Distinct(r)
  <2> SUFFICES ASSUME NEW k \in 1..Len(q), NEW m \in 1..Len(q), r[k].id = r[m].id PROVE k = m
    BY <1>3 DEF Distinct
  <2>3. p[k] \in 1..Len(q) /\ p[m] \in 1..Len(q)
    BY <1>1
  <2>4. r[k] = q[p[k]] /\ r[m] = q[p[m]]
    BY <1>4
  <2>1. q[p[k]].id = q[p[m]].id /\ p[k] \in 1..Len(q) /\ p[m] \in 1..Len(q)
    BY <2>3, <2>4
  <2>2. p[k] = p[m]
    <3>1. Distinct(q)
      BY <1>5 DEF RowsTell
    <3> QED
      BY <2>1, <3>1 DEF Distinct
  <2> QED
    BY <1>1, <2>2
<1>7. \A k \in 1..Len(r) : /\ r[k].id \in DOMAIN b /\ b[r[k].id].fate = "open"
                           /\ b[r[k].id].given + r[k].amount = b[r[k].id].size
  <2> TAKE k \in 1..Len(r)
  <2>1. p[k] \in 1..Len(q) /\ r[k] = q[p[k]]
    BY <1>1, <1>3, <1>4
  <2> QED
    BY SMTT(20), <1>5, <2>1 DEF RowsTell
<1>8. \A o \in DOMAIN b : b[o].fate = "open" => \E k \in 1..Len(r) : r[k].id = o
  <2> SUFFICES ASSUME NEW o \in DOMAIN b, b[o].fate = "open" PROVE \E k \in 1..Len(r) : r[k].id = o
    OBVIOUS
  <2>1. PICK k \in 1..Len(q) : q[k].id = o
    BY <1>5 DEF RowsTell
  <2>2. p[k] \in 1..Len(r) /\ r[p[k]].id = o
    BY <1>1, <1>3, <1>4, <2>1
  <2> QED
    BY <2>2
<1>9. RowsTell(b, r)
  BY <1>5, <1>6, <1>7, <1>8 DEF RowsTell
<1> QED
  BY <1>2, <1>3, <1>5, <1>9 DEF Accounted

(* A queue that is shifted has the same orders. *)
LEMMA ShiftedIs ==
    ASSUME NEW q \in Seq(Job), NEW s \in Nat
    PROVE  /\ Shifted(q, s) \in Seq(Job) /\ SameOrders(Shifted(q, s), q)
           /\ \A i \in 1..Len(q) : /\ Shifted(q, s)[i].start = q[i].start - s
                                  /\ Shifted(q, s)[i].finish = q[i].finish - s
           /\ \A t \in Int : Busy(q, t) => Busy(Shifted(q, s), t)
<1> DEFINE z == Shifted(q, s)
<1>1. DOMAIN q = 1..Len(q) /\ Len(q) \in Nat
  OBVIOUS
<1>2. \A i \in 1..Len(q) : /\ z[i] \in Job /\ Same(z[i], q[i])
                           /\ z[i].start = q[i].start - s /\ z[i].finish = q[i].finish - s
  <2> TAKE i \in 1..Len(q)
  <2>1. PICK j \in Job : j = q[i]
    OBVIOUS
  <2>2. PICK x \in Int : x = j.start - s
    BY JobFields
  <2>3. PICK y \in Int : y = j.finish - s
    BY JobFields
  <2>4. z[i] = [j EXCEPT !.start = x, !.finish = y]
    BY <1>1, <2>1, <2>2, <2>3 DEF Shifted
  <2>5. /\ [j EXCEPT !.start = x, !.finish = y] \in Job
        /\ Same([j EXCEPT !.start = x, !.finish = y], j)
        /\ [j EXCEPT !.start = x, !.finish = y].start = x
        /\ [j EXCEPT !.start = x, !.finish = y].finish = y
    BY DEF Job, Same
  <2> QED
    BY <2>1, <2>2, <2>3, <2>4, <2>5
<1>3. z = [i \in 1..Len(q) |-> z[i]]
  BY <1>1 DEF Shifted
<1> HIDE DEF z
<1>4. z \in [1..Len(q) -> Job]
  BY <1>2, <1>3
<1>5. z \in Seq(Job) /\ Len(z) = Len(q)
  BY <1>1, <1>4
<1>6. SameOrders(z, q)
  BY <1>2, <1>5 DEF SameOrders
<1>7. ASSUME NEW t \in Int, Busy(q, t) PROVE Busy(z, t)
  <2>1. Seamless(z)
    <3> SUFFICES ASSUME NEW i \in 1..Len(q), i # 1 PROVE z[i].start = z[i - 1].finish
      BY <1>5 DEF Seamless
    <3>1. i - 1 \in 1..Len(q)
      BY <1>1
    <3>2. q[i].start = q[i - 1].finish
      BY <1>7 DEF Busy, Seamless
    <3> QED
      BY <1>2, <3>1, <3>2
  <2>2. z # <<>> => z[1].start <= t
    <3> SUFFICES ASSUME z # <<>> PROVE z[1].start <= t
      OBVIOUS
    <3>1. 1 \in 1..Len(q) /\ q # <<>>
      BY <1>5
    <3>2. q[1].start <= t /\ q[1].start \in Int
      BY <1>7, <3>1, JobFields DEF Busy
    <3>3. z[1].start = q[1].start - s
      BY <1>2, <3>1
    <3> QED
      BY <3>2, <3>3
  <2> QED
    BY <2>1, <2>2 DEF Busy
<1> QED
  BY <1>2, <1>5, <1>6, <1>7 DEF z

(* What follows a removal keeps the orders. *)
LEMMA RescheduledIs ==
    ASSUME NEW q \in Seq(Job), NEW l \in Levels, NEW t \in Int
    PROVE  /\ RescheduledAfter(q, l, t) \in Seq(Job) /\ SameOrders(RescheduledAfter(q, l, t), q)
           /\ Follows(RescheduledAfter(q, l, t), l)
           /\ kind # "barracks" => Busy(RescheduledAfter(q, l, t), t)
<1>1. PICK z \in Seq(Job) : z = Recalculate(q, l, t)
  BY RecalculateIs
<1>2. Busy(z, t) /\ SameOrders(z, q) /\ Follows(z, l)
  <2>1. Seamless(z) /\ SameOrders(z, q) /\ (q # <<>> => z[1].start = t) /\ Follows(z, l)
    BY <1>1, RecalculateIs
  <2>2. z # <<>> => q # <<>>
    BY <2>1 DEF SameOrders
  <2> QED
    BY <2>1, <2>2 DEF Busy
<1> QED
  BY <1>1, <1>2, SyncIs DEF RescheduledAfter

(* A queue that is synchronised stays busy. *)
LEMMA SyncBusy ==
    ASSUME NEW q \in Seq(Job), NEW l \in Levels, NEW t \in Int, Busy(q, t)
    PROVE  Busy(Sync(q, l, t), t)
<1>1. PICK z \in Seq(Job) : z = Sync(q, l, t)
  BY SyncIs
<1>2. Seamless(z) /\ SameOrders(z, q) /\ (q # <<>> => z[1] = SyncHead(q[1], l, t))
  BY <1>1, SyncIs
<1>3. ASSUME z # <<>> PROVE z[1].start <= t
  <2>1. q # <<>> /\ 1 \in 1..Len(q)
    BY <1>2, <1>3 DEF SameOrders
  <2>2. z[1].start = q[1].start \/ z[1].start = t
    BY <1>2, <2>1, SyncHeadIs
  <2>3. q[1].start <= t
    BY <2>1 DEF Busy
  <2> QED
    BY <2>2, <2>3
<1> QED
  BY <1>1, <1>2, <1>3 DEF Busy

Adds(w, v, u, D) == \A o \in D : w[o] = v[o] + u[o]

\* What a pass does to the book b, entry by entry.
AfterIs(a, b, u, r) ==
    \A o \in DOMAIN b :
        /\ a[o].size = b[o].size /\ a[o].back = b[o].back
        /\ a[o].given = b[o].given + u[o]
        /\ a[o].fate = IF b[o].fate = "open" /\ o \notin Ids(r) THEN "built" ELSE b[o].fate

(* So it does. *)
LEMMA AfterIsAfter ==
    ASSUME NEW b \in Seq(Entry), NEW u \in [DOMAIN b -> Nat], NEW r
    PROVE  AfterIs(After(b, u, r), b, u, r)
  BY AfterEntry DEF AfterIs

(* An entry is its fields. *)
LEMMA EntrySame ==
    ASSUME NEW e \in Entry, NEW f \in Entry,
           e.size = f.size, e.given = f.given, e.back = f.back, e.fate = f.fate
    PROVE  e = f
<1>1. e = [size |-> e.size, given |-> e.given, back |-> e.back, fate |-> e.fate]
  BY DEF Entry
<1>2. f = [size |-> f.size, given |-> f.given, back |-> f.back, fate |-> f.fate]
  BY DEF Entry
<1> QED
  BY <1>1, <1>2, Zenon

(* Two passes, one after the other, change an entry like one that delivers   *)
(* the units of both.                                                        *)
LEMMA EntryTwice ==
    ASSUME NEW b \in Seq(Entry), NEW a \in Seq(Entry), NEW x \in Seq(Entry), NEW y \in Seq(Entry),
           DOMAIN a = DOMAIN b, DOMAIN x = DOMAIN b, DOMAIN y = DOMAIN b,
           NEW u \in [DOMAIN b -> Nat], NEW v \in [DOMAIN b -> Nat],
           NEW w, Adds(w, v, u, DOMAIN b), NEW r, NEW s \in Seq(Job),
           AfterIs(a, b, u, r), AfterIs(x, a, v, s), AfterIs(y, b, w, s), RowsTell(x, s)
    PROVE  x = y
<1>1. ASSUME NEW o \in DOMAIN b PROVE x[o] = y[o]
  <2>1. /\ a[o].size = b[o].size /\ a[o].back = b[o].back
        /\ a[o].given = b[o].given + u[o]
        /\ a[o].fate = IF b[o].fate = "open" /\ o \notin Ids(r) THEN "built" ELSE b[o].fate
    BY DEF AfterIs
  <2>2. /\ y[o].size = b[o].size /\ y[o].back = b[o].back
        /\ y[o].given = b[o].given + w[o]
        /\ y[o].fate = IF b[o].fate = "open" /\ o \notin Ids(s) THEN "built" ELSE b[o].fate
    BY DEF AfterIs
  <2>3. /\ x[o].size = a[o].size /\ x[o].back = a[o].back
        /\ x[o].given = a[o].given + v[o]
        /\ x[o].fate = IF a[o].fate = "open" /\ o \notin Ids(s) THEN "built" ELSE a[o].fate
    BY DEF AfterIs
  <2>4. b[o].given \in Nat /\ u[o] \in Nat /\ v[o] \in Nat /\ w[o] = v[o] + u[o]
    BY EntryFields DEF Adds
  <2>5. ASSUME o \in Ids(s) PROVE x[o].fate = "open"
    <3>1. PICK i \in 1..Len(s) : s[i].id = o
      BY <2>5 DEF Ids
    <3> QED
      BY <3>1 DEF RowsTell
  <2>6. x[o].given = y[o].given
    BY <2>1, <2>2, <2>3, <2>4
  <2>7. x[o].fate = y[o].fate
    BY <2>1, <2>2, <2>3, <2>5
  <2>8. PICK e \in Entry : e = x[o]
    OBVIOUS
  <2>9. PICK f \in Entry : f = y[o]
    OBVIOUS
  <2>10. e.size = f.size /\ e.given = f.given /\ e.back = f.back /\ e.fate = f.fate
    BY <2>1, <2>2, <2>3, <2>6, <2>7, <2>8, <2>9
  <2>11. e = f
    BY <2>10, EntrySame
  <2> QED
    BY <2>8, <2>9, <2>11
<1>2. x = [o \in DOMAIN b |-> x[o]] /\ y = [o \in DOMAIN b |-> y[o]]
  <2>1. x = [o \in DOMAIN x |-> x[o]] /\ y = [o \in DOMAIN y |-> y[o]]
    OBVIOUS
  <2> QED
    BY <2>1
<1> QED
  BY <1>1, <1>2

\* Two passes that add up to one.
TwoPasses(b, u, v, w, r, s) ==
    /\ b \in Seq(Entry) /\ u \in [DOMAIN b -> Nat]
    /\ v \in [DOMAIN b -> Nat] /\ w \in [DOMAIN b -> Nat] /\ Adds(w, v, u, DOMAIN b)
    /\ r \in Seq(Job) /\ s \in Seq(Job) /\ RowsTell(After(After(b, u, r), v, s), s)

(* ... and the whole book.                                                   *)
LEMMA AfterTwice ==
    ASSUME NEW b, NEW u, NEW v, NEW w, NEW r, NEW s, TwoPasses(b, u, v, w, r, s)
    PROVE  After(After(b, u, r), v, s) = After(b, w, s)
<1>0. /\ b \in Seq(Entry) /\ u \in [DOMAIN b -> Nat]
      /\ v \in [DOMAIN b -> Nat] /\ w \in [DOMAIN b -> Nat] /\ Adds(w, v, u, DOMAIN b)
      /\ r \in Seq(Job) /\ s \in Seq(Job) /\ RowsTell(After(After(b, u, r), v, s), s)
  BY DEF TwoPasses
<1> USE <1>0
<1>1. PICK a \in Seq(Entry) : a = After(b, u, r)
  <2>1. After(b, u, r) \in Seq(Entry)
    BY AfterType
  <2> QED
    BY <2>1
<1>2. PICK y \in Seq(Entry) : y = After(b, w, s)
  <2>1. After(b, w, s) \in Seq(Entry)
    BY AfterType
  <2> QED
    BY <2>1
<1>3. DOMAIN a = DOMAIN b /\ DOMAIN y = DOMAIN b
  BY <1>1, <1>2 DEF After
<1>4. v \in [DOMAIN a -> Nat]
  BY <1>3
<1>5. PICK x \in Seq(Entry) : x = After(a, v, s)
  <2>1. After(a, v, s) \in Seq(Entry)
    BY <1>4, AfterType
  <2> QED
    BY <2>1
<1>6. DOMAIN x = DOMAIN b
  BY <1>3, <1>5 DEF After
<1>7. AfterIs(a, b, u, r)
  BY <1>1, AfterIsAfter
<1>8. AfterIs(x, a, v, s)
  BY <1>4, <1>5, AfterIsAfter
<1>9. AfterIs(y, b, w, s)
  BY <1>2, AfterIsAfter
<1>10. RowsTell(x, s)
  BY <1>1, <1>5
<1>11. x = y
  BY <1>3, <1>6, <1>7, <1>8, <1>9, <1>10, EntryTwice
<1> QED
  BY <1>1, <1>2, <1>5, <1>11

-----------------------------------------------------------------------------
(* The operations. *)

Inv ==
    /\ TypeOK
    /\ Accounted(book, queue)
    /\ kind = "yard" => Busy(queue, now)

(* What is known of the state. *)
LEMMA InvFacts ==
    ASSUME Inv
    PROVE  /\ now \in Int /\ level \in Levels /\ kind \in {"yard", "barracks"}
           /\ queue \in Seq(Job) /\ book \in Seq(Entry)
           /\ Accounted(book, queue) /\ RowsTell(book, queue)
           /\ (kind = "yard" => Busy(queue, now))
           /\ MaxLevel \in Nat /\ Horizon \in Nat
  BY UnitAssumption DEF Inv, TypeOK, Entry, Accounted, Levels

\* A step that leaves queue and book as they should be, and delivers the head
\* of the barracks when it is due.
Turns ==
    /\ book' \in Seq(Entry) /\ queue' \in Seq(Job)
    /\ Accounted(book', queue')
    /\ kind = "yard" => Busy(queue', now)
    /\ kind = "barracks" => KeepsDue

(* What is due is delivered when its order is built.                         *)
LEMMA DueIsKept ==
    ASSUME Inv, NEW done, DueDone(book, queue, done, now),
           \A o \in DOMAIN book : After(book, done.units, done.queue)[o].fate = "built"
                                    => book'[o].given = book[o].size
    PROVE  KeepsDue
  BY DEF KeepsDue, DueDone

(* The book after a pass that leaves things right.                           *)
LEMMA KeptIs ==
    ASSUME Inv, NEW done, KeptBy(book, queue, done, now)
    PROVE  /\ Delivered(done) = After(book, done.units, done.queue)
           /\ Delivered(done) \in Seq(Entry) /\ DOMAIN Delivered(done) = DOMAIN book
           /\ Len(Delivered(done)) = Len(book)
           /\ Accounted(Delivered(done), done.queue) /\ RowsTell(Delivered(done), done.queue)
           /\ done.queue \in Seq(Job)
           /\ (kind = "yard" => Busy(done.queue, now))
           /\ \A o \in DOMAIN book : /\ Delivered(done)[o].size = book[o].size
                                     /\ Delivered(done)[o].fate = "built"
                                          => Delivered(done)[o].given = book[o].size
<1>1. Delivered(done) = After(book, done.units, done.queue)
  BY DEF Delivered, After
<1>2. /\ done.units \in [DOMAIN book -> Nat] /\ done.queue \in Seq(Job)
      /\ Accounted(After(book, done.units, done.queue), done.queue)
      /\ (kind = "yard" => Busy(done.queue, now))
  BY InvFacts DEF KeptBy
<1>3. book \in Seq(Entry)
  BY InvFacts
<1>4. /\ After(book, done.units, done.queue) \in Seq(Entry)
      /\ DOMAIN After(book, done.units, done.queue) = DOMAIN book
      /\ Len(After(book, done.units, done.queue)) = Len(book)
  BY <1>2, <1>3, AfterType
<1>5. RowsTell(Delivered(done), done.queue)
  BY <1>1, <1>2 DEF Accounted
<1>6. \A o \in DOMAIN book : /\ Delivered(done)[o].size = book[o].size
                             /\ Delivered(done)[o].fate = "built"
                                  => Delivered(done)[o].given = book[o].size
  <2> TAKE o \in DOMAIN book
  <2>1. Delivered(done)[o].size = book[o].size
    <3>1. After(book, done.units, done.queue)[o].size = book[o].size
      BY <1>2, <1>3, AfterEntry
    <3> QED
      BY ONLY <1>1, <3>1
  <2>2. o \in DOMAIN Delivered(done)
    BY <1>1, <1>4
  <2> QED
    BY <1>5, <2>1, <2>2 DEF RowsTell
<1> QED
  BY <1>1, <1>2, <1>4, <1>5, <1>6

(* What happens before a queue is changed.                                   *)
LEMMA BeforeIs ==
    ASSUME Inv
    PROVE  /\ KeptBy(book, queue, BeforeMutation, now)
           /\ kind = "barracks" => DueDone(book, queue, BeforeMutation, now)
<1>1. CASE kind = "barracks"
  <2>1. BeforeMutation = Finish(queue, level, now)
    BY <1>1 DEF BeforeMutation
  <2> QED
    BY <2>1, InvFacts, FinishKeeps
<1>2. CASE kind # "barracks"
  <2>1. BeforeMutation = Unfinished
    BY <1>2 DEF BeforeMutation
  <2> QED
    BY <1>2, <2>1, InvFacts, UnfinishedKeeps
<1> QED
  BY <1>1, <1>2

(* A page keeps the queue right. *)
LEMMA PageTurns ==
    ASSUME Inv, Page
    PROVE  /\ Turns /\ level' \in 1..MaxLevel /\ level <= level'
           /\ UNCHANGED <<kind, now, stock, boosted>>
<1>1. PICK upgrade \in BOOLEAN, view \in BOOLEAN :
        LET l == IF upgrade THEN level + 1 ELSE level IN
        /\ l <= MaxLevel
        /\ \E done \in {Finish(IF upgrade /\ kind = "yard" THEN Sync(queue, l, now) ELSE queue,
                               l, now)} :
             /\ level' = l
             /\ queue' = IF view /\ kind = "yard" THEN Sync(done.queue, l, now) ELSE done.queue
             /\ book' = Delivered(done)
        /\ UNCHANGED <<kind, now, stock, boosted>>
  BY DEF Page
<1> DEFINE l == IF upgrade THEN level + 1 ELSE level
           q == IF upgrade /\ kind = "yard" THEN Sync(queue, l, now) ELSE queue
           done == Finish(q, l, now)
<1>2. l \in Levels /\ l \in 1..MaxLevel /\ level <= l
  BY <1>1, InvFacts DEF Levels
<1> HIDE DEF l
<1>3. /\ q \in Seq(Job) /\ Accounted(book, q)
      /\ (kind = "yard" => Busy(q, now)) /\ (kind = "barracks" => q = queue)
  <2>1. CASE upgrade /\ kind = "yard"
    <3>1. PICK z \in Seq(Job) : z = Sync(queue, l, now)
      BY <1>2, InvFacts, SyncIs
    <3>2. SameOrders(z, queue) /\ Busy(z, now)
      BY <1>2, <2>1, <3>1, InvFacts, SyncIs, SyncBusy
    <3>3. Accounted(book, z)
      BY <3>2, InvFacts, SameKeeps
    <3> QED
      BY <2>1, <3>1, <3>2, <3>3
  <2>2. CASE ~(upgrade /\ kind = "yard")
    BY <2>2, InvFacts
  <2> QED
    BY <2>1, <2>2
<1> HIDE DEF q
<1>4. KeptBy(book, q, done, now) /\ DueDone(book, q, done, now)
  BY <1>2, <1>3, InvFacts, FinishKeeps
<1>5. /\ level' = l /\ book' = Delivered(done)
      /\ queue' = IF view /\ kind = "yard" THEN Sync(done.queue, l, now) ELSE done.queue
      /\ UNCHANGED <<kind, now, stock, boosted>>
  BY <1>1 DEF l, q
<1> HIDE DEF done
<1>6. KeptBy(book, queue, done, now)
  BY <1>3, <1>4, InvFacts DEF KeptBy
<1>7. /\ Delivered(done) \in Seq(Entry) /\ Accounted(Delivered(done), done.queue)
      /\ done.queue \in Seq(Job) /\ (kind = "yard" => Busy(done.queue, now))
  BY <1>6, KeptIs
<1>8. queue' \in Seq(Job) /\ Accounted(book', queue') /\ (kind = "yard" => Busy(queue', now))
  <2>1. CASE view /\ kind = "yard"
    <3>1. PICK d \in Seq(Job) : d = done.queue
      BY <1>7
    <3>2. PICK z \in Seq(Job) : z = Sync(d, l, now)
      BY <1>2, InvFacts, SyncIs
    <3>3. SameOrders(z, d) /\ Busy(z, now)
      BY <1>2, <1>7, <2>1, <3>1, <3>2, InvFacts, SyncIs, SyncBusy
    <3>4. Accounted(Delivered(done), z)
      BY <1>7, <3>1, <3>3, SameKeeps
    <3> QED
      BY <1>5, <2>1, <3>1, <3>2, <3>3, <3>4
  <2>2. CASE ~(view /\ kind = "yard")
    BY <1>5, <1>7, <2>2
  <2> QED
    BY <2>1, <2>2
<1>9. ASSUME kind = "barracks" PROVE KeepsDue
  <2>1. DueDone(book, queue, done, now)
    BY <1>3, <1>4, <1>9
  <2>2. \A o \in DOMAIN book : After(book, done.units, done.queue)[o].fate = "built"
                                 => book'[o].given = book[o].size
    BY <1>5, <1>6, KeptIs
  <2> QED
    BY <2>1, <2>2, DueIsKept
<1> QED
  BY <1>2, <1>5, <1>7, <1>8, <1>9 DEF Turns

(* A new order keeps the queue right. *)
LEMMA EnqueueTurns ==
    ASSUME Inv, NEW amount \in Amounts, Enqueue(amount)
    PROVE  Turns /\ stock' \in Nat /\ UNCHANGED <<kind, now, level, boosted>>
<1> DEFINE before == BeforeMutation
           id == Len(book) + 1
           job == [id |-> id, amount |-> amount, start |-> now,
                   finish |-> now + Duration(amount, level)]
<1>1. /\ id <= MaxOrders /\ Affordable(amount) /\ stock' = stock - Paid(amount)
      /\ queue' = RescheduledAfter(Append(before.queue, job), level, now)
      /\ book' = Append(Delivered(before), NewEntry(amount))
      /\ UNCHANGED <<kind, now, level, boosted>>
  BY DEF Enqueue, NewEntry
<1> HIDE DEF before
<1>2. KeptBy(book, queue, before, now) /\ (kind = "barracks" => DueDone(book, queue, before, now))
  BY BeforeIs DEF before
<1>3. PICK b \in Seq(Entry) : b = Delivered(before)
  BY <1>2, KeptIs
<1>4. PICK q \in Seq(Job) : q = before.queue
  BY <1>2, KeptIs
<1>5. Accounted(b, q) /\ Len(b) = Len(book) /\ Len(book) \in Nat
  <2>1. Len(book) \in Nat
    BY InvFacts
  <2> QED
    BY <1>2, <1>3, <1>4, <2>1, KeptIs
<1>6. amount \in Nat \ {0}
  BY UnitAssumption
<1>7. job \in Job /\ job.id = Len(b) + 1 /\ job.amount = amount
  <2>1. Duration(amount, level) \in Nat
    BY <1>6, InvFacts, DurationType
  <2>2. now + Duration(amount, level) \in Int /\ now \in Int
    BY <2>1, InvFacts
  <2>3. id \in 1..MaxOrders
    BY <1>1, <1>5, UnitAssumption
  <2> QED
    BY <1>5, <1>6, <2>2, <2>3 DEF Job
<1> HIDE DEF job
<1>8. PICK r \in Seq(Job) : r = Append(q, job)
  BY <1>7, AppendIs
<1>9. Append(b, NewEntry(amount)) \in Seq(Entry) /\ Accounted(Append(b, NewEntry(amount)), r)
  BY <1>5, <1>7, <1>8, AppendKeeps
<1>10. PICK z \in Seq(Job) : z = RescheduledAfter(r, level, now)
  BY InvFacts, RescheduledIs
<1>11. SameOrders(z, r) /\ (kind # "barracks" => Busy(z, now))
  BY <1>10, InvFacts, RescheduledIs
<1>12. Accounted(Append(b, NewEntry(amount)), z)
  BY <1>9, <1>11, SameKeeps
<1>13. book' = Append(b, NewEntry(amount)) /\ queue' = z
  BY <1>1, <1>3, <1>4, <1>8, <1>10
<1>14. ASSUME kind = "barracks" PROVE KeepsDue
  <2>1. DueDone(book, queue, before, now)
    BY <1>2, <1>14
  <2>2. \A o \in DOMAIN book : b[o].fate = "built" => b[o].given = book[o].size
    BY <1>2, <1>3, KeptIs
  <2>3. b = After(book, before.units, before.queue)
    BY <1>2, <1>3, KeptIs
  <2>4. \A o \in DOMAIN book : book'[o] = b[o]
    <3>1. DOMAIN book = 1..Len(b)
      BY <1>5, InvFacts
    <3>2. NewEntry(amount) \in Entry
      BY <1>6 DEF NewEntry, Entry
    <3>3. \A o \in 1..Len(b) : Append(b, NewEntry(amount))[o] = b[o]
      BY <3>2, AppendIs
    <3> QED
      BY <1>13, <3>1, <3>3
  <2> QED
    BY <2>1, <2>2, <2>3, <2>4, DueIsKept
<1>15. stock' \in Nat
  <2>1. stock \in Nat /\ Paid(amount) \in Nat
    BY <1>6 DEF Inv, TypeOK, Paid
  <2>2. Paid(amount) <= stock
    BY <1>1 DEF Affordable
  <2> QED
    BY <1>1, <2>1, <2>2
<1>16. kind = "yard" => Busy(z, now)
  BY <1>11
<1> QED
  BY <1>1, <1>9, <1>12, <1>13, <1>14, <1>15, <1>16 DEF Turns

(* What is given back is a number of resources; of the first order of the    *)
(* barracks it is half.                                                      *)
LEMMA ShareIs ==
    ASSUME NEW q, NEW i
    PROVE  /\ Share(q, i) \in {0, 1, 2}
           /\ (kind = "barracks" /\ i = 1 => Share(q, i) = 1)
  BY DEF Share

(* A cancelled order leaves the queue right. *)
LEMMA CancelTurns ==
    ASSUME Inv, NEW id \in DOMAIN book, Cancel(id)
    PROVE  Turns /\ stock' \in Nat /\ UNCHANGED <<kind, now, level, boosted>>
<1> DEFINE before == BeforeMutation
<1>1. KeptBy(book, queue, before, now) /\ (kind = "barracks" => DueDone(book, queue, before, now))
  BY BeforeIs
<1>2. \E i \in DOMAIN before.queue :
        LET back == book[id].size * Share(before.queue, i) IN
        /\ before.queue[i].id = id
        /\ stock' = stock + back
        /\ queue' = RescheduledAfter(RemoveAt(before.queue, i), level, now)
        /\ book' = [Delivered(before) EXCEPT ![id].back = back, ![id].fate = "cancelled"]
        /\ UNCHANGED <<kind, now, level, boosted>>
  BY DEF Cancel
<1> HIDE DEF before
<1>3. PICK b \in Seq(Entry) : b = Delivered(before)
  BY <1>1, KeptIs
<1>4. PICK q \in Seq(Job) : q = before.queue
  BY <1>1, KeptIs
<1>5. /\ Accounted(b, q) /\ DOMAIN b = DOMAIN book
      /\ \A o \in DOMAIN book : b[o].size = book[o].size
                                /\ (b[o].fate = "built" => b[o].given = book[o].size)
  BY <1>1, <1>3, <1>4, KeptIs
<1>6. PICK i \in 1..Len(q) :
        /\ q[i].id = id
        /\ stock' = stock + book[id].size * Share(q, i)
        /\ queue' = RescheduledAfter(RemoveAt(q, i), level, now)
        /\ book' = Closed(b, id, book[id].size * Share(q, i))
        /\ UNCHANGED <<kind, now, level, boosted>>
  <2>1. PICK i \in DOMAIN before.queue :
          /\ before.queue[i].id = id
          /\ stock' = stock + book[id].size * Share(before.queue, i)
          /\ queue' = RescheduledAfter(RemoveAt(before.queue, i), level, now)
          /\ book' = [Delivered(before) EXCEPT ![id].back = book[id].size * Share(before.queue, i),
                                               ![id].fate = "cancelled"]
          /\ UNCHANGED <<kind, now, level, boosted>>
    BY <1>2
  <2>2. i \in 1..Len(q)
    BY <1>4
  <2>3. book' = Closed(Delivered(before), id, book[id].size * Share(before.queue, i))
    BY ONLY <2>1 DEF Closed
  <2>4. book' = Closed(b, id, book[id].size * Share(q, i))
    BY ONLY <2>3, <1>3, <1>4
  <2> QED
    BY ONLY <2>1, <2>2, <2>4, <1>4
<1>7. b[id].size \in Nat /\ b[id].size > 0 /\ b[id].size = book[id].size
  <2>1. BackTells(b) /\ id \in DOMAIN b
    BY <1>5 DEF Accounted
  <2> QED
    BY <1>5, <2>1, EntryFields DEF BackTells
<1>8. PICK back \in Nat : /\ back = book[id].size * Share(q, i)
                          /\ (kind = "barracks" /\ i = 1 => back # 2 * b[id].size)
  <2>1. PICK s \in {0, 1, 2} : s = Share(q, i) /\ (kind = "barracks" /\ i = 1 => s = 1)
    BY ShareIs
  <2>2. PICK n \in Nat : n = b[id].size /\ n > 0
    BY <1>7
  <2>3. n * s \in Nat /\ (s = 1 => n * s # 2 * n)
    BY <2>1, <2>2
  <2> QED
    BY <1>7, <2>1, <2>2, <2>3
<1>9. PICK r \in Seq(Job) : r = RemoveAt(q, i)
  BY RemoveAtIs
<1>10. Accounted(Closed(b, id, back), r)
  BY <1>5, <1>6, <1>8, <1>9, RemoveKeeps
<1>11. PICK z \in Seq(Job) : z = RescheduledAfter(r, level, now)
  BY InvFacts, RescheduledIs
<1>12. SameOrders(z, r) /\ (kind # "barracks" => Busy(z, now))
  BY <1>11, InvFacts, RescheduledIs
<1>13. PICK c \in Seq(Entry) : c = Closed(b, id, back) /\ \A o \in DOMAIN b : c[o].given = b[o].given
  <2>1. id \in DOMAIN b
    BY <1>5
  <2>2. /\ Closed(b, id, back) \in Seq(Entry)
        /\ Closed(b, id, back)[id].given = b[id].given
        /\ \A o \in DOMAIN b : o # id => Closed(b, id, back)[o] = b[o]
    BY <2>1, ClosedIs
  <2>3. \A o \in DOMAIN b : Closed(b, id, back)[o].given = b[o].given
    BY ONLY <2>2
  <2> QED
    BY ONLY <2>2, <2>3
<1>14. Accounted(c, z)
  BY <1>10, <1>12, <1>13, SameKeeps
<1>15. book' = c /\ queue' = z /\ stock' = stock + back /\ UNCHANGED <<kind, now, level, boosted>>
  BY <1>6, <1>8, <1>9, <1>11, <1>13
<1>16. ASSUME kind = "barracks" PROVE KeepsDue
  <2>1. DueDone(book, queue, before, now)
    BY <1>1, <1>16
  <2>2. b = After(book, before.units, before.queue)
    BY <1>1, <1>3, KeptIs
  <2>3. \A o \in DOMAIN book : b[o].fate = "built" => book'[o].given = book[o].size
    BY <1>5, <1>13, <1>15
  <2> QED
    BY <2>1, <2>2, <2>3, DueIsKept
<1>17. stock' \in Nat
  <2>1. stock \in Nat
    BY DEF Inv, TypeOK
  <2> QED
    BY <1>15, <2>1
<1>18. kind = "yard" => Busy(z, now)
  BY <1>12
<1> QED
  BY <1>14, <1>15, <1>16, <1>17, <1>18 DEF Turns

(* Two ships that change places leave the queue right. *)
LEMMA MoveTurns ==
    ASSUME Inv, NEW i \in DOMAIN queue, Move(i)
    PROVE  Turns /\ UNCHANGED <<kind, now, level, stock, boosted>>
<1>1. kind = "yard" /\ i + 1 \in DOMAIN queue
      /\ queue' = Recalculate([queue EXCEPT ![i] = queue[i + 1], ![i + 1] = queue[i]], level, now)
      /\ UNCHANGED <<kind, now, level, book, stock, boosted>>
  BY DEF Move
<1>2. PICK q \in Seq(Job) : q = queue /\ i \in 1..Len(q) /\ i + 1 \in 1..Len(q)
  BY <1>1, InvFacts
<1> DEFINE s == [q EXCEPT ![i] = q[i + 1], ![i + 1] = q[i]]
<1>3. PICK b \in Seq(Entry) : b = book /\ Accounted(b, q)
  BY <1>2, InvFacts
<1>4. s \in Seq(Job) /\ Accounted(b, s)
  BY <1>1, <1>2, <1>3, SwapKeeps
<1>5. queue' = Recalculate(s, level, now)
  BY <1>1, <1>2
<1> HIDE DEF s
<1>6. PICK z \in Seq(Job) : z = RescheduledAfter(s, level, now)
  BY <1>4, InvFacts, RescheduledIs
<1>7. SameOrders(z, s) /\ (kind # "barracks" => Busy(z, now))
  BY <1>4, <1>6, InvFacts, RescheduledIs
<1>8. queue' = z
  BY <1>1, <1>5, <1>6 DEF RescheduledAfter
<1>9. Accounted(b, z)
  BY <1>4, <1>7, SameKeeps
<1> QED
  BY <1>1, <1>3, <1>7, <1>8, <1>9 DEF Turns

\* The two passes of the Timekeeper and the shift between them, as they are
\* told by the queue and the book.
BoostsBy(shift) ==
    LET before == Finish(queue, level, now)
        done == Finish(Shifted(Sync(before.queue, level, now), shift), level, now)
    IN  /\ boosted' = boosted + shift /\ UNCHANGED <<kind, now, level>>
        /\ queue' = Sync(done.queue, level, now)
        /\ book' = After(Delivered(before), done.units, done.queue)

(* The Timekeeper leaves the queue right. *)
LEMMA BoostTurns ==
    ASSUME Inv, NEW b \in Boosts, Boost(b)
    PROVE  /\ Turns /\ boosted' \in Nat /\ UNCHANGED <<kind, now, level, stock>>
           /\ \E shift \in Nat : BoostsBy(shift)
<1> DEFINE before == Finish(queue, level, now)
           p == Sync(before.queue, level, now)
           shift == Min({b, p[1].finish - now})
           done == Finish(Shifted(p, shift), level, now)
           both == [done EXCEPT !.units = [o \in DOMAIN book |-> @[o] + before.units[o]]]
<1>1. /\ p # <<>> /\ shift > 0
      /\ boosted' = boosted + shift
      /\ queue' = Sync(done.queue, level, now)
      /\ book' = Delivered(both)
      /\ UNCHANGED <<kind, now, level, stock>>
  BY DEF Boost
<1>2. DOMAIN done = {"queue", "units"}
  BY DEF Finish, FinishFrom, DeliverAfter, DeliverFirst, Deliver
<1> HIDE DEF done
<1>3. both.queue = done.queue /\ both.units = [o \in DOMAIN book |-> done.units[o] + before.units[o]]
  BY <1>2
<1> HIDE DEF both
<1>4. now \in Int /\ level \in Levels /\ book \in Seq(Entry) /\ queue \in Seq(Job)
  BY InvFacts
<1>5. KeptBy(book, queue, before, now) /\ DueDone(book, queue, before, now)
  BY InvFacts, FinishKeeps
<1> HIDE DEF before
<1>6. PICK a \in Seq(Entry) : a = Delivered(before)
  BY <1>5, KeptIs
<1>7. PICK r \in Seq(Job) : r = before.queue
  BY <1>5, KeptIs
<1>8. PICK u \in [DOMAIN book -> Nat] : u = before.units
  BY <1>5 DEF KeptBy
<1>9. a = After(book, u, r) /\ DOMAIN a = DOMAIN book /\ Accounted(a, r) /\ (kind = "yard" => Busy(r, now))
  BY <1>5, <1>6, <1>7, <1>8, KeptIs
<1>10. p \in Seq(Job) /\ SameOrders(p, r) /\ p = Sync(r, level, now)
  BY <1>4, <1>7, SyncIs
<1>11. Accounted(a, p)
  BY <1>9, <1>10, SameKeeps
<1>12. kind = "yard" => Busy(p, now)
  BY <1>4, <1>9, <1>10, SyncBusy
<1>13. shift \in Nat
  <2>1. 1 \in 1..Len(p)
    BY <1>1, <1>10
  <2>2. p[1].finish \in Int
    BY <1>10, <2>1, JobFields
  <2>3. b \in Nat
    BY UnitAssumption
  <2>4. p[1].finish - now \in Int
    BY <1>4, <2>2
  <2>5. PICK x \in Int : x = p[1].finish - now
    BY <2>4
  <2>6. PICK c \in Int : c = b
    BY <2>3
  <2>7. Smaller(c, x) \in Int
    BY MinTwo
  <2>8. shift = Smaller(c, x)
    BY ONLY <2>5, <2>6 DEF Smaller, shift
  <2>9. shift \in Int
    BY ONLY <2>7, <2>8
  <2> QED
    BY ONLY <1>1, <2>9
<1>14. done = Finish(Shifted(p, shift), level, now)
  BY DEF done
<1> HIDE DEF shift, p
<1>15. PICK s \in Seq(Job) : s = Shifted(p, shift)
  BY <1>10, <1>13, ShiftedIs
<1>16. SameOrders(s, p) /\ (Busy(p, now) => Busy(s, now))
  BY <1>4, <1>10, <1>13, <1>15, ShiftedIs
<1>17. Accounted(a, s)
  BY <1>10, <1>11, <1>16, SameKeeps
<1>18. KeptBy(a, s, done, now)
  BY <1>4, <1>9, <1>14, <1>15, <1>17, FinishKeeps
<1>19. PICK z \in Seq(Job) : z = done.queue
  BY <1>18 DEF KeptBy
<1>20. PICK v \in [DOMAIN book -> Nat] : v = done.units
  BY <1>9, <1>18 DEF KeptBy
<1>21. Accounted(After(a, v, z), z) /\ (kind = "yard" => Busy(z, now))
  BY <1>12, <1>16, <1>18, <1>19, <1>20 DEF KeptBy
<1>22. PICK w \in [DOMAIN book -> Nat] : w = both.units /\ Adds(w, v, u, DOMAIN book)
  <2>1. both.units = [o \in DOMAIN book |-> v[o] + u[o]]
    BY <1>3, <1>8, <1>20
  <2>2. both.units \in [DOMAIN book -> Nat]
    BY <2>1
  <2> QED
    BY <2>1, <2>2 DEF Adds
<1>23. RowsTell(After(After(book, u, r), v, z), z)
  BY <1>9, <1>21 DEF Accounted
<1>24. After(a, v, z) = After(book, w, z)
  <2>1. PICK k \in Seq(Entry) : k = book
    BY <1>4
  <2>2. /\ u \in [DOMAIN k -> Nat] /\ v \in [DOMAIN k -> Nat] /\ w \in [DOMAIN k -> Nat]
        /\ Adds(w, v, u, DOMAIN k) /\ RowsTell(After(After(k, u, r), v, z), z)
    BY <1>22, <1>23, <2>1
  <2>3. r \in Seq(Job) /\ z \in Seq(Job)
    BY <1>7, <1>19
  <2>4. TwoPasses(k, u, v, w, r, z)
    BY <2>2, <2>3 DEF TwoPasses
  <2>5. After(After(k, u, r), v, z) = After(k, w, z)
    BY ONLY <2>4, AfterTwice
  <2> QED
    BY ONLY <2>1, <2>5, <1>9
<1>25. Delivered(both) = After(book, w, z)
  BY <1>3, <1>19, <1>22 DEF Delivered, After
<1>26. v \in [DOMAIN a -> Nat]
  BY <1>9
<1>27. PICK c \in Seq(Entry) : c = After(a, v, z) /\ DOMAIN c = DOMAIN book
  <2>1. After(a, v, z) \in Seq(Entry) /\ DOMAIN After(a, v, z) = DOMAIN a
    BY <1>26, AfterType
  <2> QED
    BY <1>9, <2>1
<1>28. PICK x \in Seq(Job) : x = Sync(z, level, now)
  BY <1>4, SyncIs
<1>29. SameOrders(x, z) /\ (Busy(z, now) => Busy(x, now))
  BY <1>4, <1>28, SyncIs, SyncBusy
<1>30. Accounted(c, x)
  BY <1>21, <1>27, <1>29, SameKeeps
<1>31. book' = c /\ queue' = x
  BY <1>1, <1>19, <1>24, <1>25, <1>27, <1>28
<1>32. ASSUME NEW o \in DOMAIN book, a[o].fate = "built" PROVE c[o].given = book[o].size
  <2>1. c[o].fate = "built" /\ c[o].size = a[o].size
    <3>1. o \in DOMAIN a
      BY <1>9, <1>32
    <3>2. /\ After(a, v, z)[o].size = a[o].size
          /\ After(a, v, z)[o].fate =
                IF a[o].fate = "open" /\ o \notin Ids(z) THEN "built" ELSE a[o].fate
      BY ONLY a \in Seq(Entry), <1>26, <3>1, AfterEntry, ZenonT(30)
    <3> QED
      BY ONLY <1>27, <1>32, <3>2
  <2>2. c[o].given = c[o].size
    BY <1>21, <1>27, <2>1 DEF Accounted, RowsTell
  <2>3. a[o].size = book[o].size
    BY <1>5, <1>6, KeptIs
  <2> QED
    BY <2>1, <2>2, <2>3
<1>33. KeepsDue
  <2>1. \A o \in DOMAIN book : After(book, before.units, before.queue)[o].fate = "built"
                                 => book'[o].given = book[o].size
    BY <1>7, <1>8, <1>9, <1>31, <1>32
  <2> QED
    BY <1>5, <2>1, DueIsKept
<1>34. boosted' \in Nat
  <2>1. boosted \in Nat
    BY DEF Inv, TypeOK
  <2> QED
    BY <1>1, <1>13, <2>1
<1>35. BoostsBy(shift)
  <2>1. book' = After(Delivered(before), done.units, done.queue)
    BY ONLY <1>6, <1>19, <1>20, <1>27, <1>31
  <2>2. done = Finish(Shifted(Sync(before.queue, level, now), shift), level, now)
    BY ONLY <1>7, <1>10, <1>14
  <2> QED
    BY ONLY <1>1, <2>1, <2>2 DEF BoostsBy, before
<1> QED
  BY <1>1, <1>13, <1>21, <1>29, <1>30, <1>31, <1>33, <1>34, <1>35 DEF Turns

-----------------------------------------------------------------------------
(* The invariant. *)

(* An empty queue is right. *)
LEMMA InitInv ==
    ASSUME Init
    PROVE  Inv
<1>0. queue = <<>> /\ book = <<>>
  BY DEF Init
<1>1. PICK q \in Seq(Job) : q = queue /\ q = <<>> /\ Len(q) = 0
  <2>1. <<>> \in Seq(Job) /\ Len(<<>>) = 0
    OBVIOUS
  <2> QED
    BY <1>0, <2>1
<1>2. PICK b \in Seq(Entry) : b = book /\ b = <<>> /\ DOMAIN b = {}
  <2>1. <<>> \in Seq(Entry) /\ DOMAIN <<>> = {}
    OBVIOUS
  <2> QED
    BY <1>0, <2>1
<1>3. Accounted(b, q)
  BY <1>1, <1>2 DEF Accounted, RowsTell, BackTells, FirstOnly, WholeOnlyFresh, Distinct
<1>4. Busy(q, now)
  BY <1>1 DEF Busy, Seamless
<1>5. TypeOK
  <2>1. kind \in Kinds /\ now = 0 /\ level = 1 /\ stock = InitialStock /\ boosted = 0
    BY DEF Init
  <2>2. now \in 0..Horizon /\ level \in 1..MaxLevel /\ {stock, boosted} \subseteq Nat
    BY <2>1, UnitAssumption
  <2> QED
    BY <1>1, <1>2, <2>1, <2>2 DEF TypeOK, Entry
<1> QED
  BY <1>1, <1>2, <1>3, <1>4, <1>5 DEF Inv

(* What an operation leaves is right. *)
LEMMA TurnsKeep ==
    ASSUME Inv, Turns, kind' = kind, now' = now, level' \in 1..MaxLevel,
           stock' \in Nat, boosted' \in Nat
    PROVE  Inv'
<1>1. TypeOK'
  <2>1. kind \in Kinds /\ now \in 0..Horizon
    BY DEF Inv, TypeOK
  <2>2. queue' \in Seq(Job) /\ book' \in Seq(Entry)
    BY DEF Turns
  <2> QED
    BY <2>1, <2>2 DEF TypeOK, Entry
<1>2. Accounted(book, queue)'
  <2>1. Accounted(book', queue')
    BY DEF Turns
  <2> QED
    BY <2>1 DEF Accounted
<1>3. (kind = "yard" => Busy(queue, now))'
  <2>1. kind = "yard" => Busy(queue', now)
    BY DEF Turns
  <2> QED
    BY <2>1
<1> QED
  BY <1>1, <1>2, <1>3 DEF Inv

(* Time alone changes nothing of it. *)
LEMMA TickKeeps ==
    ASSUME Inv, Tick \/ UNCHANGED vars
    PROVE  Inv' /\ KeepsDue
<1>1. /\ UNCHANGED <<kind, level, queue, book, stock, boosted>>
      /\ now' \in 0..Horizon /\ now <= now' /\ now \in Int /\ now' \in Int
  <2>1. now \in 0..Horizon /\ Horizon \in Nat
    BY UnitAssumption DEF Inv, TypeOK
  <2>2. CASE Tick
    BY <2>1, <2>2 DEF Tick
  <2>3. CASE UNCHANGED vars
    BY <2>1, <2>3 DEF vars
  <2> QED
    BY <2>2, <2>3
<1>2. TypeOK'
  BY <1>1 DEF Inv, TypeOK
<1>3. Accounted(book, queue)'
  BY <1>1 DEF Inv, Accounted
<1>4. PICK q \in Seq(Job) : q = queue
  BY InvFacts
<1>5. (kind = "yard" => Busy(queue, now))'
  <2>1. ASSUME kind = "yard" PROVE Busy(q, now')
    <3>1. Busy(q, now)
      BY <2>1, <1>4, InvFacts
    <3>2. q # <<>> => q[1].start \in Int
      BY JobFields
    <3> QED
      BY <1>1, <3>1, <3>2 DEF Busy
  <2> QED
    BY <1>1, <1>4, <2>1
<1>6. KeepsDue
  BY <1>1 DEF KeepsDue
<1> QED
  BY <1>2, <1>3, <1>5, <1>6 DEF Inv

(* Every step keeps it, and delivers troops that are due. *)
LEMMA StepKeeps ==
    ASSUME Inv, [Next]_vars
    PROVE  Inv' /\ (kind = "barracks" => KeepsDue)
<1>1. /\ level \in 1..MaxLevel /\ stock \in Nat /\ boosted \in Nat
  BY DEF Inv, TypeOK
<1>2. CASE Tick \/ UNCHANGED vars
  BY <1>2, TickKeeps
<1>3. CASE Page
  <2>1. Turns /\ level' \in 1..MaxLevel /\ UNCHANGED <<kind, now, stock, boosted>>
    BY <1>3, PageTurns
  <2> QED
    BY <1>1, <2>1, TurnsKeep DEF Turns
<1>4. ASSUME NEW amount \in Amounts, Enqueue(amount)
      PROVE  Inv' /\ (kind = "barracks" => KeepsDue)
  <2>1. Turns /\ stock' \in Nat /\ UNCHANGED <<kind, now, level, boosted>>
    BY <1>4, EnqueueTurns
  <2> QED
    BY <1>1, <2>1, TurnsKeep DEF Turns
<1>5. ASSUME NEW id \in DOMAIN book, Cancel(id)
      PROVE  Inv' /\ (kind = "barracks" => KeepsDue)
  <2>1. Turns /\ stock' \in Nat /\ UNCHANGED <<kind, now, level, boosted>>
    BY <1>5, CancelTurns
  <2> QED
    BY <1>1, <2>1, TurnsKeep DEF Turns
<1>6. ASSUME NEW i \in DOMAIN queue, Move(i)
      PROVE  Inv' /\ (kind = "barracks" => KeepsDue)
  <2>1. Turns /\ UNCHANGED <<kind, now, level, stock, boosted>>
    BY <1>6, MoveTurns
  <2> QED
    BY <1>1, <2>1, TurnsKeep DEF Turns
<1>7. ASSUME NEW b \in Boosts, Boost(b)
      PROVE  Inv' /\ (kind = "barracks" => KeepsDue)
  <2>1. Turns /\ boosted' \in Nat /\ UNCHANGED <<kind, now, level, stock>>
    BY <1>7, BoostTurns
  <2> QED
    BY <1>1, <2>1, TurnsKeep DEF Turns
<1> QED
  BY <1>2, <1>3, <1>4, <1>5, <1>6, <1>7 DEF Next

(* So it holds always. *)
LEMMA AlwaysInv == Spec => []Inv
<1>1. Init => Inv
  BY InitInv
<1>2. Inv /\ [Next]_vars => Inv'
  BY StepKeeps
<1> QED
  BY <1>1, <1>2, PTL DEF Spec

(* Every variable has its type in every state that can be reached; in        *)
(* particular a planet never owes resources for ships or troops.             *)
THEOREM TypeCorrect == Spec => []TypeOK
<1>1. Inv => TypeOK
  BY DEF Inv
<1> QED
  BY <1>1, AlwaysInv, PTL

(* On SQLite, however an order is split into batches, moved and rescheduled: *)
(* what it has delivered and what its row still asks for are what was paid,  *)
(* and an order that is over without being cancelled delivered all of it.    *)
THEOREM SqliteOrdersDeliverInFull == Spec => []UnitsAccounted
<1>1. ASSUME Inv PROVE UnitsAccounted
  <2>1. PICK q \in Seq(Job) : q = queue
    BY <1>1, InvFacts
  <2>2. PICK b \in Seq(Entry) : b = book
    BY <1>1, InvFacts
  <2>3. RowsTell(b, q)
    BY <1>1, <2>1, <2>2, InvFacts
  <2>4. ASSUME NEW o \in DOMAIN b
        PROVE  LET open == {i \in DOMAIN q : q[i].id = o} IN
               CASE b[o].fate = "open" ->
                       \E i \in open : open = {i} /\ b[o].given + q[i].amount = b[o].size
                 [] b[o].fate = "built" -> open = {} /\ b[o].given = b[o].size
                 [] OTHER -> open = {} /\ b[o].given <= b[o].size
    <3> DEFINE open == {i \in DOMAIN q : q[i].id = o}
    <3>1. CASE b[o].fate = "open"
      <4>1. PICK i \in 1..Len(q) : q[i].id = o
        BY <2>3, <3>1 DEF RowsTell
      <4>2. \A j \in 1..Len(q) : q[j].id = o => j = i
        BY <2>3, <4>1 DEF RowsTell, Distinct
      <4>3. i \in open /\ open = {i}
        BY <4>1, <4>2
      <4>4. b[o].given + q[i].amount = b[o].size
        BY <2>3, <4>1 DEF RowsTell
      <4> HIDE DEF open
      <4>5. \E k \in open : open = {k} /\ b[o].given + q[k].amount = b[o].size
        BY ONLY <4>3, <4>4
      <4> QED
        BY ONLY <3>1, <4>5 DEF open
    <3>2. CASE b[o].fate # "open"
      <4>1. \A i \in 1..Len(q) : q[i].id # o
        BY <2>3, <3>2 DEF RowsTell
      <4>2. open = {}
        BY <4>1
      <4>3. b[o].given <= b[o].size /\ (b[o].fate = "built" => b[o].given = b[o].size)
        BY <2>3 DEF RowsTell
      <4> HIDE DEF open
      <4> QED
        BY ONLY <3>2, <4>2, <4>3 DEF open
    <3> QED
      BY <3>1, <3>2
  <2> QED
    BY ONLY <2>1, <2>2, <2>4 DEF UnitsAccounted
<1> QED
  BY <1>1, AlwaysInv, PTL

(* On SQLite the yard is never idle while units are ordered: its first       *)
(* order has begun, and each of the others begins when the one before ends.  *)
THEOREM SqliteYardNeverIdle == Spec => []NoGaps
<1>1. ASSUME Inv PROVE NoGaps
  <2>1. PICK q \in Seq(Job) : q = queue
    BY <1>1, InvFacts
  <2>2. ASSUME kind = "yard", NEW i \in DOMAIN q
        PROVE  IF i = 1 THEN q[1].start <= now ELSE q[i].start = q[i - 1].finish
    <3>1. Busy(q, now)
      BY <1>1, <2>1, <2>2, InvFacts
    <3>2. i \in 1..Len(q) /\ q # <<>>
      BY <2>2
    <3> QED
      BY <3>1, <3>2 DEF Busy, Seamless
  <2> QED
    BY ONLY <2>1, <2>2 DEF NoGaps
<1> QED
  BY <1>1, AlwaysInv, PTL

(* On SQLite troops delivered are not paid back: an order of the barracks    *)
(* whose whole price came back had delivered none.                           *)
THEOREM SqliteNoPaidBackTroops == Spec => []WholeRefundUnstarted
<1>1. ASSUME Inv PROVE WholeRefundUnstarted
  BY <1>1 DEF Inv, Accounted, WholeOnlyFresh, WholeRefundUnstarted
<1> QED
  BY <1>1, AlwaysInv, PTL

(* On SQLite an order of the barracks that is due is delivered by the next   *)
(* request whatever it is: a page, an order, a cancellation or a boost.      *)
THEOREM SqliteDueTroopsDelivered == Spec => TroopsKeepDue
<1>1. Inv /\ [Next]_vars => [kind = "barracks" => KeepsDue]_vars
  BY StepKeeps
<1> QED
  BY <1>1, AlwaysInv, PTL DEF Spec, TroopsKeepDue

-----------------------------------------------------------------------------
(* Pace. *)

\* What an order has had since its row began, and what is inferred of it: s
\* units count for the time since the start of h. Either none, and the row
\* has the time it takes; or what is left is the last batch of those that
\* the row is scheduled for.
Since(s, h, l) ==
    /\ s = 0 => h.start + Duration(h.amount, l) <= h.finish
    /\ s > 0 => h.amount <= l /\ s <= (Batches(h) - 1) * l

\* All that was delivered, G, had the time up to the start of h, and since.
HeadPace(h, l, x, G) ==
    \E s \in Nat : /\ 0 <= h.start + x
                   /\ G * Unit <= (h.start + x) * l + s * Unit
                   /\ Since(s, h, l)

\* All that was delivered had the time until t, of which x was bought.
Enough(l, t, x, G) == G \in Int /\ 0 <= t + x /\ G * Unit <= (t + x) * l

Pace(q, l, t, x, G) ==
    /\ Enough(l, t, x, G)
    /\ Follows(q, l)
    /\ q # <<>> => HeadPace(q[1], l, x, G)

(* Units that fit in k batches have the time of k batches. *)
LEMMA BatchesHaveTime ==
    ASSUME NEW G \in Int, NEW a \in Nat, NEW s \in Nat, NEW k \in Nat, NEW l \in Nat,
           NEW y \in Int, NEW e \in Int,
           G * Unit <= y * l + s * Unit, s + a <= k * l, k * Unit <= e - y
    PROVE  (G + a) * Unit <= e * l
<1>1. PICK u \in Nat : u = Unit
  BY UnitAssumption
<1>2. (s + a) * u <= (k * l) * u
  BY Scales
<1>3. (k * u) * l <= (e - y) * l
  BY <1>1, Scales
<1>4. (k * l) * u = (k * u) * l /\ (e - y) * l = e * l - y * l /\ (s + a) * u = s * u + a * u
      /\ (G + a) * u = G * u + a * u
  OBVIOUS
<1>5. G * u <= y * l + s * u
  BY <1>1
<1>6. PICK gu \in Int, au \in Int, su \in Int, el \in Int, yl \in Int, klu \in Int :
        gu = G * u /\ au = a * u /\ su = s * u /\ el = e * l /\ yl = y * l /\ klu = (k * l) * u
  OBVIOUS
<1>7. gu + au <= el
  BY ONLY <1>2, <1>3, <1>4, <1>5, <1>6
<1> QED
  BY ONLY <1>1, <1>4, <1>6, <1>7

(* More time, more capacity: what fitted fits. *)
LEMMA MoreTime ==
    ASSUME NEW G \in Int, NEW y \in Int, NEW e \in Int, y <= e, NEW l \in Nat, NEW r \in Int,
           G * Unit <= y * l + r
    PROVE  G * Unit <= e * l + r
<1>1. PICK gu \in Int : gu = G * Unit
  BY UnitAssumption
<1>2. PICK yl \in Int, el \in Int : yl = y * l /\ el = e * l /\ yl <= el
  BY Scales
<1> QED
  BY <1>1, <1>2

(* At a higher level, what fitted fits. *)
LEMMA MoreCapacity ==
    ASSUME NEW G \in Int, NEW y \in Nat, NEW l \in Nat, NEW r \in Int, G * Unit <= y * l + r
    PROVE  G * Unit <= y * (l + 1) + r
<1>1. PICK gu \in Int : gu = G * Unit
  BY UnitAssumption
<1>2. PICK yl \in Int : yl = y * l
  OBVIOUS
<1>3. y * (l + 1) = yl + y
  BY <1>2
<1> QED
  BY <1>1, <1>2, <1>3

(* The batches of a row, as far as they matter, have their time in it. *)
LEMMA BatchesFit ==
    ASSUME NEW job \in Job, Batches(job) > 1
    PROVE  Batches(job) * Unit <= job.finish - job.start
<1>1. PICK u \in Nat \ {0} : u = Unit
  BY UnitAssumption
<1>2. PICK d \in Int : d = job.finish - job.start
  BY JobFields
<1>3. PICK z \in Int : z = Scheduled(job) /\ z >= 1 /\ (d >= 1 => z = d)
  BY <1>2, ScheduledType
<1>4. PICK b \in Nat : b = Batches(job) /\ b > 1 /\ (z >= u => b * u <= z)
  BY <1>1, <1>3, BatchesType
<1>5. z >= u
  <2>1. PICK w \in Int : w = z \div u /\ w * u <= z
    BY <1>1, <1>3, Division
  <2>2. b = Larger(1, w)
    BY <1>1, <1>3, <1>4, <2>1 DEF Batches
  <2>3. PICK one \in Int : one = 1
    OBVIOUS
  <2>4. b = one \/ b = w
    BY <2>2, <2>3, MaxTwo
  <2>5. w > 1
    BY <1>4, <2>3, <2>4
  <2>6. 1 * u <= w * u
    BY <2>5, Scales
  <2> QED
    BY <1>1, <2>1, <2>6
<1>6. b * u <= z /\ b * u >= 2 * u
  <2>1. 2 * u <= b * u
    BY <1>4, Scales
  <2> QED
    BY <1>4, <1>5, <2>1
<1>7. d >= 1
  <2>1. Scheduled(job) = Larger(1, d)
    BY <1>2 DEF Scheduled, Larger
  <2>2. PICK one \in Int : one = 1
    OBVIOUS
  <2>3. z = one \/ z = d
    BY <1>3, <2>1, <2>2, MaxTwo
  <2>4. b * u \in Int /\ z > 1
    BY <1>6
  <2> QED
    BY <2>2, <2>3, <2>4
<1> QED
  BY <1>1, <1>2, <1>3, <1>4, <1>6, <1>7

(* A row that lasts k batches has as many. *)
LEMMA AtLeastBatches ==
    ASSUME NEW job \in Job, NEW k \in Nat, k * Unit <= job.finish - job.start
    PROVE  k <= Batches(job)
<1>1. PICK u \in Nat \ {0} : u = Unit
  BY UnitAssumption
<1>2. PICK d \in Int : d = job.finish - job.start
  BY JobFields
<1>3. PICK z \in Int : z = Scheduled(job) /\ z >= d
  BY <1>2, ScheduledType
<1>4. PICK b \in Nat : b = Batches(job) /\ b >= 1 /\ (z >= u => z < b * u + u)
  BY <1>1, <1>3, BatchesType
<1> SUFFICES ASSUME b + 1 <= k PROVE FALSE
  BY <1>4
<1>5. (b + 1) * u <= k * u
  BY Scales
<1>6. PICK bu \in Nat, ku \in Int : bu = b * u /\ ku = k * u
  OBVIOUS
<1>7. (b + 1) * u = bu + u
  BY <1>6
<1> QED
  BY <1>1, <1>2, <1>3, <1>4, <1>5, <1>6, <1>7

(* What counts for the time of a row and what is left of its order fit in    *)
(* batches that fit in the row.                                              *)
LEMMA RowHasTime ==
    ASSUME NEW h \in Job, NEW l \in Levels, NEW s \in Nat, Since(s, h, l)
    PROVE  \E k \in Nat : s + h.amount <= k * l /\ k * Unit <= h.finish - h.start
<1>1. PICK a \in Nat : a = h.amount /\ a > 0
  BY JobFields
<1>2. PICK f \in Int, g \in Int : f = h.finish /\ g = h.start
  BY JobFields
<1>3. CASE s = 0
  <2>1. PICK c \in Nat : c = CeilDiv(a, l) /\ Duration(a, l) = c * Unit
    <3>1. l \in Nat \ {0} /\ a \in Nat
      BY DEF Levels
    <3>2. CeilDiv(a, l) \in Int
      BY ONLY <3>1, CeilBounds
    <3>3. 0 <= CeilDiv(a, l)
      BY ONLY <3>1, CeilMonotone
    <3> QED
      BY <3>2, <3>3, DurationType
  <2>2. a <= c * l
    BY <2>1, CeilBounds DEF Levels
  <2>3. g + c * Unit <= f
    BY <1>1, <1>2, <1>3, <2>1 DEF Since
  <2>4. c * Unit \in Int
    BY UnitAssumption
  <2>5. c * Unit <= f - g /\ s + a <= c * l
    BY <1>2, <1>3, <2>2, <2>3, <2>4
  <2> QED
    BY <1>1, <1>2, <2>5
<1>4. CASE s > 0
  <2>1. PICK b \in Nat : b = Batches(h) /\ b >= 1
    BY BatchesType
  <2>2. a <= l /\ s <= (b - 1) * l
    BY <1>1, <1>4, <2>1 DEF Since
  <2>3. l \in Nat
    BY DEF Levels
  <2>4. b * l = (b - 1) * l + l /\ (b - 1) * l \in Int
    BY <2>3
  <2>5. s + a <= b * l
    BY <2>2, <2>3, <2>4
  <2>6. b > 1
    <3>1. b = 1 => (b - 1) * l = 0
      BY <2>3
    <3> QED
      BY <1>4, <2>1, <2>2, <3>1
  <2>7. b * Unit <= f - g
    BY <1>2, <2>1, <2>6, BatchesFit
  <2> QED
    BY <1>1, <1>2, <2>5, <2>7
<1> QED
  BY <1>3, <1>4

(* An order that is complete has had its time: until now, and until the end  *)
(* of its row.                                                               *)
LEMMA DoneInTime ==
    ASSUME NEW h \in Job, NEW l \in Levels, NEW t \in Int, NEW x \in Int, NEW G \in Int,
           HeadPace(h, l, x, G), ToDeliver(h, l, t) = h.amount
    PROVE  /\ Enough(l, t, x, G + h.amount)
           /\ Enough(l, h.finish, x, G + h.amount)
<1>1. PICK a \in Nat : a = h.amount /\ a > 0
  BY JobFields
<1>2. PICK y \in Int, f \in Int : y = h.start /\ f = h.finish
  BY JobFields
<1>3. PICK s \in Nat : /\ 0 <= y + x
                       /\ G * Unit <= (y + x) * l + s * Unit
                       /\ Since(s, h, l)
  BY <1>2 DEF HeadPace
<1>4. PICK k \in Nat : s + a <= k * l /\ k * Unit <= f - y
  BY <1>1, <1>2, <1>3, RowHasTime
<1>5. l \in Nat /\ y + x \in Int /\ f + x \in Int /\ t + x \in Int /\ k * Unit \in Nat
  BY UnitAssumption DEF Levels
<1>6. (f + x) - (y + x) = f - y /\ (t + x) - (y + x) = t - y
  OBVIOUS
<1>7. (G + a) * Unit <= (f + x) * l
  BY <1>3, <1>4, <1>5, <1>6, BatchesHaveTime
<1>8. y <= f
  BY <1>4, <1>5
<1>9. CASE t >= f
  <2>1. (f + x) * l <= (t + x) * l
    BY <1>5, <1>9, Scales
  <2>2. PICK m \in Int : m = (G + a) * Unit
    BY UnitAssumption
  <2>3. m <= (t + x) * l
    BY <1>5, <1>7, <2>1, <2>2
  <2> QED
    BY <1>1, <1>2, <1>3, <1>7, <1>8, <1>9, <2>2, <2>3 DEF Enough
<1>10. CASE t < f
  <2>1. PICK d \in Nat : d = ToDeliver(h, l, t) /\ d = a
    BY <1>1
  <2>2. PICK T \in Nat : T = Total(h, l) /\ T >= a
                         /\ (a <= l => T = (Batches(h) - 1) * l + a)
    BY <1>1, TotalType
  <2>3. \E n \in Nat \ {0} : n * Unit <= t - y /\ d + (T - a) <= n * l
    BY <1>1, <1>2, <1>10, <2>1, <2>2, DueType
  <2>4. PICK n \in Nat : n * Unit <= t - y /\ T <= n * l /\ n > 0
    BY <2>1, <2>3
  <2>5. s + a <= T
    <3>1. CASE s = 0
      BY <2>2, <3>1
    <3>2. CASE s > 0
      <4>1. a <= l /\ s <= (Batches(h) - 1) * l
        BY <1>1, <1>3, <3>2 DEF Since
      <4>2. (Batches(h) - 1) * l \in Int
        BY <1>5, BatchesType
      <4> QED
        BY <2>2, <4>1, <4>2
    <3> QED
      BY <3>1, <3>2
  <2>6. n * l \in Nat /\ n * Unit \in Nat
    BY <1>5, UnitAssumption
  <2>7. s + a <= n * l
    BY <2>2, <2>4, <2>5, <2>6
  <2>8. (G + a) * Unit <= (t + x) * l
    BY <1>3, <1>5, <1>6, <2>4, <2>7, BatchesHaveTime
  <2>9. 0 <= t + x
    BY <1>3, <2>4, <2>6
  <2> QED
    BY <1>1, <1>2, <1>3, <1>7, <1>8, <2>8, <2>9 DEF Enough
<1> QED
  BY <1>2, <1>9, <1>10

(* What was delivered when a row is the head has the time until its end.     *)
LEMMA HeadEnds ==
    ASSUME NEW h \in Job, NEW l \in Levels, NEW x \in Int, NEW G \in Int, HeadPace(h, l, x, G)
    PROVE  Enough(l, h.finish, x, G)
<1>1. PICK y \in Int, f \in Int : y = h.start /\ f = h.finish
  BY JobFields
<1>2. PICK s \in Nat : /\ 0 <= y + x
                       /\ G * Unit <= (y + x) * l + s * Unit
                       /\ Since(s, h, l)
  BY <1>1 DEF HeadPace
<1>3. PICK k \in Nat : s + h.amount <= k * l /\ k * Unit <= f - y
  BY <1>1, <1>2, RowHasTime
<1>4. l \in Nat /\ y + x \in Int /\ f + x \in Int /\ k * Unit \in Nat /\ k * l \in Nat
      /\ h.amount \in Nat
  BY UnitAssumption, JobFields DEF Levels
<1>5. (f + x) - (y + x) = f - y /\ s + 0 <= k * l /\ G + 0 = G
  BY <1>3, <1>4
<1>6. PICK z \in Nat : z = 0
  OBVIOUS
<1>7. (G + z) * Unit <= (f + x) * l
  BY <1>2, <1>3, <1>4, <1>5, <1>6, BatchesHaveTime
<1>8. y <= f
  BY <1>3, <1>4
<1> QED
  BY <1>1, <1>2, <1>5, <1>6, <1>7, <1>8 DEF Enough

(* A row that is scheduled after enough time, for the time it takes.         *)
LEMMA FreshPace ==
    ASSUME NEW h \in Job, NEW l \in Levels, NEW x \in Int, NEW G \in Int, NEW e \in Int,
           Enough(l, e, x, G), e <= h.start, h.start + Duration(h.amount, l) <= h.finish
    PROVE  HeadPace(h, l, x, G)
<1>1. PICK y \in Int : y = h.start
  BY JobFields
<1>2. l \in Nat /\ y + x \in Int /\ e + x \in Int
  BY DEF Levels
<1>3. PICK s \in Nat : s = 0
  OBVIOUS
<1>4. s * Unit = 0
  BY <1>3, UnitAssumption
<1>5. PICK m \in Int : m = G * Unit
  BY UnitAssumption
<1>6. m <= (e + x) * l /\ 0 <= e + x
  BY <1>5 DEF Enough
<1>7. (e + x) * l <= (y + x) * l /\ (e + x) * l \in Int /\ (y + x) * l \in Int
  BY <1>1, <1>2, Scales
<1>8. G * Unit <= (y + x) * l + s * Unit /\ 0 <= y + x
  BY <1>1, <1>4, <1>5, <1>6, <1>7
<1>9. Since(s, h, l)
  BY <1>3 DEF Since
<1> QED
  BY <1>1, <1>8, <1>9 DEF HeadPace

(* A last batch that is synchronised keeps its place among the batches.      *)
LEMMA KeptBatches ==
    ASSUME NEW h \in Job, NEW j \in Job, NEW l \in Levels, NEW t \in Int,
           h.amount <= l, j.start = h.start, j.finish = t + LiveRemaining(h, l, t)
    PROVE  Batches(h) <= Batches(j)
<1>1. PICK a \in Nat : a = h.amount /\ a > 0
  BY JobFields
<1>2. PICK b \in Nat : b = Batches(h) /\ b >= 1
  BY BatchesType
<1>3. PICK m \in Nat : m = l /\ m > 0
  BY DEF Levels
<1>4. PICK v \in Nat : v = Total(h, l) - a /\ v = (b - 1) * m
  <2>1. Total(h, l) \in Nat /\ Total(h, l) = (b - 1) * m + a
    BY <1>1, <1>2, <1>3, TotalType
  <2>2. (b - 1) * m \in Nat
    BY <1>2
  <2> QED
    BY <2>1, <2>2
<1>5. CeilDiv(v, m) = b - 1
  <2>1. (b - 1) - 1 \in Int /\ b - 1 \in Int
    OBVIOUS
  <2>2. ((b - 1) - 1) * m = (b - 1) * m - m /\ (b - 1) * m \in Int
    OBVIOUS
  <2>3. ((b - 1) - 1) * m < v /\ v <= (b - 1) * m
    BY <1>3, <1>4, <2>2
  <2>4. m \in Nat \ {0}
    BY <1>3
  <2> QED
    BY <2>1, <2>3, <2>4, CeilIs
<1>6. CeilDiv(a, m) = 1
  <2>1. PICK one \in Int : one = 1
    OBVIOUS
  <2>2. (one - 1) * m < a /\ a <= one * m
    BY <1>1, <1>3, <2>1
  <2>3. m \in Nat \ {0}
    BY <1>3
  <2> QED
    BY <2>1, <2>2, <2>3, CeilIs
<1>7. j.finish >= h.start + (CeilDiv(v, m) + CeilDiv(a, m)) * Unit
  BY <1>1, <1>3, <1>4, RemainingType
<1>8. CeilDiv(v, m) + CeilDiv(a, m) = b
  BY <1>5, <1>6
<1>9. b * Unit <= j.finish - j.start
  <2>1. PICK f \in Int, g \in Int, w \in Int : f = j.finish /\ g = j.start /\ w = b * Unit
    BY JobFields, UnitAssumption
  <2>2. f >= g + w
    BY <1>7, <1>8, <2>1
  <2> QED
    BY <2>1, <2>2
<1> QED
  BY <1>2, <1>9, AtLeastBatches

(* A head that is synchronised keeps its pace. *)
LEMMA SyncHeadPace ==
    ASSUME NEW h \in Job, NEW l \in Levels, NEW t \in Int, NEW x \in Int, NEW G \in Int,
           HeadPace(h, l, x, G), Enough(l, t, x, G)
    PROVE  HeadPace(SyncHead(h, l, t), l, x, G)
<1>1. PICK j \in Job : j = SyncHead(h, l, t)
  BY SyncHeadIs
<1>1a. /\ Same(SyncHead(h, l, t), h)
      /\ \/ /\ SyncHead(h, l, t).start = h.start
            /\ SyncHead(h, l, t).finish = t + LiveRemaining(h, l, t)
         \/ /\ SyncHead(h, l, t).start = t
            /\ SyncHead(h, l, t).finish = t + Duration(h.amount, l)
  BY ONLY h \in Job, l \in Levels, t \in Int, SyncHeadIs
<1>2. /\ j.amount = h.amount
      /\ \/ j.start = h.start /\ j.finish = t + LiveRemaining(h, l, t)
         \/ j.start = t /\ j.finish = t + Duration(h.amount, l)
  BY ONLY <1>1, <1>1a DEF Same
<1>3. CASE j.start = t /\ j.finish = t + Duration(h.amount, l)
  <2>1. PICK d \in Int : d = Duration(h.amount, l)
    BY JobFields, DurationType
  <2>2. t <= j.start /\ j.start + Duration(j.amount, l) <= j.finish
    BY <1>2, <1>3, <2>1
  <2>3. HeadPace(j, l, x, G)
    BY ONLY <2>2, j \in Job, l \in Levels, x \in Int, G \in Int, t \in Int, Enough(l, t, x, G),
            FreshPace
  <2> QED
    BY <1>1, <2>3
<1>4. CASE j.start = h.start /\ j.finish = t + LiveRemaining(h, l, t)
  <2>1. PICK s \in Nat : /\ 0 <= h.start + x
                         /\ G * Unit <= (h.start + x) * l + s * Unit
                         /\ Since(s, h, l)
    BY DEF HeadPace
  <2>2. Since(s, j, l)
    <3>1. CASE s = 0
      <4>1. PICK a \in Nat : a = h.amount /\ l \in Nat \ {0}
        BY JobFields DEF Levels
      <4>2. PICK v \in Nat : v = Total(h, l) - a
        BY <4>1, TotalType
      <4>3. PICK c \in Nat : c = CeilDiv(v, l)
        <5>0. v \in Int /\ l \in Nat \ {0}
          BY <4>1
        <5>1. CeilDiv(v, l) \in Int
          BY ONLY <5>0, CeilBounds
        <5>2. 0 <= CeilDiv(v, l)
          BY ONLY v \in Nat, <4>1, CeilMonotone
        <5> QED
          BY <5>1, <5>2
      <4>4. PICK d \in Int : d = CeilDiv(a, l) /\ Duration(a, l) = d * Unit
        <5>1. a \in Int /\ l \in Nat \ {0}
          BY <4>1
        <5>2. CeilDiv(a, l) \in Int
          BY ONLY <5>1, CeilBounds
        <5>3. Duration(a, l) = CeilDiv(a, l) * Unit
          BY <4>1, DurationType
        <5> QED
          BY <5>2, <5>3
      <4>5. j.finish >= h.start + (c + d) * Unit
        BY <1>4, <4>1, <4>2, <4>3, <4>4, RemainingType
      <4>6. PICK f \in Int, g \in Int : f = j.finish /\ g = j.start
        BY JobFields
      <4>7. (c + d) * Unit = c * Unit + d * Unit /\ c * Unit \in Nat /\ d * Unit \in Int
        BY UnitAssumption
      <4>8. g + d * Unit <= f
        BY <1>4, <4>5, <4>6, <4>7
      <4> QED
        BY <1>2, <3>1, <4>1, <4>4, <4>6, <4>8 DEF Since
    <3>2. CASE s > 0
      <4>1. h.amount <= l /\ s <= (Batches(h) - 1) * l
        BY <2>1, <3>2 DEF Since
      <4>2. PICK b \in Nat, c \in Nat : b = Batches(h) /\ c = Batches(j) /\ b <= c
        BY <1>4, <4>1, BatchesType, KeptBatches
      <4>3. l \in Nat
        BY DEF Levels
      <4>4. (b - 1) * l <= (c - 1) * l /\ (b - 1) * l \in Int /\ (c - 1) * l \in Int
        BY <4>2, <4>3, Scales
      <4>5. s <= (c - 1) * l
        BY <4>1, <4>2, <4>4
      <4> QED
        BY <1>2, <3>2, <4>1, <4>2, <4>5 DEF Since
    <3> QED
      BY <3>1, <3>2
  <2> QED
    BY <1>1, <1>4, <2>1, <2>2 DEF HeadPace
<1> QED
  BY <1>2, <1>3, <1>4

(* A head that does not fit its level begins anew. *)
LEMMA SyncHeadAnew ==
    ASSUME NEW job \in Job, NEW l \in Levels, NEW t \in Int, ~Matches(job, l)
    PROVE  /\ SyncHead(job, l, t).start = t
           /\ SyncHead(job, l, t).finish = t + Duration(job.amount, l)
<1>1. PICK y \in Int : y = t + Duration(job.amount, l)
  BY JobFields, DurationType
<1>2. SyncHead(job, l, t) = [job EXCEPT !.start = t, !.finish = y]
  BY <1>1 DEF SyncHead
<1>3. /\ [job EXCEPT !.start = t, !.finish = y].start = t
      /\ [job EXCEPT !.start = t, !.finish = y].finish = y
  BY DEF Job
<1> QED
  BY <1>1, <1>2, <1>3

(* Full batches count as such. *)
LEMMA CeilAfter ==
    ASSUME NEW r \in Nat, NEW k \in Nat, NEW l \in Nat \ {0}
    PROVE  CeilDiv(r + k * l, l) = CeilDiv(r, l) + k
<1>1. r \in Int
  OBVIOUS
<1>2. PICK c \in Int : c = CeilDiv(r, l) /\ r <= c * l /\ c * l < r + l
  BY ONLY <1>1, l \in Nat \ {0}, CeilBounds
<1>3. PICK kl \in Nat, cl \in Int : kl = k * l /\ cl = c * l
  OBVIOUS
<1>4. (c + k) * l = cl + kl /\ ((c + k) - 1) * l = cl + kl - l
  BY <1>3
<1>5. ((c + k) - 1) * l < r + kl /\ r + kl <= (c + k) * l
  BY <1>2, <1>3, <1>4
<1>6. r + kl \in Int /\ c + k \in Int
  OBVIOUS
<1>7. CeilDiv(r + kl, l) = c + k
  BY ONLY <1>5, <1>6, l \in Nat \ {0}, CeilIs
<1> QED
  BY <1>2, <1>3, <1>7

(* A part of an order that is delivered is a number of full batches, and the *)
(* row had the time for them.                                                *)
LEMMA PartIsBatches ==
    ASSUME NEW h \in Job, NEW l \in Levels, NEW t \in Int, NEW u \in Nat,
           u = ToDeliver(h, l, t), 0 < u, u < h.amount
    PROVE  /\ h.amount > l
           /\ \E k \in Nat \ {0} : u = k * l /\ k * Unit <= t - h.start
<1>1. PICK a \in Nat : a = h.amount /\ a > 0
  BY JobFields
<1>2. PICK y \in Int, f \in Int : y = h.start /\ f = h.finish
  BY JobFields
<1>3. PICK T \in Nat : T = Total(h, l) /\ T >= a
                       /\ (a <= l => T = (Batches(h) - 1) * l + a)
                       /\ (a > l => T = a)
  BY <1>1, TotalType
<1>4. t < f
  BY <1>1, <1>2, DueType
<1>5. \E k \in Nat \ {0} : k * Unit <= t - y /\ u + (T - a) = k * l
  BY <1>1, <1>2, <1>3, <1>4, DueType
<1>6. PICK k \in Nat \ {0} : k * Unit <= t - y /\ u + (T - a) = k * l
  BY <1>5
<1>7. PICK m \in Nat : m = l /\ m > 0
  BY DEF Levels
<1>8. a > l
  <2> SUFFICES ASSUME a <= l PROVE FALSE
    BY <1>1, <1>7
  <2>1. PICK b \in Nat : b = Batches(h) /\ b >= 1
    BY BatchesType
  <2>2. PICK bl \in Int : bl = (b - 1) * m
    OBVIOUS
  <2>3. PICK kl \in Int : kl = k * m
    OBVIOUS
  <2>4. T = bl + a
    BY <1>3, <1>7, <2>1, <2>2
  <2>5. u = kl - bl
    BY <1>6, <1>7, <2>3, <2>4
  <2>6. k >= b
    <3> SUFFICES ASSUME k <= b - 1 PROVE FALSE
      BY <2>1
    <3>1. kl <= bl
      BY <1>7, <2>1, <2>2, <2>3, Scales
    <3> QED
      BY <2>5, <3>1
  <2>7. b * m <= k * m
    BY <2>6, Scales
  <2>8. b * m = bl + m
    BY <2>2
  <2>9. u >= m
    BY <2>3, <2>5, <2>7, <2>8
  <2> QED
    BY <1>1, <1>7, <2>9
<1>9. u = k * l
  <2>1. PICK kl \in Int : kl = k * l
    BY <1>7
  <2> QED
    BY <1>3, <1>6, <1>8, <2>1
<1> QED
  BY <1>1, <1>2, <1>6, <1>8, <1>9

(* What is left of a head had its time, and goes on at its pace. *)
LEMMA PartialPace ==
    ASSUME NEW h \in Job, NEW l \in Levels, NEW t \in Int, NEW x \in Int, NEW G \in Int,
           HeadPace(h, l, x, G), NEW u \in Nat,
           u = ToDeliver(h, l, t), 0 < u, u < h.amount
    PROVE  /\ Enough(l, t, x, G + u)
           /\ HeadPace(SyncHead(Left(h, u), l, t), l, x, G + u)
<1>1. PICK a \in Nat : a = h.amount /\ a > 0
  BY JobFields
<1>2. PICK y \in Int, f \in Int : y = h.start /\ f = h.finish
  BY JobFields
<1>3. PICK s \in Nat : /\ 0 <= y + x
                       /\ G * Unit <= (y + x) * l + s * Unit
                       /\ Since(s, h, l)
  BY <1>2 DEF HeadPace
<1>4. PICK k \in Nat \ {0} : u = k * l /\ k * Unit <= t - y
  BY <1>2, PartIsBatches
<1>5. l \in Nat \ {0} /\ y + x \in Int /\ f + x \in Int /\ t + x \in Int /\ k * Unit \in Nat
  BY UnitAssumption DEF Levels
<1>6. a > l
  BY <1>1, PartIsBatches
<1>7. s = 0
  BY <1>1, <1>3, <1>5, <1>6 DEF Since
<1>8. y + Duration(a, l) <= f
  BY <1>1, <1>2, <1>3, <1>7 DEF Since
<1>9. PICK c \in Int : c = CeilDiv(a, l) /\ a <= c * l /\ Duration(a, l) = c * Unit
  <2>1. a \in Int /\ l \in Nat \ {0}
    BY <1>5
  <2>2. CeilDiv(a, l) \in Int /\ a <= CeilDiv(a, l) * l
    BY ONLY <2>1, CeilBounds
  <2>3. Duration(a, l) = CeilDiv(a, l) * Unit
    BY DurationType
  <2> QED
    BY <2>2, <2>3
<1>10. Enough(l, t, x, G + u)
  <2>1. (t + x) - (y + x) = t - y /\ s + u <= k * l
    BY <1>4, <1>5, <1>7
  <2>2. (G + u) * Unit <= (t + x) * l
    BY <1>3, <1>4, <1>5, <2>1, BatchesHaveTime
  <2>3. 0 <= t + x
    BY <1>3, <1>4, <1>5
  <2> QED
    BY <2>2, <2>3 DEF Enough
<1>11. PICK g \in Job : /\ g = Left(h, u) /\ g.amount = a - u
                        /\ g.start = y /\ g.finish = f
  BY <1>1, <1>2, LeftIs
<1>12. PICK j \in Job : j = SyncHead(g, l, t)
  BY SyncHeadIs
<1>13. /\ j.amount = a - u
       /\ \/ j.start = y /\ j.finish = t + LiveRemaining(g, l, t)
          \/ j.start = t /\ j.finish = t + Duration(g.amount, l)
  <2>1. /\ Same(SyncHead(g, l, t), g)
        /\ \/ /\ SyncHead(g, l, t).start = g.start
              /\ SyncHead(g, l, t).finish = t + LiveRemaining(g, l, t)
           \/ /\ SyncHead(g, l, t).start = t
              /\ SyncHead(g, l, t).finish = t + Duration(g.amount, l)
    BY ONLY g \in Job, l \in Levels, t \in Int, SyncHeadIs
  <2> QED
    BY ONLY <1>11, <1>12, <2>1 DEF Same
<1>14. ASSUME j.start = t, j.finish = t + Duration(g.amount, l)
       PROVE  HeadPace(j, l, x, G + u)
  <2>1. PICK d \in Int : d = Duration(g.amount, l)
    BY JobFields, DurationType
  <2>2. t <= j.start /\ j.start + Duration(j.amount, l) <= j.finish
    BY <1>11, <1>13, <1>14, <2>1
  <2>3. G + u \in Int
    OBVIOUS
  <2> QED
    BY ONLY <1>10, <2>2, <2>3, j \in Job, l \in Levels, x \in Int, t \in Int, FreshPace
<1>15. ASSUME a - u > l PROVE ~Matches(g, l)
  <2> SUFFICES ASSUME Matches(g, l) PROVE FALSE
    OBVIOUS
  <2>1. Total(g, l) = a - u
    BY <1>11, <1>15, TotalType
  <2>2. PICK r \in Nat : r = a - u
    BY <1>1
  <2>3. PICK e \in Int : e = CeilDiv(r, l) /\ Duration(r, l) = e * Unit
    <3>1. r \in Int /\ l \in Nat \ {0}
      BY <1>5
    <3>2. CeilDiv(r, l) \in Int
      BY ONLY <3>1, CeilBounds
    <3> QED
      BY <3>2, DurationType
  <2>4. Scheduled(g) = e * Unit
    BY <2>1, <2>2, <2>3 DEF Matches
  <2>5. f - y <= Scheduled(g)
    BY <1>11, ScheduledType
  <2>6. c = e + k
    <3>1. r + k * l = a
      BY <1>4, <2>2
    <3>2. CeilDiv(r + k * l, l) = CeilDiv(r, l) + k
      BY <1>5, CeilAfter
    <3> QED
      BY <1>9, <2>3, <3>1, <3>2
  <2>7. c * Unit = e * Unit + k * Unit /\ e * Unit \in Int /\ c * Unit \in Int
    BY <2>6, UnitAssumption
  <2>8. k * Unit > 0
    BY UnitAssumption
  <2> QED
    BY <1>5, <1>8, <1>9, <2>4, <2>5, <2>7, <2>8
<1>16. ASSUME j.start = y, j.finish = t + LiveRemaining(g, l, t), a - u <= l
       PROVE  HeadPace(j, l, x, G + u)
  <2>1. PICK b \in Nat, e \in Nat : b = Batches(g) /\ e = Batches(j) /\ b <= e
    BY <1>11, <1>16, BatchesType, KeptBatches
  <2>2. k + 1 <= b
    <3>1. k < c
      <4> SUFFICES ASSUME c <= k PROVE FALSE
        BY <1>9
      <4>1. c * l <= k * l
        BY <1>5, Scales
      <4>2. c * l \in Int /\ k * l \in Int
        BY <1>5
      <4> QED
        BY <1>1, <1>4, <1>9, <4>1, <4>2
    <3>2. (k + 1) * Unit <= c * Unit
      BY <3>1, UnitAssumption, Scales
    <3>3. (k + 1) * Unit \in Int /\ c * Unit \in Int
      BY UnitAssumption
    <3>4. (k + 1) * Unit <= g.finish - g.start
      BY <1>8, <1>9, <1>11, <3>2, <3>3
    <3> QED
      BY <2>1, <3>4, AtLeastBatches
  <2>3. k * l <= (e - 1) * l /\ (e - 1) * l \in Int /\ k * l \in Int
    BY <1>5, <2>1, <2>2, Scales
  <2>4. Since(u, j, l)
    BY <1>4, <1>13, <1>16, <2>1, <2>3 DEF Since
  <2>5. (G + u) * Unit <= (y + x) * l + u * Unit
    <3>1. (G + u) * Unit = G * Unit + u * Unit /\ s * Unit = 0
      BY <1>7, UnitAssumption
    <3>2. G * Unit \in Int /\ u * Unit \in Int /\ (y + x) * l \in Int
      BY <1>5, UnitAssumption
    <3> QED
      BY <1>3, <3>1, <3>2
  <2> QED
    BY <1>3, <1>16, <2>4, <2>5 DEF HeadPace
<1>17. HeadPace(j, l, x, G + u)
  <2>1. CASE a - u > l
    <3>1. /\ SyncHead(g, l, t).start = t
          /\ SyncHead(g, l, t).finish = t + Duration(g.amount, l)
      BY <1>15, <2>1, SyncHeadAnew
    <3> QED
      BY <1>12, <1>14, <3>1
  <2>2. CASE a - u <= l
    BY <1>13, <1>14, <1>16, <2>2
  <2> QED
    BY <1>5, <2>1, <2>2
<1> QED
  BY <1>10, <1>11, <1>12, <1>17

-----------------------------------------------------------------------------
(* The pace of a queue. *)

(* A queue that is synchronised is in time when its head is.                 *)
LEMMA SyncPace ==
    ASSUME NEW q \in Seq(Job), NEW l \in Levels, NEW t \in Int, NEW x \in Int, NEW G \in Int,
           Enough(l, t, x, G), q # <<>> => HeadPace(SyncHead(q[1], l, t), l, x, G)
    PROVE  Pace(Sync(q, l, t), l, t, x, G)
<1>1. PICK r \in Seq(Job) : r = Sync(q, l, t)
  BY SyncIs
<1>2. Follows(r, l) /\ Len(r) = Len(q) /\ (q # <<>> => r[1] = SyncHead(q[1], l, t))
  BY <1>1, SyncIs DEF SameOrders
<1>3. r # <<>> => q # <<>>
  BY <1>2
<1>4. Pace(r, l, t, x, G)
  BY <1>2, <1>3 DEF Pace
<1> QED
  BY <1>1, <1>4

(* A queue that is synchronised keeps its pace. *)
LEMMA SyncKeepsPace ==
    ASSUME NEW q \in Seq(Job), NEW l \in Levels, NEW t \in Int, NEW x \in Int, NEW G \in Int,
           Enough(l, t, x, G), q # <<>> => HeadPace(q[1], l, x, G)
    PROVE  Pace(Sync(q, l, t), l, t, x, G)
<1>1. ASSUME q # <<>> PROVE HeadPace(SyncHead(q[1], l, t), l, x, G)
  <2>1. q[1] \in Job
    BY <1>1
  <2> QED
    BY <1>1, <2>1, SyncHeadPace
<1> QED
  BY <1>1, SyncPace

(* A queue that is scheduled from now on has its time. *)
LEMMA RecalculatePace ==
    ASSUME NEW q \in Seq(Job), NEW l \in Levels, NEW t \in Int, NEW x \in Int, NEW G \in Int,
           Enough(l, t, x, G)
    PROVE  Pace(Recalculate(q, l, t), l, t, x, G)
<1>1. PICK r \in Seq(Job) : r = Recalculate(q, l, t)
  BY RecalculateIs
<1>2. /\ SameOrders(r, q) /\ Follows(r, l)
      /\ q # <<>> => r[1].start = t /\ r[1].finish = t + Duration(q[1].amount, l)
  BY <1>1, RecalculateIs
<1>3. ASSUME r # <<>> PROVE HeadPace(r[1], l, x, G)
  <2>1. q # <<>> /\ r[1] \in Job /\ q[1] \in Job /\ r[1].amount = q[1].amount
    BY <1>2, <1>3 DEF SameOrders, Same
  <2>2. PICK d \in Int : d = Duration(q[1].amount, l)
    BY <2>1, JobFields, DurationType
  <2>3. t <= r[1].start /\ r[1].start + Duration(r[1].amount, l) <= r[1].finish
    BY <1>2, <2>1, <2>2
  <2> QED
    BY <2>1, <2>3, FreshPace
<1> QED
  BY <1>1, <1>2, <1>3 DEF Pace

(* The queue behind a head that is complete keeps its pace. *)
LEMMA TailPace ==
    ASSUME NEW q \in Seq(Job), q # <<>>, NEW l \in Levels, NEW t \in Int, NEW x \in Int,
           NEW G \in Int, Pace(q, l, t, x, G), Due(q, l, t)
    PROVE  Pace(Tail(q), l, t, x, G + q[1].amount)
<1>1. PICK h \in Job : h = q[1]
  OBVIOUS
<1>2. PICK r \in Seq(Job) : r = Tail(q)
  BY TailIs
<1>3. /\ \A i \in 1..Len(r) : i + 1 \in 1..Len(q) /\ r[i] = q[i + 1]
      /\ Len(r) = Len(q) - 1
  BY <1>2, TailIs
<1>4. PICK g \in Int : g = G + h.amount
  BY JobFields
<1>5. Enough(l, t, x, g) /\ Enough(l, h.finish, x, g)
  <2>1. HeadPace(h, l, x, G) /\ ToDeliver(h, l, t) = h.amount
    BY <1>1 DEF Pace, Due
  <2> QED
    BY <1>4, <2>1, DoneInTime
<1>6. Follows(r, l)
  <2> SUFFICES ASSUME NEW i \in 1..Len(r), i # 1
               PROVE  /\ r[i - 1].finish <= r[i].start
                      /\ r[i].start + Duration(r[i].amount, l) <= r[i].finish
    BY DEF Follows
  <2>1. i - 1 \in 1..Len(r) /\ (i - 1) + 1 = i /\ i + 1 # 1 /\ (i + 1) - 1 = i
    OBVIOUS
  <2>2. i + 1 \in 1..Len(q) /\ r[i] = q[i + 1] /\ r[i - 1] = q[i]
    BY <1>3, <2>1
  <2> QED
    BY <2>1, <2>2 DEF Pace, Follows
<1>7. ASSUME r # <<>> PROVE HeadPace(r[1], l, x, g)
  <2>1. r[1] \in Job /\ 1 \in 1..Len(r)
    BY <1>7
  <2>2. 2 \in 1..Len(q) /\ r[1] = q[2] /\ 2 - 1 = 1
    BY <1>3, <2>1
  <2>3. h.finish <= r[1].start /\ r[1].start + Duration(r[1].amount, l) <= r[1].finish
    BY <1>1, <2>2 DEF Pace, Follows
  <2>4. h.finish \in Int
    BY JobFields
  <2> QED
    BY <1>5, <2>1, <2>3, <2>4, FreshPace
<1>8. Pace(r, l, t, x, g)
  BY <1>5, <1>6, <1>7 DEF Pace
<1> QED
  BY <1>1, <1>2, <1>4, <1>8

(* So does what a pass goes on with after it. *)
LEMMA NextRestPace ==
    ASSUME NEW q \in Seq(Job), q # <<>>, NEW l \in Levels, NEW t \in Int, NEW x \in Int,
           NEW G \in Int, Pace(q, l, t, x, G), Due(q, l, t)
    PROVE  Pace(NextRest(q, l, t), l, t, x, G + q[1].amount)
<1>1. PICK r \in Seq(Job) : r = Tail(q)
  BY TailIs
<1>2. PICK g \in Int : g = G + q[1].amount
  <2>1. q[1] \in Job
    OBVIOUS
  <2> QED
    BY <2>1, JobFields
<1>3. Pace(r, l, t, x, g)
  BY <1>1, <1>2, TailPace
<1>4. Pace(Sync(r, l, t), l, t, x, g)
  BY <1>3, SyncKeepsPace DEF Pace
<1> QED
  BY <1>1, <1>2, <1>3, <1>4 DEF NextRest

(* A queue whose head delivers batches keeps its pace. *)
LEMMA ProgressedPace ==
    ASSUME NEW r \in Seq(Job), r # <<>>, NEW l \in Levels, NEW t \in Int, NEW x \in Int,
           NEW G \in Int, Pace(r, l, t, x, G),
           NEW u \in Nat, u = ToDeliver(r[1], l, t), u < r[1].amount
    PROVE  Pace(Progressed(r, u, l, t), l, t, x, G + u)
<1>1. CASE u = 0
  <2>1. Progressed(r, u, l, t) = r /\ G + u = G
    BY <1>1 DEF Progressed
  <2> QED
    BY <2>1
<1>2. CASE u # 0
  <2>1. PICK h \in Job : h = r[1]
    OBVIOUS
  <2>2. PICK w \in Seq(Job) : w = Reduced(r, u) /\ w[1] = Left(h, u) /\ Len(w) = Len(r)
    BY <2>1, ReducedIs
  <2>3. Progressed(r, u, l, t) = Sync(w, l, t)
    BY <1>2, <2>2 DEF Progressed, Reduced
  <2>4. PICK g \in Int : g = G + u
    OBVIOUS
  <2>5. Enough(l, t, x, g) /\ HeadPace(SyncHead(Left(h, u), l, t), l, x, g)
    <3>1. HeadPace(h, l, x, G) /\ u = ToDeliver(h, l, t) /\ 0 < u /\ u < h.amount
      BY <1>2, <2>1 DEF Pace
    <3> QED
      BY <2>4, <3>1, PartialPace
  <2>6. Pace(Sync(w, l, t), l, t, x, g)
    BY <2>2, <2>5, SyncPace
  <2> QED
    BY <2>3, <2>4, <2>6
<1> QED
  BY <1>1, <1>2

(* The time of a row's order. *)
LEMMA JobDuration ==
    ASSUME NEW job \in Job, NEW l \in Levels
    PROVE  Duration(job.amount, l) \in Nat
  BY JobFields, DurationType

(* At a higher level an order takes no longer. *)
LEMMA DurationFalls ==
    ASSUME NEW job \in Job, NEW l \in Levels
    PROVE  Duration(job.amount, l + 1) <= Duration(job.amount, l) /\ l + 1 \in Levels
<1>1. PICK a \in Nat : a = job.amount
  BY JobFields
<1>2. l \in Nat \ {0} /\ l + 1 \in Nat \ {0} /\ l + 1 \in Levels /\ l <= l + 1
  BY DEF Levels
<1>3. CeilDiv(a, l + 1) <= CeilDiv(a, l)
  BY <1>2, CeilMonotone
<1>4. a \in Int
  OBVIOUS
<1>5. CeilDiv(a, l + 1) \in Int /\ CeilDiv(a, l) \in Int
  BY ONLY <1>2, <1>4, CeilBounds
<1>6. CeilDiv(a, l + 1) * Unit <= CeilDiv(a, l) * Unit
  BY <1>3, <1>5, UnitAssumption, Scales
<1> QED
  BY <1>1, <1>2, <1>6, DurationType

(* An upgrade of the building. *)
LEMMA LevelPace ==
    ASSUME NEW q \in Seq(Job), NEW l \in Levels, NEW t \in Int, NEW x \in Int,
           NEW G \in Int, Pace(q, l, t, x, G)
    PROVE  Pace(q, l + 1, t, x, G)
<1>1. l \in Nat \ {0} /\ l + 1 \in Nat \ {0} /\ l + 1 \in Levels
  BY DEF Levels
<1>2. PICK z \in Nat : z = 0
  OBVIOUS
<1>3. ASSUME NEW y \in Int, 0 <= y, NEW s \in Nat, G * Unit <= y * l + s * Unit
      PROVE  G * Unit <= y * (l + 1) + s * Unit
  <2>1. s * Unit \in Int /\ y \in Nat
    BY <1>3, UnitAssumption
  <2> QED
    BY <1>1, <1>3, <2>1, MoreCapacity
<1>4. Enough(l + 1, t, x, G)
  <2>1. PICK y \in Int : y = t + x
    OBVIOUS
  <2>2. 0 <= y /\ G * Unit <= y * l
    BY <2>1 DEF Pace, Enough
  <2>3. z * Unit = 0 /\ y * l \in Int /\ y * (l + 1) \in Int
    <3>1. z * Unit = 0
      BY ONLY <1>2, UnitAssumption
    <3>2. y * l \in Int /\ y * (l + 1) \in Int
      BY ONLY <1>1, y \in Int
    <3> QED
      BY <3>1, <3>2
  <2>4. G * Unit <= y * (l + 1) + z * Unit
    BY <1>3, <2>2, <2>3
  <2> QED
    BY <2>1, <2>2, <2>3, <2>4 DEF Enough
<1>6. Follows(q, l + 1)
  <2> SUFFICES ASSUME NEW i \in 1..Len(q), i # 1
               PROVE  /\ q[i - 1].finish <= q[i].start
                      /\ q[i].start + Duration(q[i].amount, l + 1) <= q[i].finish
    BY DEF Follows
  <2>1. PICK h \in Job : h = q[i]
    OBVIOUS
  <2>2. q[i - 1].finish <= h.start /\ h.start + Duration(h.amount, l) <= h.finish
    BY <2>1 DEF Pace, Follows
  <2>3. PICK d \in Int, e \in Int : d = Duration(h.amount, l) /\ e = Duration(h.amount, l + 1)
                                    /\ e <= d
    BY <1>1, JobDuration, DurationFalls
  <2>4. PICK y \in Int, f \in Int : y = h.start /\ f = h.finish
    BY JobFields
  <2>5. y + e <= f
    BY <2>2, <2>3, <2>4
  <2> QED
    BY <2>1, <2>2, <2>3, <2>4, <2>5
<1>7. ASSUME q # <<>> PROVE HeadPace(q[1], l + 1, x, G)
  <2>1. PICK h \in Job : h = q[1]
    BY <1>7
  <2>2. PICK y \in Int : y = h.start + x
    BY JobFields
  <2>3. PICK s \in Nat : 0 <= y /\ G * Unit <= y * l + s * Unit /\ Since(s, h, l)
    BY <1>7, <2>1, <2>2 DEF Pace, HeadPace
  <2>4. G * Unit <= y * (l + 1) + s * Unit
    BY <1>3, <2>3
  <2>5. Since(s, h, l + 1)
    <3>1. CASE s = 0
      <4>1. PICK d \in Int, e \in Int : d = Duration(h.amount, l) /\ e = Duration(h.amount, l + 1)
                                        /\ e <= d
        BY <1>1, JobDuration, DurationFalls
      <4>2. h.start + d <= h.finish
        BY <2>3, <3>1, <4>1 DEF Since
      <4>3. h.start + e <= h.finish
        BY <4>1, <4>2, JobFields
      <4> QED
        BY <3>1, <4>1, <4>3 DEF Since
    <3>2. CASE s > 0
      <4>1. PICK b \in Nat : b = Batches(h) /\ b >= 1
        BY BatchesType
      <4>2. h.amount <= l /\ s <= (b - 1) * l
        BY <2>3, <3>2, <4>1 DEF Since
      <4>3. PICK bl \in Int : bl = (b - 1) * l
        BY <1>1
      <4>4. (b - 1) * (l + 1) = bl + (b - 1)
        <5>1. PICK c \in Nat : c = b - 1
          BY <4>1
        <5>2. c * (l + 1) = c * l + c
          BY <1>1
        <5> QED
          BY <4>3, <5>1, <5>2
      <4>5. s <= (b - 1) * (l + 1)
        <5>1. s <= bl /\ bl <= bl + (b - 1)
          BY <4>1, <4>2, <4>3
        <5> QED
          BY ONLY <4>3, <4>4, <5>1, s \in Nat, bl \in Int, b \in Nat
      <4>6. h.amount <= l + 1
        BY <1>1, <4>2, JobFields
      <4> QED
        BY <3>2, <4>1, <4>5, <4>6 DEF Since
    <3> QED
      BY <3>1, <3>2
  <2> QED
    BY <2>1, <2>2, <2>3, <2>4, <2>5 DEF HeadPace
<1> QED
  BY <1>4, <1>6, <1>7 DEF Pace

(* Time that passes. *)
LEMMA LaterPace ==
    ASSUME NEW q \in Seq(Job), NEW l \in Levels, NEW t \in Int, NEW x \in Int,
           NEW G \in Int, Pace(q, l, t, x, G)
    PROVE  Pace(q, l, t + 1, x, G)
<1>1. PICK y \in Int : y = t + x
  OBVIOUS
<1>2. 0 <= y /\ G * Unit <= y * l
  BY <1>1 DEF Pace, Enough
<1>3. l \in Nat
  BY DEF Levels
<1>4. y * l <= (y + 1) * l /\ y * l \in Int /\ (y + 1) * l \in Int
  BY <1>3, Scales
<1>5. G * Unit \in Int
  BY UnitAssumption
<1>6. (t + 1) + x = y + 1
  BY <1>1
<1>7. Enough(l, t + 1, x, G)
  BY <1>2, <1>4, <1>5, <1>6 DEF Enough
<1> QED
  BY <1>7 DEF Pace

(* Time that is bought: the queue is earlier by as much. *)
LEMMA ShiftPace ==
    ASSUME NEW q \in Seq(Job), NEW l \in Levels, NEW t \in Int, NEW x \in Int,
           NEW G \in Int, Pace(q, l, t, x, G), NEW s \in Nat
    PROVE  Pace(Shifted(q, s), l, t, x + s, G)
<1>1. PICK r \in Seq(Job) : r = Shifted(q, s)
  BY ShiftedIs
<1>2. /\ Len(r) = Len(q)
      /\ \A i \in 1..Len(q) : /\ r[i].amount = q[i].amount
                             /\ r[i].start = q[i].start - s
                             /\ r[i].finish = q[i].finish - s
  BY <1>1, ShiftedIs DEF SameOrders, Same
<1>3. l \in Nat
  BY DEF Levels
<1>4. Enough(l, t, x + s, G)
  <2>1. PICK y \in Int, z \in Int : y = t + x /\ z = t + (x + s) /\ y <= z
    OBVIOUS
  <2>2. 0 <= y /\ G * Unit <= y * l
    BY <2>1 DEF Pace, Enough
  <2>3. y * l <= z * l /\ y * l \in Int /\ z * l \in Int /\ G * Unit \in Int
    BY <1>3, <2>1, Scales, UnitAssumption
  <2> QED
    BY <2>1, <2>2, <2>3 DEF Enough
<1>5. Follows(r, l)
  <2> SUFFICES ASSUME NEW i \in 1..Len(r), i # 1
               PROVE  /\ r[i - 1].finish <= r[i].start
                      /\ r[i].start + Duration(r[i].amount, l) <= r[i].finish
    BY DEF Follows
  <2>1. i \in 1..Len(q) /\ i - 1 \in 1..Len(q)
    BY <1>2
  <2>2. PICK h \in Job, g \in Job : h = q[i] /\ g = q[i - 1]
    BY <2>1
  <2>2a. PICK d \in Int : d = Duration(h.amount, l)
    BY JobDuration
  <2>3. PICK y \in Int, f \in Int, e \in Int : y = h.start /\ f = h.finish /\ e = g.finish
    BY JobFields
  <2>4. e <= y /\ y + d <= f
    BY <2>1, <2>2, <2>2a, <2>3 DEF Pace, Follows
  <2>5. r[i].start = y - s /\ r[i].finish = f - s /\ r[i - 1].finish = e - s
        /\ Duration(r[i].amount, l) = d
    BY <1>2, <2>1, <2>2, <2>2a, <2>3
  <2> QED
    BY <2>4, <2>5
<1>6. ASSUME r # <<>> PROVE HeadPace(r[1], l, x + s, G)
  <2>1. q # <<>> /\ 1 \in 1..Len(q)
    BY <1>2, <1>6
  <2>2. PICK h \in Job, g \in Job : h = q[1] /\ g = r[1]
    BY <1>6, <2>1
  <2>3. PICK y \in Int, f \in Int : y = h.start /\ f = h.finish
    BY JobFields
  <2>4. g.start = y - s /\ g.finish = f - s /\ g.amount = h.amount
    BY <1>2, <2>1, <2>2, <2>3
  <2>5. PICK v \in Nat : 0 <= y + x /\ G * Unit <= (y + x) * l + v * Unit /\ Since(v, h, l)
    BY <2>1, <2>2, <2>3 DEF Pace, HeadPace
  <2>6. g.start + (x + s) = y + x
    BY <2>3, <2>4
  <2>7. g.finish - g.start = h.finish - h.start
    <3>1. (f - s) - (y - s) = f - y
      OBVIOUS
    <3> QED
      BY ONLY <2>3, <2>4, <3>1
  <2>8. Batches(g) = Batches(h)
    BY <2>7 DEF Batches, Scheduled
  <2>9. Since(v, g, l)
    <3>1. CASE v = 0
      <4>1. PICK d \in Int : d = Duration(h.amount, l)
        BY JobDuration
      <4>2. y + d <= f
        BY ONLY <2>3, <2>5, <3>1, <4>1 DEF Since
      <4>3. (y - s) + d <= f - s
        BY ONLY <4>2, y \in Int, f \in Int, d \in Int, s \in Nat
      <4> QED
        BY ONLY <2>4, <3>1, <4>1, <4>3 DEF Since
    <3>2. CASE v # 0
      <4>1. h.amount <= l /\ v <= (Batches(h) - 1) * l
        BY ONLY <2>5, <3>2, v \in Nat DEF Since
      <4> QED
        BY ONLY <2>4, <2>8, <3>2, <4>1 DEF Since
    <3> QED
      BY ONLY <3>1, <3>2
  <2>10. HeadPace(g, l, x + s, G)
    BY <2>5, <2>6, <2>9 DEF HeadPace
  <2> QED
    BY <2>2, <2>10
<1>7. Pace(r, l, t, x + s, G)
  BY <1>4, <1>5, <1>6 DEF Pace
<1> QED
  BY <1>1, <1>7

-----------------------------------------------------------------------------
(* The pace of a pass, with the book. *)

\* What was delivered of each order, and in all.
GivenOf(b) == [o \in DOMAIN b |-> b[o].given]
Worked(b) == SumOf(DOMAIN b, GivenOf(b))

\* What was delivered when the first k rows have given their units.
GivenUpTo(b, units, q, k) ==
    [o \in DOMAIN b |-> b[o].given + IF \E i \in 1..k : q[i].id = o THEN units[o] ELSE 0]

\* The rows are orders of the book, and a pass gives units for each order.
Books(b, q, units) ==
    /\ b \in Seq(Entry) /\ q \in Seq(Job) /\ units \in [DOMAIN b -> Nat]
    /\ Distinct(q) /\ \A i \in 1..Len(q) : q[i].id \in DOMAIN b

(* What was given up to a row can be summed. *)
LEMMA UpToSums ==
    ASSUME NEW b, NEW q, NEW units, Books(b, q, units), NEW k \in Nat
    PROVE  Integral(DOMAIN b, GivenUpTo(b, units, q, k))
<1>1. b \in Seq(Entry) /\ IsFiniteSet(DOMAIN b)
  <2>1. b \in Seq(Entry)
    BY DEF Books
  <2>2. DOMAIN b = 1..Len(b) /\ Len(b) \in Nat
    BY <2>1
  <2> QED
    BY <2>1, <2>2, FS_Interval
<1>2. ASSUME NEW o \in DOMAIN b PROVE GivenUpTo(b, units, q, k)[o] \in Int
  <2>1. b[o].given \in Nat /\ units[o] \in Nat
    BY <1>1, EntryFields DEF Books
  <2> QED
    BY <2>1 DEF GivenUpTo
<1> QED
  BY <1>1, <1>2 DEF Integral

(* The next row adds its units. *)
LEMMA UpToNext ==
    ASSUME NEW b, NEW q, NEW units, Books(b, q, units), NEW k \in Nat, k < Len(q)
    PROVE  SumOf(DOMAIN b, GivenUpTo(b, units, q, k + 1))
             = SumOf(DOMAIN b, GivenUpTo(b, units, q, k)) + units[q[k + 1].id]
<1>1. /\ b \in Seq(Entry) /\ q \in Seq(Job) /\ units \in [DOMAIN b -> Nat]
      /\ Distinct(q) /\ \A i \in 1..Len(q) : q[i].id \in DOMAIN b
  BY DEF Books
<1>2. Len(q) \in Nat /\ k + 1 \in 1..Len(q)
  BY <1>1
<1>3. PICK a \in DOMAIN b : a = q[k + 1].id
  BY <1>1, <1>2
<1>4. PICK d \in Int : d = units[a]
  BY <1>1
<1>5. \A i \in 1..k : q[i].id # a
  <2> SUFFICES ASSUME NEW i \in 1..k, q[i].id = a PROVE FALSE
    OBVIOUS
  <2>1. i \in 1..Len(q) /\ i # k + 1
    BY <1>2
  <2> QED
    BY <1>1, <1>2, <1>3, <2>1 DEF Distinct
<1>6. \A i \in 1..k + 1 : i \in 1..k \/ i = k + 1
  OBVIOUS
<1>7. k + 1 \in 1..k + 1 /\ \A i \in 1..k : i \in 1..k + 1
  OBVIOUS
<1>8. PICK f : f = GivenUpTo(b, units, q, k)
  OBVIOUS
<1>9. PICK h : h = GivenUpTo(b, units, q, k + 1)
  OBVIOUS
<1>10. PICK v \in Int : v = b[a].given
  <2>1. b \in Seq(Entry)
    BY <1>1
  <2>2. b[a].given \in Nat
    BY ONLY <2>1, a \in DOMAIN b, EntryFields
  <2> QED
    BY ONLY <2>2
<1>11. f[a] = v
  BY <1>5, <1>8, <1>10 DEF GivenUpTo
<1>12. h[a] = v + d
  BY <1>3, <1>4, <1>7, <1>9, <1>10 DEF GivenUpTo
<1>13. \A o \in DOMAIN b \ {a} : h[o] = f[o]
  <2> TAKE o \in DOMAIN b \ {a}
  <2>1. (\E i \in 1..k + 1 : q[i].id = o) <=> (\E i \in 1..k : q[i].id = o)
    BY <1>3, <1>6, <1>7
  <2> QED
    BY <1>8, <1>9, <2>1 DEF GivenUpTo
<1>14. Integral(DOMAIN b, f)
  BY <1>8, UpToSums
<1>15. h[a] = f[a] + d
  BY <1>11, <1>12
<1>16. SumOf(DOMAIN b, h) = SumOf(DOMAIN b, f) + d
  BY ONLY <1>13, <1>14, <1>15, a \in DOMAIN b, d \in Int, SumAfter
<1> QED
  BY <1>3, <1>4, <1>8, <1>9, <1>16

(* The sum is a number. *)
LEMMA UpToType ==
    ASSUME NEW b, NEW q, NEW units, Books(b, q, units), NEW k \in Nat
    PROVE  SumOf(DOMAIN b, GivenUpTo(b, units, q, k)) \in Int
  BY UpToSums, SumType

(* Before the first row. *)
LEMMA UpToNone ==
    ASSUME NEW b, NEW q, NEW units, Books(b, q, units), NEW k \in Nat, k = 0
    PROVE  SumOf(DOMAIN b, GivenUpTo(b, units, q, k)) = Worked(b)
<1>1. b \in Seq(Entry)
  BY DEF Books
<1>2. \A o \in DOMAIN b : GivenOf(b)[o] = GivenUpTo(b, units, q, k)[o]
  <2> TAKE o \in DOMAIN b
  <2>1. ~ \E i \in 1..k : q[i].id = o
    OBVIOUS
  <2>2. b[o].given \in Nat
    BY <1>1, EntryFields
  <2> QED
    BY <2>1, <2>2 DEF GivenOf, GivenUpTo
<1>3. PICK f : f = GivenUpTo(b, units, q, k)
  OBVIOUS
<1>4. PICK h : h = GivenOf(b)
  OBVIOUS
<1>5. Integral(DOMAIN b, f) /\ \A o \in DOMAIN b : h[o] = f[o]
  BY <1>2, <1>3, <1>4, UpToSums
<1>6. SumOf(DOMAIN b, h) = SumOf(DOMAIN b, f)
  BY ONLY <1>5, SumSame
<1> QED
  BY <1>3, <1>4, <1>6 DEF Worked

(* When every row that gives has given, the book has it. *)
LEMMA UpToAll ==
    ASSUME NEW b, NEW q, NEW units, Books(b, q, units), NEW k \in Nat, NEW r,
           \A o \in DOMAIN b : (\A i \in 1..k : q[i].id # o) => units[o] = 0
    PROVE  Worked(After(b, units, r)) = SumOf(DOMAIN b, GivenUpTo(b, units, q, k))
<1>1. b \in Seq(Entry) /\ units \in [DOMAIN b -> Nat]
  BY DEF Books
<1>2. PICK a : a = After(b, units, r)
  OBVIOUS
<1>3. DOMAIN a = DOMAIN b
  BY <1>1, <1>2, AfterType
<1>4. \A o \in DOMAIN b : GivenOf(a)[o] = GivenUpTo(b, units, q, k)[o]
  <2> TAKE o \in DOMAIN b
  <2>1. a[o].given = b[o].given + units[o]
    BY <1>1, <1>2, AfterEntry, ZenonT(30)
  <2>2. GivenOf(a)[o] = a[o].given
    BY <1>3 DEF GivenOf
  <2>3. b[o].given + units[o] = GivenUpTo(b, units, q, k)[o]
    BY DEF GivenUpTo
  <2> QED
    BY <2>1, <2>2, <2>3
<1>5. PICK f : f = GivenUpTo(b, units, q, k)
  OBVIOUS
<1>6. PICK h : h = GivenOf(a)
  OBVIOUS
<1>7. Integral(DOMAIN b, f) /\ \A o \in DOMAIN b : h[o] = f[o]
  BY <1>4, <1>5, <1>6, UpToSums
<1>8. SumOf(DOMAIN b, h) = SumOf(DOMAIN b, f)
  BY ONLY <1>7, SumSame
<1> QED
  BY <1>2, <1>3, <1>5, <1>6, <1>8 DEF Worked

(* While orders are completed the queue keeps its pace. *)
LEMMA RestPace ==
    ASSUME NEW q \in Seq(Job), NEW b, NEW units, Books(b, q, units),
           NEW l \in Levels, NEW t \in Int, NEW x \in Int, Pace(q, l, t, x, Worked(b)),
           NEW n \in 0..Len(q), Complete(q, l, t, n),
           \A i \in 1..n : units[q[i].id] = q[i].amount
    PROVE  Pace(Rest(q, l, t)[n], l, t, x, SumOf(DOMAIN b, GivenUpTo(b, units, q, n)))
<1> DEFINE At(k) == Pace(Rest(q, l, t)[k], l, t, x, SumOf(DOMAIN b, GivenUpTo(b, units, q, k)))
           S == {k \in Nat : k <= n => At(k)}
<1>1. Len(q) \in Nat /\ n \in Nat
  OBVIOUS
<1>1a. /\ \A k \in 1..Len(q) : Rest(q, l, t)[k] = NextRest(Rest(q, l, t)[k - 1], l, t)
      /\ \A k \in 0..Len(q) : Rest(q, l, t)[k] \in Seq(Job) /\ Later(Rest(q, l, t)[k], q, k)
  BY ONLY q \in Seq(Job), l \in Levels, t \in Int, RestAre
<1>2. 0 \in S
  <2>1. PICK z \in Nat : z = 0
    OBVIOUS
  <2>2. SumOf(DOMAIN b, GivenUpTo(b, units, q, z)) = Worked(b)
    BY <2>1, UpToNone
  <2>3. Rest(q, l, t)[z] = q
    BY <2>1, RestAre
  <2>4. At(z)
    BY <2>2, <2>3
  <2> QED
    BY <2>1, <2>4
<1>3. ASSUME NEW k \in Nat, k \in S PROVE k + 1 \in S
  <2> SUFFICES ASSUME k + 1 <= n PROVE At(k + 1)
    OBVIOUS
  <2>1. k \in 0..Len(q) /\ k + 1 \in 1..Len(q) /\ k + 1 \in 1..n /\ k \in 0..n - 1 /\ k < Len(q)
        /\ (k + 1) - 1 = k
    BY <1>1
  <2>2. PICK r \in Seq(Job) : r = Rest(q, l, t)[k] /\ Later(r, q, k)
    BY ONLY <1>1a, <2>1
  <2>3. Rest(q, l, t)[k + 1] = NextRest(r, l, t)
    BY ONLY <1>1a, <2>1, <2>2
  <2>4. r # <<>> /\ r[1].amount = q[k + 1].amount
    <3>1. Len(r) = Len(q) - k /\ \A i \in 1..Len(r) : Same(r[i], q[k + i])
      BY <2>2 DEF Later
    <3>2. 1 \in 1..Len(r)
      BY <1>1, <2>1, <3>1
    <3> QED
      BY <3>1, <3>2 DEF Same
  <2>5. Due(r, l, t)
    BY <2>1, <2>2 DEF Complete
  <2>6. PICK g \in Int : g = SumOf(DOMAIN b, GivenUpTo(b, units, q, k))
    BY UpToType
  <2>7. Pace(r, l, t, x, g)
    BY <1>3, <2>1, <2>2, <2>6
  <2>8. Pace(NextRest(r, l, t), l, t, x, g + r[1].amount)
    BY ONLY <2>4, <2>5, <2>7, r \in Seq(Job), l \in Levels, t \in Int, x \in Int, g \in Int,
            NextRestPace
  <2>9. SumOf(DOMAIN b, GivenUpTo(b, units, q, k + 1)) = g + r[1].amount
    BY <2>1, <2>4, <2>6, UpToNext
  <2> QED
    BY <2>3, <2>8, <2>9
<1> HIDE DEF S
<1>4. Nat \subseteq S
  BY <1>2, <1>3, Induct
<1>5. n \in S
  BY <1>1, <1>4
<1> QED
  BY <1>1, <1>5 DEF S

(* A pass keeps the pace of the queue, and counts what it delivers. *)
LEMMA FinishPace ==
    ASSUME NEW q \in Seq(Job), NEW b \in Seq(Entry), DOMAIN b = DOMAIN book, RowsTell(b, q),
           NEW l \in Levels, NEW t \in Int, NEW x \in Int, Pace(q, l, t, x, Worked(b))
    PROVE  LET done == Finish(q, l, t)
           IN  Pace(done.queue, l, t, x, Worked(After(b, done.units, done.queue)))
<1>1. PICK n \in 0..Len(q), r \in Seq(Job), u \in Nat : FinishesAs(q, l, t, n, r, u)
  BY FinishIs
<1>2. PICK units : units = Finish(q, l, t).units
  OBVIOUS
<1>3. PICK w : w = Finish(q, l, t).queue
  OBVIOUS
<1>4. /\ Complete(q, l, t, n) /\ r = Rest(q, l, t)[n] /\ Later(r, q, n)
      /\ r = <<>> => u = 0
      /\ r # <<>> => u = ToDeliver(r[1], l, t) /\ u < r[1].amount
      /\ w = IF kind = "yard" /\ n # 0 THEN Recalculate(Progressed(r, u, l, t), l, t)
             ELSE Progressed(r, u, l, t)
      /\ Gives(q, units, n, u, DOMAIN b)
  BY <1>1, <1>2, <1>3 DEF FinishesAs, RowsTell
<1>5. Books(b, q, units)
  BY <1>4 DEF Books, RowsTell, Gives
<1>6. Len(q) \in Nat /\ n \in Nat /\ Len(r) = Len(q) - n
  BY <1>4 DEF Later
<1>7. \A i \in 1..n : units[q[i].id] = q[i].amount
  <2> TAKE i \in 1..n
  <2>1. i \in 1..Len(q)
    BY <1>6
  <2>2. q[i].id \in DOMAIN b
    BY <2>1 DEF RowsTell
  <2> QED
    BY <1>4, <2>2 DEF Gives
<1>8. PICK g \in Int : g = SumOf(DOMAIN b, GivenUpTo(b, units, q, n))
  BY <1>5, <1>6, UpToType
<1>9. Pace(r, l, t, x, g)
  BY <1>4, <1>5, <1>7, <1>8, RestPace
<1>10. PICK m \in Int : m = Worked(After(b, units, w))
  <2>1. Worked(After(b, units, w)) = SumOf(DOMAIN b, GivenUpTo(b, units, q, Len(q)))
    <3>1. \A o \in DOMAIN b : (\A i \in 1..Len(q) : q[i].id # o) => units[o] = 0
      BY <1>4 DEF Gives
    <3> QED
      BY <1>5, <1>6, <3>1, UpToAll
  <2> QED
    BY <1>5, <1>6, <2>1, UpToType
<1>11. Pace(Progressed(r, u, l, t), l, t, x, m)
  <2>1. CASE r = <<>>
    <3>1. n = Len(q) /\ Progressed(r, u, l, t) = r
      BY <1>4, <1>6, <2>1 DEF Progressed
    <3>2. \A o \in DOMAIN b : (\A i \in 1..n : q[i].id # o) => units[o] = 0
      BY <1>4, <1>6, <3>1 DEF Gives
    <3>3. m = g
      BY <1>5, <1>6, <1>8, <1>10, <3>2, UpToAll
    <3> QED
      BY <1>9, <3>1, <3>3
  <2>2. CASE r # <<>>
    <3>1. n < Len(q) /\ n + 1 \in Nat /\ n + 1 \in 1..Len(q)
      BY <1>6, <2>2
    <3>2. \A o \in DOMAIN b : (\A i \in 1..n + 1 : q[i].id # o) => units[o] = 0
      <4> SUFFICES ASSUME NEW o \in DOMAIN b, \A i \in 1..n + 1 : q[i].id # o
                   PROVE  units[o] = 0
        OBVIOUS
      <4>1. \A i \in 1..Len(q) : i <= n + 1 => q[i].id # o
        BY <1>6
      <4> QED
        BY <1>4, <4>1 DEF Gives
    <3>3. m = SumOf(DOMAIN b, GivenUpTo(b, units, q, n + 1))
      BY <1>5, <1>10, <3>1, <3>2, UpToAll
    <3>4. units[q[n + 1].id] = u
      <4>1. q[n + 1].id \in DOMAIN b
        BY <3>1 DEF RowsTell
      <4> QED
        BY <1>4, <3>1, <4>1 DEF Gives
    <3>5. m = g + u
      BY <1>5, <1>6, <1>8, <3>1, <3>3, <3>4, UpToNext
    <3>6. u = ToDeliver(r[1], l, t) /\ u < r[1].amount
      BY <1>4, <2>2
    <3>7. Pace(Progressed(r, u, l, t), l, t, x, g + u)
      BY ONLY <1>9, <2>2, <3>6, r \in Seq(Job), l \in Levels, t \in Int, x \in Int, g \in Int,
              u \in Nat, ProgressedPace
    <3> QED
      BY <3>5, <3>7
  <2> QED
    BY <2>1, <2>2
<1>12. Progressed(r, u, l, t) \in Seq(Job)
  <2>1. r # <<>> => u < r[1].amount
    BY <1>4
  <2> QED
    BY <1>4, <2>1, ProgressedIs
<1>13. Pace(w, l, t, x, m)
  <2>1. CASE kind = "yard" /\ n # 0
    <3>1. Enough(l, t, x, m)
      BY <1>11 DEF Pace
    <3>2. w = Recalculate(Progressed(r, u, l, t), l, t)
      BY <1>4, <2>1
    <3> QED
      BY <1>12, <3>1, <3>2, RecalculatePace
  <2>2. CASE ~(kind = "yard" /\ n # 0)
    BY <1>4, <1>11, <2>2
  <2> QED
    BY <2>1, <2>2
<1> QED
  BY <1>2, <1>3, <1>10, <1>13

\* The queue and the book are in time.
Paced(q, l, t, x, b) == Pace(q, l, t, x, Worked(b))

(* A sum over a book. *)
LEMMA WorkedType ==
    ASSUME NEW b \in Seq(Entry)
    PROVE  Integral(DOMAIN b, GivenOf(b)) /\ Worked(b) \in Int
<1>1. IsFiniteSet(DOMAIN b)
  <2>1. DOMAIN b = 1..Len(b) /\ Len(b) \in Nat
    OBVIOUS
  <2> QED
    BY <2>1, FS_Interval
<1>2. \A o \in DOMAIN b : GivenOf(b)[o] \in Int
  BY EntryFields DEF GivenOf
<1>3. Integral(DOMAIN b, GivenOf(b))
  BY <1>1, <1>2 DEF Integral
<1> QED
  BY <1>3, SumType DEF Worked

(* A new order has had nothing. *)
LEMMA AppendWorked ==
    ASSUME NEW b \in Seq(Entry), NEW amount \in Nat
    PROVE  Worked(Append(b, NewEntry(amount))) = Worked(b)
<1>1. NewEntry(amount) \in Entry /\ NewEntry(amount).given = 0
  BY DEF NewEntry, Entry
<1>2. PICK c \in Seq(Entry) : c = Append(b, NewEntry(amount))
  BY <1>1, AppendIs
<1>3. /\ DOMAIN c = 1..Len(b) + 1 /\ \A i \in 1..Len(b) : c[i] = b[i]
      /\ c[Len(b) + 1] = NewEntry(amount)
  BY <1>1, <1>2, AppendIs
<1>4. PICK a \in Nat : a = Len(b) + 1
  OBVIOUS
<1>5. DOMAIN b = 1..Len(b) /\ Len(b) \in Nat /\ a \notin DOMAIN b /\ DOMAIN c = DOMAIN b \cup {a}
  BY <1>3, <1>4
<1>6. PICK f : f = GivenOf(b)
  OBVIOUS
<1>7. PICK h : h = GivenOf(c)
  OBVIOUS
<1>8. h[a] = 0
  BY <1>1, <1>3, <1>4, <1>5, <1>7 DEF GivenOf
<1>9. \A o \in DOMAIN b : h[o] = f[o]
  BY <1>3, <1>5, <1>6, <1>7 DEF GivenOf
<1>10. Integral(DOMAIN b, f) /\ SumOf(DOMAIN b, f) \in Int
  BY <1>6, WorkedType DEF Worked
<1>11. SumOf(DOMAIN c, h) = SumOf(DOMAIN b, f) + h[a]
  <2>1. h[a] \in Int
    BY <1>8
  <2>2. PICK S, T : S = DOMAIN b /\ T = DOMAIN c
    OBVIOUS
  <2>3. a \notin S /\ T = S \cup {a} /\ Integral(S, f) /\ \A o \in S : h[o] = f[o]
    BY <1>5, <1>9, <1>10, <2>2
  <2>4. SumOf(T, h) = SumOf(S, f) + h[a]
    BY ONLY <2>1, <2>3, SumAdd
  <2> QED
    BY <2>2, <2>4
<1> QED
  BY <1>2, <1>6, <1>7, <1>8, <1>10, <1>11 DEF Worked

(* A cancelled order keeps what it has had. *)
LEMMA ClosedWorked ==
    ASSUME NEW b \in Seq(Entry), NEW id \in DOMAIN b, NEW back \in Nat
    PROVE  Worked(Closed(b, id, back)) = Worked(b)
<1>1. PICK c : c = Closed(b, id, back)
  OBVIOUS
<1>2. DOMAIN c = DOMAIN b /\ \A o \in DOMAIN b : c[o].given = b[o].given
  <2>1. /\ DOMAIN c = DOMAIN b /\ c[id].given = b[id].given
        /\ \A o \in DOMAIN b : o # id => c[o] = b[o]
    BY <1>1, ClosedIs, ZenonT(30)
  <2>2. ASSUME NEW o \in DOMAIN b PROVE c[o].given = b[o].given
    <3>1. CASE o = id
      BY <2>1, <3>1
    <3>2. CASE o # id
      BY <2>1, <3>2
    <3> QED
      BY <3>1, <3>2
  <2> QED
    BY <2>1, <2>2
<1>3. PICK f : f = GivenOf(b)
  OBVIOUS
<1>4. PICK h : h = GivenOf(c)
  OBVIOUS
<1>5. \A o \in DOMAIN b : h[o] = f[o]
  BY <1>2, <1>3, <1>4 DEF GivenOf
<1>6. Integral(DOMAIN b, f)
  BY <1>3, WorkedType
<1>7. SumOf(DOMAIN b, h) = SumOf(DOMAIN b, f)
  BY ONLY <1>5, <1>6, SumSame
<1> QED
  BY <1>1, <1>2, <1>3, <1>4, <1>7 DEF Worked

-----------------------------------------------------------------------------
(* The pace of the operations. *)

OnPace == Paced(queue, level, now, boosted, book)

(* What a lemma about queues needs to know of the state. *)
LEMMA PaceFacts ==
    ASSUME Inv, OnPace
    PROVE  /\ now \in Int /\ level \in Levels /\ boosted \in Int
           /\ queue \in Seq(Job) /\ book \in Seq(Entry) /\ RowsTell(book, queue)
           /\ Worked(book) \in Int /\ Pace(queue, level, now, boosted, Worked(book))
  BY InvFacts, WorkedType DEF Inv, TypeOK, OnPace, Paced

(* A queue whose head is in place is rescheduled in time. *)
LEMMA RescheduledPace ==
    ASSUME NEW q \in Seq(Job), NEW l \in Levels, NEW t \in Int, NEW x \in Int, NEW G \in Int,
           Enough(l, t, x, G), q # <<>> => HeadPace(q[1], l, x, G)
    PROVE  Pace(RescheduledAfter(q, l, t), l, t, x, G)
<1>1. CASE kind = "barracks"
  <2>1. RescheduledAfter(q, l, t) = Sync(q, l, t)
    BY <1>1 DEF RescheduledAfter
  <2> QED
    BY <2>1, SyncKeepsPace
<1>2. CASE kind # "barracks"
  <2>1. RescheduledAfter(q, l, t) = Recalculate(q, l, t)
    BY <1>2 DEF RescheduledAfter
  <2> QED
    BY <2>1, RecalculatePace
<1> QED
  BY <1>1, <1>2

(* A new order. *)
LEMMA AppendedPace ==
    ASSUME NEW q \in Seq(Job), NEW l \in Levels, NEW t \in Int, NEW x \in Int, NEW G \in Int,
           Pace(q, l, t, x, G), NEW job \in Job, job.start = t,
           job.start + Duration(job.amount, l) <= job.finish
    PROVE  Pace(RescheduledAfter(Append(q, job), l, t), l, t, x, G)
<1>1. PICK r \in Seq(Job) : r = Append(q, job)
  BY AppendIs
<1>2. /\ Len(q) \in Nat /\ \A i \in 1..Len(q) : r[i] = q[i]
      /\ r[Len(q) + 1] = job
  BY <1>1, AppendIs
<1>3. Enough(l, t, x, G)
  BY DEF Pace
<1>4. HeadPace(r[1], l, x, G)
  <2>1. CASE q = <<>>
    <3>1. r[1] = job
      BY <1>2, <2>1
    <3>2. HeadPace(job, l, x, G)
      BY <1>3, FreshPace
    <3> QED
      BY <3>1, <3>2
  <2>2. CASE q # <<>>
    <3>1. r[1] = q[1]
      BY <1>2, <2>2
    <3> QED
      BY <2>2, <3>1 DEF Pace
  <2> QED
    BY <2>1, <2>2
<1> QED
  BY <1>1, <1>3, <1>4, RescheduledPace

(* An order that is taken out. *)
LEMMA RemovedPace ==
    ASSUME NEW q \in Seq(Job), NEW l \in Levels, NEW t \in Int, NEW x \in Int, NEW G \in Int,
           Pace(q, l, t, x, G), NEW i \in 1..Len(q)
    PROVE  Pace(RescheduledAfter(RemoveAt(q, i), l, t), l, t, x, G)
<1>1. PICK r \in Seq(Job) : r = RemoveAt(q, i)
  BY RemoveAtIs
<1>2. /\ Len(q) \in Nat /\ Len(r) = Len(q) - 1
      /\ \A k \in 1..Len(q) - 1 : r[k] = IF k < i THEN q[k] ELSE q[k + 1]
  <2>1. /\ Len(RemoveAt(q, i)) = Len(q) - 1
        /\ \A k \in 1..Len(q) - 1 : RemoveAt(q, i)[k] = IF k < i THEN q[k] ELSE q[k + 1]
    BY ONLY q \in Seq(Job), i \in 1..Len(q), RemoveAtIs
  <2>2. Len(q) \in Nat
    OBVIOUS
  <2> QED
    BY ONLY <1>1, <2>1, <2>2
<1>3. Enough(l, t, x, G)
  BY DEF Pace
<1>4. ASSUME r # <<>> PROVE HeadPace(r[1], l, x, G)
  <2>1. 1 \in 1..Len(q) - 1 /\ 1 \in 1..Len(q) /\ 2 \in 1..Len(q) /\ q # <<>> /\ 1 + 1 = 2
    BY <1>2, <1>4
  <2>2. PICK h \in Job, g \in Job : h = q[1] /\ g = q[2]
    BY <2>1
  <2>3. HeadPace(h, l, x, G)
    BY <2>1, <2>2 DEF Pace
  <2>4. CASE i # 1
    <3>1. r[1] = h
      BY <1>2, <2>1, <2>2, <2>4
    <3> QED
      BY <2>3, <3>1
  <2>5. CASE i = 1
    <3>1. r[1] = g
      BY <1>2, <2>1, <2>2, <2>5
    <3>2. PICK e \in Int : e = h.finish
      BY JobFields
    <3>3. Enough(l, e, x, G)
      BY <2>3, <3>2, HeadEnds
    <3>4. 2 - 1 = 1
      OBVIOUS
    <3>5. e <= g.start /\ g.start + Duration(g.amount, l) <= g.finish
      BY <2>1, <2>2, <3>2, <3>4 DEF Pace, Follows
    <3> QED
      BY <3>1, <3>3, <3>5, FreshPace
  <2> QED
    BY <2>4, <2>5
<1> QED
  BY <1>1, <1>3, <1>4, RescheduledPace

(* A pass over the queue as it is. *)
LEMMA FirstPassPace ==
    ASSUME Inv, OnPace
    PROVE  LET done == Finish(queue, level, now)
           IN  Paced(done.queue, level, now, boosted, Delivered(done))
<1>1. PICK done : done = Finish(queue, level, now)
  OBVIOUS
<1>2. PICK q \in Seq(Job) : q = queue
  BY InvFacts
<1>3. PICK b \in Seq(Entry) : b = book
  BY InvFacts
<1>4. Pace(done.queue, level, now, boosted, Worked(After(b, done.units, done.queue)))
  BY <1>1, <1>2, <1>3, PaceFacts, FinishPace
<1>5. Delivered(done) = After(b, done.units, done.queue)
  BY <1>3 DEF Delivered, After
<1> QED
  BY <1>1, <1>4, <1>5 DEF Paced

(* What happens before a queue is changed keeps the pace. *)
LEMMA BeforePace ==
    ASSUME Inv, OnPace
    PROVE  Paced(BeforeMutation.queue, level, now, boosted, Delivered(BeforeMutation))
<1>1. CASE kind = "barracks"
  <2>1. BeforeMutation = Finish(queue, level, now)
    BY <1>1 DEF BeforeMutation
  <2> QED
    BY <2>1, FirstPassPace
<1>2. CASE kind # "barracks"
  <2>1. /\ BeforeMutation.queue = queue
        /\ BeforeMutation.units = [o \in DOMAIN book |-> 0]
    BY <1>2 DEF BeforeMutation, Unfinished
  <2>2. PICK units \in [DOMAIN book -> Nat] : units = [o \in DOMAIN book |-> 0]
    OBVIOUS
  <2>3. Delivered(BeforeMutation) = After(book, units, queue)
    BY <2>1, <2>2 DEF Delivered, After
  <2>4. Books(book, queue, units)
    BY <2>2, PaceFacts DEF Books, RowsTell
  <2>5. PICK k \in Nat : k = 0
    OBVIOUS
  <2>6. \A o \in DOMAIN book : (\A i \in 1..k : queue[i].id # o) => units[o] = 0
    BY <2>2
  <2>7. Worked(After(book, units, queue)) = Worked(book)
    BY <2>4, <2>5, <2>6, UpToAll, UpToNone
  <2> QED
    BY <2>1, <2>3, <2>7 DEF OnPace, Paced
<1> QED
  BY <1>1, <1>2

(* Time that passes keeps the pace. *)
LEMMA TickPace ==
    ASSUME Inv, OnPace, Tick \/ UNCHANGED vars
    PROVE  OnPace'
<1>1. PICK q \in Seq(Job), G \in Int : q = queue /\ G = Worked(book)
  BY PaceFacts
<1>2. Pace(q, level, now, boosted, G) /\ now \in Int /\ boosted \in Int /\ level \in Levels
  BY <1>1, PaceFacts
<1>3. CASE Tick
  <2>1. Pace(q, level, now + 1, boosted, G)
    BY <1>2, LaterPace
  <2>2. now' = now + 1 /\ UNCHANGED <<kind, level, queue, book, stock, boosted>>
    BY <1>3 DEF Tick
  <2> QED
    BY <1>1, <2>1, <2>2 DEF OnPace, Paced
<1>4. CASE UNCHANGED vars
  BY <1>4 DEF vars, OnPace, Paced
<1> QED
  BY <1>3, <1>4

(* A new order keeps it. *)
LEMMA EnqueuePace ==
    ASSUME Inv, OnPace, NEW amount \in Amounts, Enqueue(amount)
    PROVE  OnPace'
<1> DEFINE before == BeforeMutation
           id == Len(book) + 1
           job == [id |-> id, amount |-> amount, start |-> now,
                   finish |-> now + Duration(amount, level)]
<1>1. /\ id <= MaxOrders
      /\ queue' = RescheduledAfter(Append(before.queue, job), level, now)
      /\ book' = Append(Delivered(before), NewEntry(amount))
      /\ UNCHANGED <<kind, now, level, boosted>>
  BY DEF Enqueue, NewEntry
<1>2. Paced(before.queue, level, now, boosted, Delivered(before))
  BY BeforePace
<1>3. KeptBy(book, queue, before, now)
  BY BeforeIs
<1> HIDE DEF before
<1>4. PICK b \in Seq(Entry) : b = Delivered(before)
  BY <1>3, KeptIs
<1>5. PICK q \in Seq(Job) : q = before.queue
  BY <1>3, KeptIs
<1>6. PICK G \in Int : G = Worked(b)
  BY WorkedType
<1>7. amount \in Nat \ {0} /\ now \in Int /\ level \in Levels /\ boosted \in Int
  BY UnitAssumption, PaceFacts
<1>8. job \in Job /\ job.start = now /\ job.start + Duration(job.amount, level) <= job.finish
  <2>1. PICK d \in Nat : d = Duration(amount, level)
    BY <1>7, DurationType
  <2>2. id \in 1..MaxOrders
    BY <1>1, InvFacts, UnitAssumption
  <2>3. now + d \in Int /\ now + d <= now + d
    BY <1>7
  <2> QED
    BY <1>7, <2>1, <2>2, <2>3 DEF Job
<1> HIDE DEF job, id
<1>9. Pace(q, level, now, boosted, G)
  BY <1>2, <1>4, <1>5, <1>6 DEF Paced
<1>10. Pace(RescheduledAfter(Append(q, job), level, now), level, now, boosted, G)
  BY <1>7, <1>8, <1>9, AppendedPace
<1>11. Worked(book') = G
  BY <1>1, <1>4, <1>6, <1>7, AppendWorked
<1> QED
  BY <1>1, <1>5, <1>10, <1>11 DEF OnPace, Paced

(* So does a cancelled one. *)
LEMMA CancelPace ==
    ASSUME Inv, OnPace, NEW id \in DOMAIN book, Cancel(id)
    PROVE  OnPace'
<1> DEFINE before == BeforeMutation
<1>1. PICK i \in DOMAIN before.queue :
        /\ queue' = RescheduledAfter(RemoveAt(before.queue, i), level, now)
        /\ book' = Closed(Delivered(before), id, book[id].size * Share(before.queue, i))
        /\ UNCHANGED <<kind, now, level, boosted>>
  BY DEF Cancel, Closed
<1>2. Paced(before.queue, level, now, boosted, Delivered(before))
  BY BeforePace
<1>3. KeptBy(book, queue, before, now)
  BY BeforeIs
<1> HIDE DEF before
<1>4. PICK b \in Seq(Entry) : b = Delivered(before) /\ DOMAIN b = DOMAIN book
  BY <1>3, KeptIs
<1>5. PICK q \in Seq(Job) : q = before.queue
  BY <1>3, KeptIs
<1>6. PICK G \in Int : G = Worked(b)
  BY WorkedType
<1>7. now \in Int /\ level \in Levels /\ boosted \in Int
  BY PaceFacts
<1>8. PICK back \in Nat : back = book[id].size * Share(q, i)
  <2>1. book[id].size \in Nat
    BY InvFacts, EntryFields
  <2>2. Share(q, i) \in {0, 1, 2}
    BY ShareIs
  <2> QED
    BY <2>1, <2>2
<1>9. i \in 1..Len(q)
  BY <1>5
<1>10. Pace(q, level, now, boosted, G)
  BY <1>2, <1>4, <1>5, <1>6 DEF Paced
<1>11. Pace(RescheduledAfter(RemoveAt(q, i), level, now), level, now, boosted, G)
  BY <1>7, <1>9, <1>10, RemovedPace
<1>12. Worked(book') = G
  BY <1>1, <1>4, <1>5, <1>6, <1>8, ClosedWorked
<1> QED
  BY <1>1, <1>5, <1>11, <1>12 DEF OnPace, Paced

(* So do two ships that change places. *)
LEMMA MovePace ==
    ASSUME Inv, OnPace, NEW i \in DOMAIN queue, Move(i)
    PROVE  OnPace'
<1>1. /\ kind = "yard" /\ i + 1 \in DOMAIN queue
      /\ queue' = Recalculate([queue EXCEPT ![i] = queue[i + 1], ![i + 1] = queue[i]], level, now)
      /\ UNCHANGED <<kind, now, level, book, stock, boosted>>
  BY DEF Move
<1>2. PICK q \in Seq(Job) : q = queue /\ i \in 1..Len(q) /\ i + 1 \in 1..Len(q)
  BY <1>1, InvFacts
<1>3. [q EXCEPT ![i] = q[i + 1], ![i + 1] = q[i]] \in Seq(Job)
  BY <1>2
<1>4. Pace(queue', level, now, boosted, Worked(book))
  BY <1>1, <1>2, <1>3, PaceFacts, RecalculatePace DEF Pace
<1> QED
  BY <1>1, <1>4 DEF OnPace, Paced

(* A page keeps it, with an upgrade or without. *)
LEMMA PagePace ==
    ASSUME Inv, OnPace, Page
    PROVE  OnPace'
<1>1. PICK upgrade \in BOOLEAN, view \in BOOLEAN :
        LET l == IF upgrade THEN level + 1 ELSE level
            done == Finish(IF upgrade /\ kind = "yard" THEN Sync(queue, l, now) ELSE queue, l, now)
        IN  /\ level' = l
            /\ queue' = IF view /\ kind = "yard" THEN Sync(done.queue, l, now) ELSE done.queue
            /\ book' = Delivered(done)
            /\ UNCHANGED <<kind, now, stock, boosted>>
  BY DEF Page
<1> DEFINE l == IF upgrade THEN level + 1 ELSE level
           q == IF upgrade /\ kind = "yard" THEN Sync(queue, l, now) ELSE queue
           done == Finish(q, l, now)
<1>2. /\ level' = l /\ book' = Delivered(done)
      /\ queue' = IF view /\ kind = "yard" THEN Sync(done.queue, l, now) ELSE done.queue
      /\ UNCHANGED <<kind, now, stock, boosted>>
  BY <1>1
<1>3. PICK b \in Seq(Entry), G \in Int : b = book /\ G = Worked(b)
  BY PaceFacts
<1>4. now \in Int /\ boosted \in Int /\ level \in Levels
  BY PaceFacts
<1>5. l \in Levels /\ Pace(queue, l, now, boosted, G)
  <2>1. PICK p \in Seq(Job) : p = queue
    BY PaceFacts
  <2>2. Pace(p, level, now, boosted, G)
    BY <1>3, <2>1, PaceFacts
  <2>3. Pace(p, level + 1, now, boosted, G) /\ level + 1 \in Levels
    BY <1>4, <2>2, LevelPace DEF Levels
  <2> QED
    BY <1>4, <2>1, <2>2, <2>3
<1> HIDE DEF l
<1>6. q \in Seq(Job) /\ Accounted(b, q) /\ Pace(q, l, now, boosted, G)
  <2>1. PICK p \in Seq(Job) : p = queue
    BY PaceFacts
  <2>2. Accounted(b, p) /\ Pace(p, l, now, boosted, G)
    BY <1>3, <1>5, <2>1, InvFacts
  <2>3. PICK z \in Seq(Job) : z = Sync(p, l, now)
    BY <1>4, <1>5, SyncIs
  <2>4. SameOrders(z, p)
    BY <1>4, <1>5, <2>3, SyncIs
  <2>5. Accounted(b, z)
    BY <2>2, <2>4, SameKeeps
  <2>6. Pace(z, l, now, boosted, G)
    BY <1>4, <1>5, <2>2, <2>3, SyncKeepsPace DEF Pace
  <2> QED
    BY <2>1, <2>2, <2>3, <2>5, <2>6
<1> HIDE DEF q
<1>7. Pace(done.queue, l, now, boosted, Worked(After(b, done.units, done.queue)))
  <2>1. DOMAIN b = DOMAIN book /\ RowsTell(b, q)
    BY <1>3, <1>6 DEF Accounted
  <2> QED
    BY <1>3, <1>4, <1>5, <1>6, <2>1, FinishPace
<1>8. KeptBy(b, q, done, now)
  BY <1>3, <1>4, <1>5, <1>6, FinishKeeps
<1> HIDE DEF done
<1>9. PICK d \in Seq(Job) : d = done.queue
  BY <1>8 DEF KeptBy
<1>10. Delivered(done) = After(b, done.units, d)
  BY <1>3, <1>9 DEF Delivered, After
<1>11. PICK H \in Int : H = Worked(After(b, done.units, d))
  BY <1>7, <1>9 DEF Pace, Enough
<1>12. Pace(d, l, now, boosted, H) /\ Worked(book') = H
  BY <1>2, <1>7, <1>9, <1>10, <1>11
<1>13. Pace(Sync(d, l, now), l, now, boosted, H)
  BY <1>4, <1>5, <1>12, SyncKeepsPace DEF Pace
<1>14. Pace(queue', l, now, boosted, H)
  BY <1>2, <1>9, <1>12, <1>13
<1> QED
  BY <1>2, <1>12, <1>14 DEF OnPace, Paced

(* So does the Timekeeper: the time it takes off the queue was bought. *)
LEMMA BoostPace ==
    ASSUME Inv, OnPace, NEW b \in Boosts, Boost(b)
    PROVE  OnPace'
<1>1. PICK shift \in Nat : BoostsBy(shift)
  BY BoostTurns
<1> DEFINE before == Finish(queue, level, now)
           p == Sync(before.queue, level, now)
           done == Finish(Shifted(p, shift), level, now)
<1>2. /\ boosted' = boosted + shift /\ UNCHANGED <<kind, now, level>>
      /\ queue' = Sync(done.queue, level, now)
      /\ book' = After(Delivered(before), done.units, done.queue)
  BY <1>1 DEF BoostsBy
<1>3. now \in Int /\ boosted \in Int /\ level \in Levels /\ boosted + shift \in Int
  BY PaceFacts
<1>4. KeptBy(book, queue, before, now)
  BY InvFacts, FinishKeeps
<1>5. Paced(before.queue, level, now, boosted, Delivered(before))
  BY FirstPassPace
<1> HIDE DEF before
<1>6. PICK r \in Seq(Job) : r = before.queue
  BY <1>4, KeptIs
<1>7. PICK a \in Seq(Entry) : a = Delivered(before) /\ DOMAIN a = DOMAIN book /\ Accounted(a, r)
  BY <1>4, <1>6, KeptIs
<1>8. PICK G \in Int : G = Worked(a)
  BY WorkedType
<1>9. Pace(r, level, now, boosted, G)
  BY <1>5, <1>6, <1>7, <1>8 DEF Paced
<1>10. p \in Seq(Job) /\ SameOrders(p, r) /\ Pace(p, level, now, boosted, G)
  <2>1. Enough(level, now, boosted, G) /\ (r # <<>> => HeadPace(r[1], level, boosted, G))
    BY <1>9 DEF Pace
  <2> QED
    BY <1>3, <1>6, <2>1, SyncIs, SyncKeepsPace
<1> HIDE DEF p
<1>11. PICK s \in Seq(Job) : s = Shifted(p, shift) /\ SameOrders(s, p)
  BY <1>10, ShiftedIs
<1>12. Pace(s, level, now, boosted + shift, G)
  BY <1>3, <1>10, <1>11, ShiftPace
<1>13. Accounted(a, p)
  BY <1>7, <1>10, SameKeeps
<1>14. Accounted(a, s)
  BY <1>10, <1>11, <1>13, SameKeeps
<1>15. done = Finish(s, level, now)
  BY <1>11
<1> HIDE DEF done
<1>16. KeptBy(a, s, done, now)
  BY <1>3, <1>7, <1>14, <1>15, FinishKeeps
<1>17. PICK z \in Seq(Job) : z = done.queue
  BY <1>16 DEF KeptBy
<1>18. Pace(z, level, now, boosted + shift, Worked(After(a, done.units, z)))
  <2>1. RowsTell(a, s)
    BY <1>14 DEF Accounted
  <2> QED
    BY <1>3, <1>7, <1>8, <1>12, <1>15, <1>17, <2>1, FinishPace
<1>19. PICK H \in Int : H = Worked(After(a, done.units, z))
  BY <1>18 DEF Pace, Enough
<1>20. Pace(Sync(z, level, now), level, now, boosted + shift, H)
  <2>1. /\ Enough(level, now, boosted + shift, H)
        /\ z # <<>> => HeadPace(z[1], level, boosted + shift, H)
    BY <1>18, <1>19 DEF Pace
  <2> QED
    BY <1>3, <2>1, SyncKeepsPace
<1>21. Worked(book') = H /\ queue' = Sync(z, level, now)
  BY <1>2, <1>7, <1>17, <1>19
<1> QED
  BY <1>2, <1>20, <1>21 DEF OnPace, Paced

(* Nothing was delivered yet. *)
LEMMA InitPace ==
    ASSUME Init
    PROVE  OnPace
<1>1. queue = <<>> /\ book = <<>> /\ now = 0 /\ boosted = 0 /\ level = 1
  BY DEF Init
<1>2. Worked(book) = 0
  <2>1. DOMAIN book = {}
    BY <1>1
  <2> QED
    BY <2>1, SumEmpty DEF Worked
<1>3. PICK z \in Int : z = 0
  OBVIOUS
<1>4. Enough(level, now, boosted, z)
  <2>1. z * Unit = 0 /\ 0 <= now + boosted /\ (now + boosted) * level = 0
    BY <1>1, <1>3, UnitAssumption
  <2> QED
    BY <2>1 DEF Enough
<1>5. Follows(queue, level)
  <2>1. Len(queue) = 0
    BY <1>1
  <2> QED
    BY <2>1 DEF Follows
<1> QED
  BY <1>1, <1>2, <1>3, <1>4, <1>5 DEF OnPace, Paced, Pace

(* Every step keeps the pace. *)
LEMMA StepPace ==
    ASSUME Inv, OnPace, [Next]_vars
    PROVE  OnPace'
<1>1. CASE Tick \/ UNCHANGED vars
  BY <1>1, TickPace
<1>2. CASE Page
  BY <1>2, PagePace
<1>3. ASSUME NEW amount \in Amounts, Enqueue(amount) PROVE OnPace'
  BY <1>3, EnqueuePace
<1>4. ASSUME NEW id \in DOMAIN book, Cancel(id) PROVE OnPace'
  BY <1>4, CancelPace
<1>5. ASSUME NEW i \in DOMAIN queue, Move(i) PROVE OnPace'
  BY <1>5, MovePace
<1>6. ASSUME NEW b \in Boosts, Boost(b) PROVE OnPace'
  BY <1>6, BoostPace
<1> QED
  BY <1>1, <1>2, <1>3, <1>4, <1>5, <1>6 DEF Next

(* On SQLite units take their time: however orders are added, moved, moved   *)
(* up by the Timekeeper and rescheduled, with whatever history is inferred   *)
(* of a row, all that was ever delivered fits in the batches of the time     *)
(* that has passed or was bought.                                            *)
THEOREM SqliteNoFasterThanTime == Spec => []Throughput
<1>1. Init => OnPace
  BY InitPace
<1>2. Inv /\ OnPace /\ [Next]_vars => OnPace'
  BY StepPace
<1>3. Inv /\ OnPace => Throughput
  <2> SUFFICES ASSUME Inv, OnPace PROVE Throughput
    OBVIOUS
  <2>1. SumOver(DOMAIN book, Given) = Worked(book)
    BY DEF SumOver, Given, Worked, SumOf, GivenOf
  <2>2. Worked(book) * Unit <= (now + boosted) * level
    BY DEF OnPace, Paced, Pace, Enough
  <2> QED
    BY <2>1, <2>2 DEF Throughput
<1> QED
  BY <1>1, <1>2, <1>3, AlwaysInv, PTL DEF Spec
=============================================================================
