-------------------------- MODULE QueueFinishProofs --------------------------
(***************************************************************************)
(* Proofs about concurrent finishers, for any number of them and any       *)
(* queue: on both databases every variable keeps its type; on SQLite a job *)
(* ends exactly once and no pass loses a level another has granted.        *)
(***************************************************************************)
EXTENDS QueueFinish, SetSums

-----------------------------------------------------------------------------
(* The inductive invariants. *)

Steps == {"idle", "begin", "head", "levels", "delete", "write",
          "derive", "serve", "remove", "commit"}

TxType ==
    [pc : Steps, second : BOOLEAN, holds : BOOLEAN, now : Nat, job : Nat,
     seen : Levels, memo : Levels, written : Levels,
     gone : SUBSET Jobs, granted : SUBSET Jobs, refunded : SUBSET Jobs,
     lost : SUBSET Jobs]

(* Who is past the read of a row has a job, who is past the levels has them. *)
HasRead(t) ==
    /\ t.pc \in {"levels", "delete", "write", "remove"} => t.job \in Jobs
    /\ t.pc \in {"delete", "write"} => t.seen \in [Buildings -> Nat]

TypeInv == TypeOK /\ \A f \in Finishers : HasRead(tx[f])

(* A transaction that is not open has done nothing.                          *)
Untouched(t) ==
    /\ t.gone = {} /\ t.granted = {} /\ t.refunded = {} /\ t.lost = {}
    /\ t.written = NoLevels

(* What an open transaction has deleted it has granted a level for, paid     *)
(* back or lost, but for the job it is about to grant.                       *)
Accounts(t) ==
    /\ t.gone \subseteq queue
    /\ t.pc = "write" => /\ t.job \notin t.granted /\ t.gone = t.granted \cup {t.job}
    /\ t.pc # "write" => /\ t.gone = t.granted \cup t.refunded \cup t.lost
                         /\ t.granted \cap t.refunded = {} /\ t.granted \cap t.lost = {}
                         /\ t.refunded \cap t.lost = {}
    /\ t.pc # "commit" => t.refunded = {}
    /\ t.pc \notin {"serve", "remove", "commit"} => t.lost = {}
    /\ t.pc \in {"levels", "delete", "remove"} => t.job \in queue \ t.gone

JobsOf(b) == {j \in Jobs : BuildingOf[j] = b}

Sees(t) == IF t.written = NoLevels THEN level ELSE t.written

(* The levels it sees are those granted before and by itself, and it adds to *)
(* no older ones.                                                            *)
LevelsAdd(t) ==
    /\ t.pc \in {"delete", "write"} => t.seen = Sees(t)
    /\ t.written = NoLevels => t.granted = {}
    /\ \A b \in Buildings : Sees(t)[b] = SumOf(JobsOf(b), Bump(credits, t.granted))

Consistent(f) ==
    IF Open(f) THEN Accounts(tx[f]) /\ LevelsAdd(tx[f]) ELSE Untouched(tx[f])

OneOpen == \A f, g \in Finishers : Open(f) /\ Open(g) => f = g

FinishInv ==
    /\ TypeInv /\ OneOpen /\ EndsOnce /\ NoLevelLost
    /\ \A f \in Finishers : Consistent(f)

-----------------------------------------------------------------------------
(* What the transaction of one finisher becomes. *)

Good(f, t) ==
    IF t.pc \in {"idle", "begin"} THEN Untouched(t)
    ELSE Accounts(t) /\ LevelsAdd(t) /\ \A g \in Finishers \ {f} : ~Open(g)

Moves(f) ==
    \E t \in TxType :
        /\ HasRead(t) /\ Set(f, t) /\ UNCHANGED <<clock, rows>>
        /\ ~Postgres /\ FinishInv => Good(f, t)

(* Types of the transaction and of what it sees. *)
LEMMA Current ==
    ASSUME TypeInv, NEW f \in Finishers
    PROVE  /\ tx[f] \in TxType /\ HasRead(tx[f]) /\ tx \in [Finishers -> TxType]
           /\ tx[f].pc \in Steps /\ tx[f].now \in Nat /\ tx[f].job \in Nat
           /\ tx[f].gone \in SUBSET Jobs /\ tx[f].granted \in SUBSET Jobs
           /\ tx[f].memo \in Levels /\ tx[f].written \in Levels /\ tx[f].second \in BOOLEAN
           /\ clock \in Nat /\ level \in [Buildings -> Nat] /\ queue \in SUBSET Jobs
           /\ Recalled(f) \in [Buildings -> Nat] /\ VisibleLevels(f) \in [Buildings -> Nat]
           /\ Recalled(f) \in Levels /\ NoLevels \in Levels /\ level \in Levels
<1>1. tx \in [Finishers -> TxType] /\ HasRead(tx[f]) /\ level \in [Buildings -> Nat]
      /\ clock \in Nat /\ queue \in SUBSET Jobs
  BY DEF TypeInv, TypeOK, TxType, Steps
<1>2. tx[f] \in TxType
  BY <1>1
<1>3. /\ tx[f].pc \in Steps /\ tx[f].now \in Nat /\ tx[f].job \in Nat
      /\ tx[f].gone \in SUBSET Jobs /\ tx[f].granted \in SUBSET Jobs
      /\ tx[f].memo \in Levels /\ tx[f].written \in Levels /\ tx[f].second \in BOOLEAN
  BY <1>2 DEF TxType
<1>4. Recalled(f) \in [Buildings -> Nat] /\ VisibleLevels(f) \in [Buildings -> Nat]
  BY <1>1, <1>3 DEF Recalled, VisibleLevels, Levels
<1> QED
  BY <1>1, <1>2, <1>3, <1>4 DEF Levels

(* What an open transaction on SQLite knows. *)
LEMMA Alone ==
    ASSUME FinishInv, NEW f \in Finishers
    PROVE  /\ Open(f) => /\ Accounts(tx[f]) /\ LevelsAdd(tx[f])
                         /\ \A g \in Finishers \ {f} : ~Open(g)
           /\ ~Open(f) => Untouched(tx[f])
  BY DEF FinishInv, Consistent, OneOpen

(* A request that only reads goes on with what it has done so far. *)
LEMMA GoesOn ==
    ASSUME FinishInv, NEW f \in Finishers, Open(f), NEW t \in TxType,
           t.gone = tx[f].gone, t.granted = tx[f].granted, t.refunded = tx[f].refunded /\ t.lost = tx[f].lost,
           t.written = tx[f].written,
           tx[f].pc \notin {"write", "commit"}, t.pc \notin {"idle", "begin", "write"},
           t.pc \in {"serve", "remove", "commit"} \/ tx[f].pc \notin {"serve", "remove"},
           t.pc = "delete" => t.seen = Sees(tx[f]),
           t.pc \in {"levels", "delete", "remove"} => t.job \in queue \ tx[f].gone
    PROVE  Good(f, t)
<1>1. Accounts(tx[f]) /\ LevelsAdd(tx[f]) /\ \A g \in Finishers \ {f} : ~Open(g)
  BY Alone
<1>2. Accounts(t)
  BY <1>1 DEF Accounts
<1>3. Sees(t) = Sees(tx[f])
  BY DEF Sees
<1>4. LevelsAdd(t)
  BY <1>1, <1>3 DEF LevelsAdd
<1> QED
  BY <1>1, <1>2, <1>4 DEF Good

(* After a pass a finisher serves its request or commits. *)
LEMMA AfterPassStep ==
    ASSUME NEW f \in Finishers
    PROVE  AfterPass(f) \in {"serve", "commit"}
  BY DEF AfterPass

(* An idle transaction has read and written nothing. *)
LEMMA NoTxFacts ==
    /\ NoTx \in TxType /\ HasRead(NoTx) /\ Untouched(NoTx) /\ NoTx.pc = "idle"
  BY DEF NoTx, TxType, Steps, HasRead, Untouched, Levels

(* Before a transaction. *)
LEMMA StartMoves ==
    ASSUME TypeInv, NEW f \in Finishers, Start(f)
    PROVE  Moves(f)
<1> DEFINE memo == IF f \in Cancels /\ Remembers(f) THEN level ELSE NoLevels
           t == [tx[f] EXCEPT !.pc = "begin", !.now = clock, !.memo = memo]
<1>1. tx[f] \in TxType /\ clock \in Nat /\ memo \in Levels
  BY Current
<1>2. Set(f, t) /\ UNCHANGED <<clock, rows>> /\ tx[f].pc = "idle"
  BY DEF Start
<1> HIDE DEF memo
<1>3. /\ t \in TxType /\ t.pc = "begin" /\ t.gone = tx[f].gone /\ t.granted = tx[f].granted
      /\ t.refunded = tx[f].refunded /\ t.lost = tx[f].lost /\ t.written = tx[f].written
  BY <1>1 DEF TxType, Steps
<1> HIDE DEF t
<1>4. FinishInv => Good(f, t)
  BY <1>2, <1>3, Alone DEF Good, Untouched, Open
<1> QED
  BY <1>2, <1>3, <1>4 DEF Moves, HasRead

(* The model's sum is the sum of SetSums. *)
LEMMA SumOverIs ==
    ASSUME NEW S, NEW f
    PROVE  SumOver(S, f) = SumOf(S, f)
  BY DEF SumOver, SumOf

(* Nothing granted, nothing credited. *)
LEMMA BumpNone ==
    ASSUME NEW c \in [Jobs -> Nat]
    PROVE  Bump(c, {}) = c
  BY DEF Bump

(* A begin. *)
LEMMA BeginMoves ==
    ASSUME TypeInv, NEW f \in Finishers, Begin(f)
    PROVE  Moves(f)
<1> DEFINE now == IF f \in Actions /\ ~tx[f].second THEN clock ELSE tx[f].now
           t == [tx[f] EXCEPT !.pc = "head", !.holds = Locks(f), !.now = now]
<1>1. tx[f] \in TxType /\ now \in Nat /\ Locks(f) \in BOOLEAN
  BY Current DEF Locks
<1>2. Set(f, t) /\ UNCHANGED <<clock, rows>> /\ tx[f].pc = "begin" /\ CanBegin(f)
  BY DEF Begin
<1> HIDE DEF now
<1>3. /\ t \in TxType /\ t.pc = "head" /\ t.gone = tx[f].gone /\ t.granted = tx[f].granted
      /\ t.refunded = tx[f].refunded /\ t.lost = tx[f].lost /\ t.written = tx[f].written
  BY <1>1 DEF TxType, Steps
<1> HIDE DEF t
<1>4. ASSUME ~Postgres, FinishInv PROVE Good(f, t)
  <2>1. Untouched(t) /\ \A g \in Finishers : ~Open(g)
    BY <1>2, <1>3, <1>4, Alone DEF Untouched, Open, CanBegin
  <2>2. Accounts(t)
    BY <1>3, <2>1 DEF Untouched, Accounts
  <2>3. credits \in [Jobs -> Nat] /\ \A b \in Buildings : level[b] = SumOf(JobsOf(b), credits)
    BY <1>4, SumOverIs DEF FinishInv, TypeInv, TypeOK, NoLevelLost, JobsOf
  <2>4. LevelsAdd(t)
    BY <1>3, <2>1, <2>3, BumpNone DEF Untouched, LevelsAdd, Sees
  <2> QED
    BY <1>3, <2>1, <2>2, <2>4 DEF Good
<1> QED
  BY <1>2, <1>3, <1>4 DEF Moves, HasRead

-----------------------------------------------------------------------------
(* The pass. *)

(* The read of the head. *)
LEMMA ReadHeadMoves ==
    ASSUME TypeInv, NEW f \in Finishers, ReadHead(f)
    PROVE  Moves(f)
<1>1. PICK j \in VisibleQueue(f) : Set(f, [tx[f] EXCEPT !.pc = "levels", !.job = j])
  BY DEF ReadHead
<1> DEFINE t == [tx[f] EXCEPT !.pc = "levels", !.job = j]
<1>2. tx[f] \in TxType /\ j \in Jobs /\ j \in Nat /\ j \in queue \ tx[f].gone
  BY <1>1, Current DEF VisibleQueue, Jobs
<1>3. Set(f, t) /\ UNCHANGED <<clock, rows>> /\ tx[f].pc = "head"
  BY <1>1 DEF ReadHead
<1>4. /\ t \in TxType /\ t.pc = "levels" /\ t.gone = tx[f].gone /\ t.granted = tx[f].granted
      /\ t.refunded = tx[f].refunded /\ t.lost = tx[f].lost /\ t.written = tx[f].written /\ t.job = j
  BY <1>2 DEF TxType, Steps
<1> HIDE DEF t
<1>5. FinishInv => Good(f, t)
  BY <1>2, <1>3, <1>4, GoesOn DEF Open
<1> QED
  BY <1>2, <1>3, <1>4, <1>5 DEF Moves, HasRead

(* A step that only moves on. *)
LEMMA StepMoves ==
    ASSUME TypeInv, NEW f \in Finishers, NEW pc \in {"derive", "serve", "commit"},
           tx[f].pc \in {"head", "derive"} \/ (pc = "commit" /\ tx[f].pc = "serve"),
           Set(f, [tx[f] EXCEPT !.pc = pc]), UNCHANGED <<clock, rows>>
    PROVE  Moves(f)
<1> DEFINE t == [tx[f] EXCEPT !.pc = pc]
<1>1. tx[f] \in TxType
  BY Current
<1>2. /\ t \in TxType /\ t.pc = pc /\ t.gone = tx[f].gone /\ t.granted = tx[f].granted
      /\ t.refunded = tx[f].refunded /\ t.lost = tx[f].lost /\ t.written = tx[f].written
  BY <1>1 DEF TxType, Steps
<1>3. Set(f, t)
  OBVIOUS
<1> HIDE DEF t
<1>4. FinishInv => Good(f, t)
  BY <1>2, GoesOn DEF Open
<1> QED
  BY <1>2, <1>3, <1>4 DEF Moves, HasRead

(* The recalculation after a delivery, or its failure. *)
LEMMA DeriveMoves ==
    ASSUME TypeInv, NEW f \in Finishers, DeriveState(f)
    PROVE  Moves(f)
<1> DEFINE memo == IF Remembers(f) THEN Recalled(f) ELSE NoLevels
           t == [tx[f] EXCEPT !.pc = AfterPass(f), !.holds = TRUE, !.memo = memo]
<1>1. tx[f] \in TxType /\ memo \in Levels /\ AfterPass(f) \in {"serve", "commit"}
  BY Current, AfterPassStep
<1>2. Set(f, t) /\ UNCHANGED <<clock, rows>> /\ tx[f].pc = "derive"
  BY DEF DeriveState
<1> HIDE DEF memo
<1>3. /\ t \in TxType /\ t.pc \in {"serve", "commit"}
      /\ t.gone = tx[f].gone /\ t.granted = tx[f].granted
      /\ t.refunded = tx[f].refunded /\ t.lost = tx[f].lost /\ t.written = tx[f].written
  BY <1>1 DEF TxType, Steps
<1> HIDE DEF t
<1>4. FinishInv => Good(f, t)
  BY <1>2, <1>3, GoesOn DEF Open
<1> QED
  BY <1>2, <1>3, <1>4 DEF Moves, HasRead

(* The read of the levels. *)
LEMMA ReadLevelsMoves ==
    ASSUME TypeInv, NEW f \in Finishers, ReadLevels(f)
    PROVE  Moves(f)
<1> DEFINE memo == IF Remembers(f) THEN Recalled(f) ELSE NoLevels
           seen == Recalled(f)
           t == [tx[f] EXCEPT !.pc = "delete", !.seen = seen, !.memo = memo]
<1>1. tx[f] \in TxType /\ memo \in Levels /\ seen \in [Buildings -> Nat] /\ seen \in Levels
  BY Current
<1>2. Set(f, t) /\ UNCHANGED <<clock, rows>> /\ tx[f].pc = "levels"
  BY DEF ReadLevels
<1>3. ~Postgres => seen = Sees(tx[f])
  BY DEF Recalled, Remembers, VisibleLevels, Sees
<1>4. tx[f].job \in Jobs
  BY <1>2, Current DEF HasRead
<1> HIDE DEF memo, seen
<1>5. /\ t \in TxType /\ t.pc = "delete" /\ t.gone = tx[f].gone /\ t.granted = tx[f].granted
      /\ t.refunded = tx[f].refunded /\ t.lost = tx[f].lost /\ t.written = tx[f].written
      /\ t.job = tx[f].job /\ t.seen = seen
  BY <1>1 DEF TxType, Steps
<1> HIDE DEF t
<1>6. ASSUME ~Postgres, FinishInv PROVE Good(f, t)
  <2>1. Open(f) /\ t.job \in queue \ tx[f].gone
    BY <1>2, <1>5, <1>6, Alone DEF Open, Accounts
  <2> QED
    BY <1>2, <1>3, <1>5, <1>6, <2>1, GoesOn
<1> QED
  BY <1>1, <1>2, <1>4, <1>5, <1>6 DEF Moves, HasRead

(* The deletion of the head. *)
LEMMA DeleteMoves ==
    ASSUME TypeInv, NEW f \in Finishers, DeleteJob(f)
    PROVE  Moves(f)
<1> DEFINE gone == tx[f].gone \cup ({tx[f].job} \cap queue)
           t == [tx[f] EXCEPT !.pc = "write", !.gone = gone]
<1>1. tx[f] \in TxType /\ gone \in SUBSET Jobs
  BY Current
<1>2. Set(f, t) /\ UNCHANGED <<clock, rows>> /\ tx[f].pc = "delete"
  BY DEF DeleteJob
<1>3. tx[f].job \in Jobs /\ tx[f].seen \in [Buildings -> Nat]
  BY <1>2, Current DEF HasRead
<1>4. tx[f].job \in queue => gone = tx[f].gone \cup {tx[f].job}
  OBVIOUS
<1> HIDE DEF gone
<1>5. /\ t \in TxType /\ t.pc = "write" /\ t.gone = gone /\ t.granted = tx[f].granted
      /\ t.refunded = tx[f].refunded /\ t.lost = tx[f].lost /\ t.written = tx[f].written
      /\ t.job = tx[f].job /\ t.seen = tx[f].seen
  BY <1>1 DEF TxType, Steps
<1> HIDE DEF t
<1>6. ASSUME FinishInv PROVE Good(f, t)
  <2>1. Accounts(tx[f]) /\ LevelsAdd(tx[f]) /\ \A g \in Finishers \ {f} : ~Open(g)
    BY <1>2, <1>6, Alone DEF Open
  <2>2. Accounts(t)
    BY <1>2, <1>4, <1>5, <2>1 DEF Accounts
  <2>3. LevelsAdd(t)
    BY <1>2, <1>5, <2>1 DEF LevelsAdd, Sees
  <2> QED
    BY <1>5, <2>1, <2>2, <2>3 DEF Good
<1> QED
  BY <1>2, <1>3, <1>5, <1>6 DEF Moves, HasRead

(* Sums over the jobs of a building are sums of integers. *)
LEMMA BumpFacts ==
    ASSUME NEW b, NEW c \in [Jobs -> Nat], NEW S
    PROVE  Integral(JobsOf(b), Bump(c, S)) /\ Bump(c, S) \in [Jobs -> Nat]
<1>1. IsFiniteSet(Jobs)
  BY JobsAssumption, FS_Interval DEF Jobs
<1>2. IsFiniteSet(JobsOf(b))
  BY <1>1, FS_Subset DEF JobsOf
<1> QED
  BY <1>2 DEF Integral, JobsOf, Bump

(* One level granted more for a job raises the sum of its building by one,   *)
(* and no other.                                                             *)
LEMMA BumpOneMore ==
    ASSUME NEW c \in [Jobs -> Nat], NEW S, NEW j \in Jobs, j \notin S, NEW b
    PROVE  SumOf(JobsOf(b), Bump(c, S \cup {j}))
             = SumOf(JobsOf(b), Bump(c, S)) + (IF b = BuildingOf[j] THEN 1 ELSE 0)
<1> DEFINE T == S \cup {j}
           old == Bump(c, S)
           new == Bump(c, T)
<1>1. Integral(JobsOf(b), old) /\ SumOf(JobsOf(b), old) \in Int
  BY BumpFacts, SumType
<1>2. new[j] = old[j] + 1 /\ \A i \in Jobs \ {j} : new[i] = old[i]
  BY DEF Bump
<1>3. (j \in JobsOf(b) <=> b = BuildingOf[j]) /\ JobsOf(b) \subseteq Jobs
  BY DEF JobsOf
<1> HIDE DEF T, old, new
<1>4. CASE b = BuildingOf[j]
  <2>1. \A i \in JobsOf(b) \ {j} : new[i] = old[i]
    BY <1>2, <1>3
  <2>2. SumOf(JobsOf(b), new) = SumOf(JobsOf(b), old) + 1
    BY <1>1, <1>2, <1>3, <1>4, <2>1, SumAfter
  <2> QED
    BY <1>4, <2>2 DEF old, new, T
<1>5. CASE b # BuildingOf[j]
  <2>1. \A i \in JobsOf(b) : new[i] = old[i]
    BY <1>2, <1>3, <1>5
  <2>2. SumOf(JobsOf(b), new) = SumOf(JobsOf(b), old) + 0
    BY <1>1, <2>1, SumSame
  <2> QED
    BY <1>5, <2>2 DEF old, new, T
<1> QED
  BY <1>4, <1>5

(* The write of the levels, which grants the head. *)
LEMMA WriteLevelsMoves ==
    ASSUME TypeInv, NEW f \in Finishers, WriteLevels(f)
    PROVE  Moves(f)
<1> DEFINE j == tx[f].job
           written == [tx[f].seen EXCEPT ![BuildingOf[j]] = @ + 1]
           granted == tx[f].granted \cup {j}
           t == [tx[f] EXCEPT !.pc = "head", !.written = written, !.memo = NoLevels,
                              !.granted = granted]
<1>1. Set(f, t) /\ UNCHANGED <<clock, rows>> /\ tx[f].pc = "write"
  BY DEF WriteLevels
<1>2. /\ tx[f] \in TxType /\ j \in Jobs /\ BuildingOf[j] \in Buildings
      /\ tx[f].seen \in [Buildings -> Nat] /\ tx[f].granted \in SUBSET Jobs
  BY <1>1, Current, JobsAssumption DEF HasRead
<1>3. /\ written \in [Buildings -> Nat] /\ written \in Levels /\ NoLevels \in Levels
      /\ granted \in SUBSET Jobs /\ written # NoLevels
      /\ \A b \in Buildings :
           written[b] = tx[f].seen[b] + (IF b = BuildingOf[j] THEN 1 ELSE 0)
  BY <1>2, JobsAssumption DEF Levels
<1> HIDE DEF written
<1>4. granted \subseteq Jobs
  BY <1>3
<1> HIDE DEF granted
<1>5. /\ t \in TxType /\ t.pc = "head" /\ t.gone = tx[f].gone /\ t.granted = granted
      /\ t.refunded = tx[f].refunded /\ t.lost = tx[f].lost /\ t.written = written
  BY <1>2, <1>3, <1>4 DEF TxType, Steps
<1> HIDE DEF t
<1>6. ASSUME FinishInv PROVE Good(f, t)
  <2>1. Accounts(tx[f]) /\ LevelsAdd(tx[f]) /\ \A g \in Finishers \ {f} : ~Open(g)
    BY <1>1, <1>6, Alone DEF Open
  <2>2. Accounts(t)
    BY <1>1, <1>5, <2>1 DEF Accounts, granted
  <2>3. credits \in [Jobs -> Nat] /\ tx[f].seen = Sees(tx[f]) /\ j \notin tx[f].granted
    BY <1>1, <1>6, <2>1 DEF FinishInv, TypeInv, TypeOK, LevelsAdd, Accounts
  <2>4. ASSUME NEW b \in Buildings
        PROVE  written[b] = SumOf(JobsOf(b), Bump(credits, granted))
    <3>1. tx[f].seen[b] = SumOf(JobsOf(b), Bump(credits, tx[f].granted))
      BY <2>1, <2>3 DEF LevelsAdd
    <3>2. SumOf(JobsOf(b), Bump(credits, tx[f].granted \cup {j}))
            = SumOf(JobsOf(b), Bump(credits, tx[f].granted))
                + (IF b = BuildingOf[j] THEN 1 ELSE 0)
      <4> HIDE DEF j
      <4> QED
        BY <1>2, <2>3, BumpOneMore
    <3> QED
      BY <1>3, <3>1, <3>2 DEF granted
  <2>5. LevelsAdd(t)
    BY <1>3, <1>5, <2>4 DEF LevelsAdd, Sees
  <2> QED
    BY <1>5, <2>1, <2>2, <2>5 DEF Good
<1> QED
  BY <1>1, <1>5, <1>6 DEF Moves, HasRead

(* What the transaction had done is undone where it was a savepoint.         *)
LEMMA StepFailsMoves ==
    ASSUME TypeInv, NEW f \in Finishers, StepFails(f)
    PROVE  Moves(f)
<1>1. AfterPass(f) \in {"serve", "commit"} /\ UNCHANGED <<clock, rows>>
  BY AfterPassStep DEF StepFails
<1>2. CASE ~Postgres
  <2> DEFINE missing == tx[f].gone \ tx[f].granted
             t == [tx[f] EXCEPT !.pc = AfterPass(f), !.lost = missing]
  <2>1. tx[f].pc \in {"levels", "delete", "write"} /\ Set(f, t)
    BY <1>2 DEF StepFails
  <2>2. tx[f] \in TxType /\ missing \in SUBSET Jobs
    BY Current
  <2>3. missing = tx[f].gone \ tx[f].granted
    OBVIOUS
  <2> HIDE DEF missing
  <2>4. /\ t \in TxType /\ t.pc \in {"serve", "commit"}
        /\ t.gone = tx[f].gone /\ t.granted = tx[f].granted
        /\ t.refunded = tx[f].refunded /\ t.lost = missing /\ t.written = tx[f].written
    BY <1>1, <2>2 DEF TxType, Steps
  <2> HIDE DEF t
  <2>5. ASSUME FinishInv PROVE Good(f, t)
    <3>1. Accounts(tx[f]) /\ LevelsAdd(tx[f]) /\ \A g \in Finishers \ {f} : ~Open(g)
      BY <2>1, <2>5, Alone DEF Open
    <3>2. Accounts(t)
      BY <2>1, <2>3, <2>4, <3>1 DEF Accounts
    <3>3. LevelsAdd(t)
      BY <2>4, <3>1 DEF LevelsAdd, Sees
    <3> QED
      BY <2>4, <3>1, <3>2, <3>3 DEF Good
  <2> QED
    BY <1>1, <2>1, <2>4, <2>5 DEF Moves, HasRead
<1>3. CASE Postgres
  <2> DEFINE t == [tx[f] EXCEPT !.pc = AfterPass(f), !.gone = {}, !.granted = {},
                                !.written = NoLevels]
  <2>1. Set(f, t)
    BY <1>3 DEF StepFails
  <2>2. tx[f] \in TxType /\ NoLevels \in Levels
    BY Current
  <2>3. t \in TxType /\ t.pc \in {"serve", "commit"}
    BY <1>1, <2>2 DEF TxType, Steps
  <2> HIDE DEF t
  <2> QED
    BY <1>1, <1>3, <2>1, <2>3 DEF Moves, HasRead
<1> QED
  BY <1>2, <1>3

-----------------------------------------------------------------------------
(* The request. *)

(* A rejected order, or a job to cancel that is gone. *)
LEMMA RollBackMoves ==
    ASSUME TypeInv, NEW f \in Finishers, RejectOrder(f) \/ JobNotFound(f)
    PROVE  Moves(f)
<1>1. UNCHANGED <<clock, rows>> /\ \E memo \in Levels : RollBack(f, memo)
  BY Current DEF RejectOrder, JobNotFound
<1>2. PICK memo \in Levels : RollBack(f, memo)
  BY <1>1
<1> DEFINE t == [NoTx EXCEPT !.pc = "begin", !.second = TRUE, !.now = clock, !.memo = memo]
<1>3. Set(f, t)
  BY <1>2 DEF RollBack
<1>4. clock \in Nat /\ NoLevels \in Levels
  BY Current
<1>5. /\ t \in TxType /\ t.pc = "begin" /\ t.gone = {} /\ t.granted = {}
      /\ t.refunded = {} /\ t.lost = {} /\ t.written = NoLevels
  BY <1>4 DEF NoTx, TxType, Steps
<1> HIDE DEF t
<1>6. Good(f, t)
  BY <1>5 DEF Good, Untouched
<1> QED
  BY <1>1, <1>3, <1>5, <1>6 DEF Moves, HasRead

(* The read of the job to cancel. *)
LEMMA FindJobMoves ==
    ASSUME TypeInv, NEW f \in Finishers, FindJob(f)
    PROVE  Moves(f)
<1>1. PICK j \in VisibleQueue(f) : Set(f, [tx[f] EXCEPT !.pc = "remove", !.job = j])
  BY DEF FindJob
<1> DEFINE t == [tx[f] EXCEPT !.pc = "remove", !.job = j]
<1>2. tx[f] \in TxType /\ j \in Jobs /\ j \in Nat /\ j \in queue \ tx[f].gone
  BY <1>1, Current DEF VisibleQueue, Jobs
<1>3. Set(f, t) /\ UNCHANGED <<clock, rows>> /\ tx[f].pc = "serve"
  BY <1>1 DEF FindJob
<1>4. /\ t \in TxType /\ t.pc = "remove" /\ t.gone = tx[f].gone /\ t.granted = tx[f].granted
      /\ t.refunded = tx[f].refunded /\ t.lost = tx[f].lost /\ t.written = tx[f].written /\ t.job = j
  BY <1>2 DEF TxType, Steps
<1> HIDE DEF t
<1>5. FinishInv => Good(f, t)
  BY <1>2, <1>3, <1>4, GoesOn DEF Open
<1> QED
  BY <1>2, <1>3, <1>4, <1>5 DEF Moves, HasRead

(* The deletion of a cancelled job, with its refund. *)
LEMMA RemoveJobMoves ==
    ASSUME TypeInv, NEW f \in Finishers, RemoveJob(f)
    PROVE  Moves(f)
<1> DEFINE j == tx[f].job
           gone == tx[f].gone \cup ({j} \cap queue)
           refunded == {j}
           t == [tx[f] EXCEPT !.pc = "commit", !.gone = gone, !.refunded = refunded]
<1>1. Set(f, t) /\ UNCHANGED <<clock, rows>> /\ tx[f].pc = "remove"
  BY DEF RemoveJob
<1>2. tx[f] \in TxType /\ j \in Jobs /\ gone \in SUBSET Jobs /\ refunded \in SUBSET Jobs
  BY <1>1, Current DEF HasRead
<1>3. (j \in queue => gone = tx[f].gone \cup {j}) /\ refunded = {j}
  OBVIOUS
<1> HIDE DEF gone, refunded
<1>4. /\ t \in TxType /\ t.pc = "commit" /\ t.gone = gone /\ t.granted = tx[f].granted
      /\ t.refunded = refunded /\ t.lost = tx[f].lost /\ t.written = tx[f].written
  BY <1>2 DEF TxType, Steps
<1> HIDE DEF t
<1>5. ASSUME FinishInv PROVE Good(f, t)
  <2>1. Accounts(tx[f]) /\ LevelsAdd(tx[f]) /\ \A g \in Finishers \ {f} : ~Open(g)
    BY <1>1, <1>5, Alone DEF Open
  <2>2. Accounts(t)
    <3>1. /\ tx[f].gone \subseteq queue /\ j \in queue \ tx[f].gone
          /\ tx[f].gone = tx[f].granted \cup tx[f].lost /\ tx[f].granted \cap tx[f].lost = {}
      BY <1>1, <2>1 DEF Accounts
    <3> HIDE DEF j
    <3>2. gone = tx[f].granted \cup {j} \cup tx[f].lost
      BY <1>3, <3>1
    <3>3. t.gone \subseteq queue /\ t.granted \cap t.refunded = {} /\ t.refunded \cap t.lost = {}
      BY <1>3, <1>4, <3>1, <3>2
    <3>4. t.gone = t.granted \cup t.refunded \cup t.lost /\ t.granted \cap t.lost = {}
      BY <1>3, <1>4, <3>1, <3>2
    <3> QED
      BY <1>4, <3>3, <3>4 DEF Accounts
  <2>3. LevelsAdd(t)
    BY <1>1, <1>4, <2>1 DEF LevelsAdd, Sees
  <2> QED
    BY <1>4, <2>1, <2>2, <2>3 DEF Good
<1> QED
  BY <1>1, <1>4, <1>5 DEF Moves, HasRead

(* A rollback at any statement. *)
LEMMA AbortMoves ==
    ASSUME TypeInv, NEW f \in Finishers, Abort(f)
    PROVE  Moves(f)
<1>1. Set(f, NoTx) /\ UNCHANGED <<clock, rows>>
  BY DEF Abort, Set
<1>2. Good(f, NoTx)
  BY NoTxFacts DEF Good
<1> QED
  BY <1>1, <1>2, NoTxFacts DEF Moves

-----------------------------------------------------------------------------
(* Every step keeps the types. *)

(* What a step that sets its transaction leaves of the others. *)
LEMMA SetEffect ==
    ASSUME TypeInv, NEW f \in Finishers, NEW t \in TxType, Set(f, t)
    PROVE  /\ tx' \in [Finishers -> TxType] /\ tx'[f] = t
           /\ \A g \in Finishers : g # f => tx'[g] = tx[g]
  BY Current DEF Set

(* A move keeps the types. *)
LEMMA MovesType ==
    ASSUME TypeInv, NEW f \in Finishers, Moves(f)
    PROVE  TypeInv'
<1>1. PICK t \in TxType : HasRead(t) /\ Set(f, t) /\ UNCHANGED <<clock, rows>>
  BY DEF Moves
<1>2. tx' \in [Finishers -> TxType] /\ tx'[f] = t /\ \A g \in Finishers : g # f => tx'[g] = tx[g]
  BY <1>1, SetEffect
<1>3. UNCHANGED <<clock, level, queue, credits, refunds, lost>>
  BY <1>1 DEF rows
<1>4. TypeOK'
  BY <1>2, <1>3 DEF TypeInv, TypeOK, TxType, Steps
<1>5. \A g \in Finishers : HasRead(tx'[g])
  BY <1>1, <1>2 DEF TypeInv
<1> QED
  BY <1>4, <1>5 DEF TypeInv

(* A commit keeps the types. *)
LEMMA CommitType ==
    ASSUME TypeInv, NEW f \in Finishers, Commit(f)
    PROVE  TypeInv'
<1>1. /\ level' = VisibleLevels(f) /\ queue' = VisibleQueue(f) /\ clock' = clock
      /\ credits' = Bump(credits, tx[f].granted) /\ refunds' = Bump(refunds, tx[f].refunded)
      /\ lost' = Bump(lost, tx[f].lost) /\ Set(f, NoTx)
  BY DEF Commit, Set
<1>2. tx' \in [Finishers -> TxType] /\ tx'[f] = NoTx
      /\ \A g \in Finishers : g # f => tx'[g] = tx[g]
  BY <1>1, SetEffect, NoTxFacts
<1>3. level' \in [Buildings -> Nat] /\ queue' \in SUBSET Jobs
  BY <1>1, Current DEF VisibleQueue
<1>4. credits' \in [Jobs -> Nat] /\ refunds' \in [Jobs -> Nat] /\ lost' \in [Jobs -> Nat]
  BY <1>1 DEF TypeInv, TypeOK, Bump
<1>5. TypeOK'
  BY <1>1, <1>2, <1>3, <1>4 DEF TypeInv, TypeOK, TxType, Steps
<1>6. \A g \in Finishers : HasRead(tx'[g])
  BY <1>2, NoTxFacts DEF TypeInv
<1> QED
  BY <1>5, <1>6 DEF TypeInv

(* Every statement but a commit is a move.                                   *)
LEMMA FinishMoves ==
    ASSUME TypeInv, NEW f \in Finishers, Finish(f)
    PROVE  Moves(f) \/ Commit(f)
<1>1. CASE LoopEnds(f) \/ DeriveFails(f) \/ PlaceOrder(f)
  <2>1. AfterPass(f) \in {"derive", "serve", "commit"}
    BY AfterPassStep
  <2>2. PICK pc \in {"derive", "serve", "commit"} : Set(f, [tx[f] EXCEPT !.pc = pc])
    BY <1>1, <2>1 DEF LoopEnds, DeriveFails, PlaceOrder
  <2>3. UNCHANGED <<clock, rows>>
    BY <1>1 DEF LoopEnds, DeriveFails, PlaceOrder
  <2>4. ASSUME tx[f].pc \in {"head", "derive"} PROVE Moves(f)
    <3>1. tx[f].pc \in {"head", "derive"} \/ (pc = "commit" /\ tx[f].pc = "serve")
      BY <2>4
    <3> QED
      BY <2>2, <2>3, <3>1, StepMoves
  <2>5. CASE PlaceOrder(f)
    <3>1. tx[f].pc = "serve" /\ Set(f, [tx[f] EXCEPT !.pc = "commit"])
      BY <2>5 DEF PlaceOrder
    <3> QED
      BY <2>3, <3>1, StepMoves
  <2>6. CASE LoopEnds(f) \/ DeriveFails(f)
    BY <2>4, <2>6 DEF LoopEnds, DeriveFails
  <2> QED
    BY <1>1, <2>5, <2>6
<1> QED
  BY <1>1, StartMoves, BeginMoves, ReadHeadMoves, ReadLevelsMoves, DeleteMoves,
     WriteLevelsMoves, StepFailsMoves, DeriveMoves, RollBackMoves, FindJobMoves,
     RemoveJobMoves, AbortMoves DEF Finish

(* The types hold at the start. *)
LEMMA InitType == Init => TypeInv
<1> SUFFICES ASSUME Init PROVE TypeInv
  OBVIOUS
<1>1. tx \in [Finishers -> TxType] /\ \A f \in Finishers : tx[f] = NoTx
  BY NoTxFacts DEF Init
<1> QED
  BY <1>1, NoTxFacts DEF Init, TypeInv, TypeOK, TxType, Steps

(* Every step keeps the types, on both databases. *)
LEMMA StepType ==
    ASSUME TypeInv, [Next]_vars
    PROVE  TypeInv'
<1>1. CASE UNCHANGED vars
  BY <1>1 DEF vars, TypeInv, TypeOK, HasRead
<1>2. CASE Tick
  BY <1>2 DEF Tick, TypeInv, TypeOK, HasRead
<1>3. ASSUME NEW f \in Finishers, Finish(f) PROVE TypeInv'
  BY <1>3, FinishMoves, MovesType, CommitType
<1> QED
  BY <1>1, <1>2, <1>3 DEF Next

(* On both databases, in every interleaving of the statements, every         *)
(* variable keeps its type: no level and no count becomes negative, no       *)
(* transaction writes levels it never read.                                  *)
THEOREM TypeCorrect == Spec => []TypeOK
<1>1. Init => TypeInv
  BY InitType
<1>2. TypeInv /\ [Next]_vars => TypeInv'
  BY StepType
<1>3. TypeInv => TypeOK
  BY DEF TypeInv
<1> QED
  BY <1>1, <1>2, <1>3, PTL DEF Spec

-----------------------------------------------------------------------------
(* On SQLite every step keeps the accounts. *)

(* A transaction that is not open stays as it is while nothing is committed. *)
LEMMA MovesSafe ==
    ASSUME ~Postgres, FinishInv, NEW f \in Finishers, Moves(f)
    PROVE  FinishInv'
<1>1. PICK t \in TxType : Set(f, t) /\ UNCHANGED <<clock, rows>> /\ Good(f, t)
  BY DEF Moves
<1>2. TypeInv /\ OneOpen /\ EndsOnce /\ NoLevelLost
  BY DEF FinishInv
<1>3. tx'[f] = t /\ \A g \in Finishers : g # f => tx'[g] = tx[g]
  BY <1>1, <1>2, SetEffect
<1>4. UNCHANGED <<level, queue, credits, refunds, lost>>
  BY <1>1 DEF rows
<1>5. TypeInv'
  BY <1>2, MovesType
<1>6. EndsOnce' /\ NoLevelLost'
  BY <1>2, <1>4 DEF EndsOnce, NoLevelLost
<1>7. \A g \in Finishers : g # f => (Open(g)' <=> Open(g))
  BY <1>3 DEF Open
<1>8. Open(f)' <=> t.pc \notin {"idle", "begin"}
  BY <1>3 DEF Open
<1>9. OneOpen'
  BY <1>1, <1>2, <1>7, <1>8 DEF OneOpen, Good
<1>10. ASSUME NEW g \in Finishers PROVE Consistent(g)'
  <2>1. CASE g = f
    <3>1. Accounts(t) => Accounts(tx[f])'
      BY <1>3, <1>4 DEF Accounts
    <3>2. LevelsAdd(t) => LevelsAdd(tx[f])'
      BY <1>3, <1>4 DEF LevelsAdd, Sees
    <3>3. Untouched(t) => Untouched(tx[f])'
      BY <1>3 DEF Untouched
    <3> QED
      BY <1>1, <1>8, <2>1, <3>1, <3>2, <3>3 DEF Good, Consistent
  <2>2. CASE g # f
    <3>1. Consistent(g)
      BY DEF FinishInv
    <3>2. Accounts(tx[g]) => Accounts(tx[g])'
      BY <1>3, <1>4, <2>2 DEF Accounts
    <3>3. LevelsAdd(tx[g]) => LevelsAdd(tx[g])'
      BY <1>3, <1>4, <2>2 DEF LevelsAdd, Sees
    <3>4. Untouched(tx[g]) => Untouched(tx[g])'
      BY <1>3, <2>2 DEF Untouched
    <3> QED
      BY <1>7, <2>2, <3>1, <3>2, <3>3, <3>4 DEF Consistent
  <2> QED
    BY <2>1, <2>2
<1> QED
  BY <1>5, <1>6, <1>9, <1>10 DEF FinishInv

(* A commit keeps the invariant, on SQLite. *)
LEMMA CommitSafe ==
    ASSUME FinishInv, NEW f \in Finishers, Commit(f)
    PROVE  FinishInv'
<1> DEFINE t == tx[f]
<1>1. TypeInv /\ OneOpen /\ EndsOnce /\ NoLevelLost
  BY DEF FinishInv
<1>2. /\ level' = VisibleLevels(f) /\ queue' = VisibleQueue(f)
      /\ credits' = Bump(credits, t.granted) /\ refunds' = Bump(refunds, t.refunded)
      /\ lost' = Bump(lost, t.lost) /\ Set(f, NoTx) /\ t.pc = "commit"
  BY DEF Commit, Set
<1>3. Accounts(t) /\ LevelsAdd(t) /\ \A g \in Finishers \ {f} : ~Open(g)
  BY <1>2, Alone DEF Open
<1>4. tx'[f] = NoTx /\ \A g \in Finishers : g # f => tx'[g] = tx[g]
  BY <1>1, <1>2, SetEffect, NoTxFacts
<1>5. TypeInv'
  BY <1>1, CommitType
<1>6. EndsOnce'
  <2>1. /\ t.gone \subseteq queue /\ t.gone = t.granted \cup t.refunded \cup t.lost
        /\ t.granted \cap t.refunded = {} /\ t.granted \cap t.lost = {}
        /\ t.refunded \cap t.lost = {} /\ queue' = queue \ t.gone
    BY <1>2, <1>3 DEF Accounts, VisibleQueue
  <2>2. credits \in [Jobs -> Nat] /\ refunds \in [Jobs -> Nat] /\ lost \in [Jobs -> Nat]
    BY <1>1 DEF TypeInv, TypeOK
  <2> HIDE DEF t
  <2>3. ASSUME NEW j \in Jobs
        PROVE  credits'[j] + refunds'[j] + lost'[j] + (IF j \in queue' THEN 1 ELSE 0) = 1
    <3>1. credits[j] + refunds[j] + lost[j] + (IF j \in queue THEN 1 ELSE 0) = 1
          /\ credits[j] \in Nat /\ refunds[j] \in Nat /\ lost[j] \in Nat
      BY <1>1, <2>2 DEF EndsOnce
    <3>2. /\ credits'[j] = IF j \in t.granted THEN credits[j] + 1 ELSE credits[j]
          /\ refunds'[j] = IF j \in t.refunded THEN refunds[j] + 1 ELSE refunds[j]
          /\ lost'[j] = IF j \in t.lost THEN lost[j] + 1 ELSE lost[j]
      BY <1>2 DEF Bump
    <3> QED
      BY <2>1, <3>1, <3>2
  <2> QED
    BY <2>3 DEF EndsOnce
<1>7. NoLevelLost'
  <2>1. \A b \in Buildings : level'[b] = SumOf(JobsOf(b), credits')
    BY <1>2, <1>3 DEF LevelsAdd, Sees, VisibleLevels
  <2> QED
    BY <2>1, SumOverIs DEF NoLevelLost, JobsOf
<1>8. \A g \in Finishers : ~Open(g)' /\ Untouched(tx'[g])
  <2>1. ASSUME NEW g \in Finishers, g # f PROVE ~Open(g)' /\ Untouched(tx'[g])
    BY <1>3, <1>4, <2>1, Alone DEF Open
  <2>2. ~Open(f)' /\ Untouched(tx'[f])
    BY <1>4, NoTxFacts DEF Open
  <2> QED
    BY <2>1, <2>2
<1> QED
  BY <1>5, <1>6, <1>7, <1>8 DEF FinishInv, OneOpen, Consistent

(* The invariant holds at the start. *)
LEMMA InitSafe == Init => FinishInv
<1> SUFFICES ASSUME Init PROVE FinishInv
  OBVIOUS
<1>1. TypeInv /\ \A f \in Finishers : tx[f] = NoTx
  BY InitType DEF Init
<1>2. EndsOnce
  BY DEF Init, EndsOnce
<1>3. NoLevelLost
  <2>1. credits \in [Jobs -> Nat] /\ \A j \in Jobs : credits[j] = 0
    BY DEF Init
  <2>2. ASSUME NEW b \in Buildings PROVE SumOf(JobsOf(b), credits) = 0
    <3>1. Integral(JobsOf(b), credits)
      BY <2>1, BumpFacts, BumpNone
    <3>2. \A j \in JobsOf(b) : credits[j] = 0
      BY <2>1 DEF JobsOf
    <3> QED
      BY <3>1, <3>2, SumZero
  <2> QED
    BY <2>2, SumOverIs DEF Init, NoLevelLost, JobsOf
<1> QED
  BY <1>1, <1>2, <1>3, NoTxFacts DEF FinishInv, OneOpen, Open, Consistent

(* Every step keeps the invariant, on SQLite. *)
LEMMA StepSafe ==
    ASSUME ~Postgres, FinishInv, [Next]_vars
    PROVE  FinishInv'
<1>1. CASE UNCHANGED vars \/ Tick
  <2>1. UNCHANGED <<level, queue, credits, refunds, lost, tx>>
    BY <1>1 DEF vars, Tick
  <2>2. TypeInv'
    BY StepType DEF FinishInv
  <2>3. OneOpen' /\ EndsOnce' /\ NoLevelLost'
    BY <2>1 DEF FinishInv, OneOpen, Open, EndsOnce, NoLevelLost
  <2>4. \A f \in Finishers : Consistent(f)'
    BY <2>1 DEF FinishInv, Consistent, Open, Accounts, LevelsAdd, Sees, Untouched
  <2> QED
    BY <2>2, <2>3, <2>4 DEF FinishInv
<1>2. ASSUME NEW f \in Finishers, Finish(f) PROVE FinishInv'
  <2>1. Moves(f) \/ Commit(f)
    BY <1>2, FinishMoves DEF FinishInv
  <2> QED
    BY <2>1, MovesSafe, CommitSafe
<1> QED
  BY <1>1, <1>2 DEF Next

-----------------------------------------------------------------------------
(* The theorems. *)

(* The invariant holds in every reachable state. *)
LEMMA SpecSafe ==
    ASSUME ~Postgres
    PROVE  Spec => []FinishInv
<1>1. FinishInv /\ [Next]_vars => FinishInv'
  BY StepSafe
<1> QED
  BY InitSafe, <1>1, PTL DEF Spec

(* On SQLite a job is in the queue, or was granted one level once, or was    *)
(* paid back once, or was lost once by a step that failed after deleting it, *)
(* whichever workers, pages and requests meet at it.                         *)
THEOREM SqliteEndsOnce ==
    ASSUME ~Postgres
    PROVE  Spec => []EndsOnce
<1>1. FinishInv => EndsOnce
  BY DEF FinishInv
<1> QED
  BY <1>1, SpecSafe, PTL

(* On SQLite the levels of a planet are the levels granted: no pass writes   *)
(* over what another, or an earlier step of its own, has granted.            *)
THEOREM SqliteNoLevelLost ==
    ASSUME ~Postgres
    PROVE  Spec => []NoLevelLost
<1>1. FinishInv => NoLevelLost
  BY DEF FinishInv
<1> QED
  BY <1>1, SpecSafe, PTL
=============================================================================
