--------------------------- MODULE PollClaimProofs ---------------------------
(***************************************************************************)
(* On SQLite no poll is admitted while the lease of another winner runs,   *)
(* however long polls wait for the write lock.  On both databases, whoever *)
(* is turned away has a poll near that is served.                          *)
(***************************************************************************)
EXTENDS PollClaim, TLAPS

(* The type of every variable, for every value of the constants. *)
THEOREM TypeCorrect == Spec => []TypeOK
<1>1. Init => TypeOK
  BY ConstantsAssumption DEF Init, TypeOK, InFlight
<1>2. TypeOK /\ [Next]_vars => TypeOK'
  <2> SUFFICES ASSUME TypeOK, [Next]_vars PROVE TypeOK'
    OBVIOUS
  <2> USE ConstantsAssumption DEF TypeOK, InFlight
  <2>1. CASE Tick
    BY <2>1 DEF Tick
  <2>2. ASSUME NEW p \in Polls, Poll(p) PROVE TypeOK'
    <3>1. CASE LocalClaim(p)
      <4>1. ProcessOf[p] \in Processes
        OBVIOUS
      <4>2. clock + TTL \in Nat
        OBVIOUS
      <4> QED
        BY <3>1, <4>1, <4>2 DEF LocalClaim, Goto
    <3>2. CASE Peek(p)
      BY <3>2 DEF Peek, Goto
    <3>3. CASE Begin(p)
      BY <3>3 DEF Begin, Goto
    <3>4. CASE Recheck(p)
      BY <3>4 DEF Recheck, Goto
    <3>5. CASE Win(p)
      BY <3>5 DEF Win, Goto
    <3>6. CASE Fail(p)
      BY <3>6 DEF Fail, Goto
    <3> QED
      BY <2>2, <3>1, <3>2, <3>3, <3>4, <3>5, <3>6 DEF Poll
  <2>3. CASE UNCHANGED vars
    BY <2>3 DEF vars
  <2> QED
    BY <2>1, <2>2, <2>3 DEF Next
<1> QED
  BY <1>1, <1>2, PTL DEF Spec

-----------------------------------------------------------------------------
Writing == {"locked", "write"}

OneWriter == \A p, q \in Polls :
               pc[p] \in Writing /\ pc[q] \in Writing => p = q

(* The lease covers every winner whose own lease has not ended.            *)
LeaseCovers == \A w \in Polls : pc[w] = "won" =>
                 start[w] + TTL <= lease \/ start[w] + TTL <= clock

(* Whoever is about to write was admitted after the leases of all winners. *)
AdmittedAfter == \A q \in Polls : pc[q] = "write" =>
                   /\ admitted[q] <= clock
                   /\ \A w \in Polls : pc[w] = "won" => start[w] + TTL <= admitted[q]

ClaimInv == OneWriter /\ LeaseCovers /\ AdmittedAfter /\ LeaseExcludes

(* Before the first poll nothing is claimed. *)
LEMMA ClaimInvInit == Init => ClaimInv
  BY DEF Init, ClaimInv, OneWriter, LeaseCovers, AdmittedAfter, LeaseExcludes, Writing

(* Every step keeps the invariant of the claims, on SQLite. *)
LEMMA ClaimInvStep ==
  ASSUME ~Postgres, TypeOK, ClaimInv, [Next]_vars
  PROVE  ClaimInv'
<1> USE ConstantsAssumption DEF TypeOK, InFlight, Writing
<1>1. CASE Tick
  BY <1>1 DEF Tick, ClaimInv, OneWriter, LeaseCovers, AdmittedAfter, LeaseExcludes
<1>2. ASSUME NEW p \in Polls, Poll(p) PROVE ClaimInv'
  <2>1. CASE LocalClaim(p)
    BY <2>1 DEF LocalClaim, Goto, ClaimInv, OneWriter, LeaseCovers, AdmittedAfter,
                LeaseExcludes
  <2>2. CASE Peek(p)
    BY <2>2 DEF Peek, Goto, ClaimInv, OneWriter, LeaseCovers, AdmittedAfter, LeaseExcludes
  <2>3. CASE Begin(p)
    BY <2>3 DEF Begin, Goto, ClaimInv, OneWriter, LeaseCovers, AdmittedAfter, LeaseExcludes
  <2>4. CASE Recheck(p)
    <3>1. CASE lease > clock
      BY <2>4, <3>1 DEF Recheck, Goto, ClaimInv, OneWriter, LeaseCovers, AdmittedAfter,
                        LeaseExcludes
    <3>2. CASE lease <= clock
      <4>1. \A w \in Polls : pc[w] = "won" => start[w] + TTL <= clock
        BY <3>2 DEF ClaimInv, LeaseCovers
      <4>2. /\ pc[p] = "locked" /\ pc' = [pc EXCEPT ![p] = "write"]
            /\ admitted' = [admitted EXCEPT ![p] = clock]
            /\ UNCHANGED <<clock, local, lease, start>>
        BY <2>4, <3>2 DEF Recheck, Goto
      <4>3. OneWriter' /\ LeaseCovers'
        BY <4>2 DEF ClaimInv, OneWriter, LeaseCovers
      <4>4. AdmittedAfter' /\ LeaseExcludes'
        BY <4>1, <4>2 DEF ClaimInv, AdmittedAfter, LeaseExcludes
      <4> QED
        BY <4>3, <4>4 DEF ClaimInv
    <3> QED
      BY <3>1, <3>2
  <2>5. CASE Win(p)
    <3>0. /\ pc[p] = "write" /\ pc' = [pc EXCEPT ![p] = "won"]
          /\ lease' = start[p] + TTL /\ UNCHANGED <<clock, local, start, admitted>>
      BY <2>5 DEF Win, Goto
    <3>1. \A w \in Polls : pc[w] = "won" => start[w] + TTL <= admitted[p]
      BY <3>0 DEF ClaimInv, AdmittedAfter
    <3>2. OneWriter' /\ \A q \in Polls : pc'[q] # "write"
      BY <3>0 DEF ClaimInv, OneWriter
    <3>3. LeaseCovers'
      BY <3>0, <3>1 DEF ClaimInv, LeaseCovers, AdmittedAfter
    <3>4. AdmittedAfter'
      BY <3>2 DEF AdmittedAfter
    <3>5. LeaseExcludes'
      BY <3>0, <3>1 DEF ClaimInv, LeaseExcludes
    <3> QED
      BY <3>2, <3>3, <3>4, <3>5 DEF ClaimInv
  <2>6. CASE Fail(p)
    BY <2>6 DEF Fail, Goto, ClaimInv, OneWriter, LeaseCovers, AdmittedAfter, LeaseExcludes
  <2> QED
    BY <1>2, <2>1, <2>2, <2>3, <2>4, <2>5, <2>6 DEF Poll
<1>3. CASE UNCHANGED vars
  BY <1>3 DEF vars, ClaimInv, OneWriter, LeaseCovers, AdmittedAfter, LeaseExcludes
<1> QED
  BY <1>1, <1>2, <1>3 DEF Next

(* LeaseExcludes (queue_poll.py:550-563) on SQLite, for any number of polls  *)
(* and processes, any lease and any wait: the check under the write lock     *)
(* admits nobody while the lease of another winner runs.                     *)
THEOREM SqliteLeaseExcludes ==
  ASSUME ~Postgres
  PROVE  Spec => []LeaseExcludes
<1>1. ClaimInv => LeaseExcludes
  BY DEF ClaimInv
<1>2. TypeOK /\ ClaimInv /\ [Next]_vars => ClaimInv'
  BY ClaimInvStep
<1> QED
  BY <1>1, <1>2, ClaimInvInit, TypeCorrect, PTL DEF Spec

-----------------------------------------------------------------------------
(* Why a poll is turned away: by the lease of a winner, or by a poll of its  *)
(* own process.  The latter may itself have been turned away since, but only *)
(* by a lease, and not again by its process: the chain has two links.        *)

ByLease(p) ==
    \E w \in Polls : /\ pc[w] = "won"
                     /\ start[w] <= start[p] + MaxWait
                     /\ start[p] < start[w] + TTL

\* A poll that holds the dictionary of its process, or held it to its end.
Answers(q) == pc[q] \in InFlight \cup {"won", "failed"} \/ ByLease(q)

(* A poll in flight has waited at most MaxWait. *)
InTime == \A p \in Polls : pc[p] \in InFlight =>
            start[p] <= clock /\ clock <= start[p] + MaxWait

Started == \A p \in Polls : pc[p] # "ready" => start[p] <= clock

LeaseHeld ==
    lease > 0 => \E w \in Polls : /\ pc[w] = "won"
                                  /\ lease = start[w] + TTL

LocalHeld ==
    \A w \in Processes : local[w] > 0 =>
        \E q \in Polls : /\ pc[q] # "ready"
                         /\ local[w] = start[q] + TTL
                         /\ Answers(q)

LostRightly ==
    \A p \in Polls : pc[p] = "lost" =>
        \/ ByLease(p)
        \/ \E q \in Polls : /\ pc[q] # "ready"
                            /\ start[q] <= start[p]
                            /\ start[p] < start[q] + TTL
                            /\ Answers(q)

NearInv == InTime /\ Started /\ LeaseHeld /\ LocalHeld /\ LostRightly

(* A poll that has started keeps its start, and what is final stays. *)
Goes(p, where) ==
    /\ pc' = [pc EXCEPT ![p] = where]
    /\ UNCHANGED <<clock, local, start>>

(* Whoever was turned away by a lease stays so, when no start changes but    *)
(* that of a poll that was ready.                                            *)
LEMMA ByLeaseStays ==
    ASSUME TypeOK, TypeOK', NEW p \in Polls, ByLease(p), start'[p] = start[p],
           \A w \in Polls : pc[w] = "won" => pc'[w] = "won" /\ start'[w] = start[w]
    PROVE  ByLease(p)'
  BY DEF ByLease

(* A poll in flight, or done, answers after a step too, unless it is turned  *)
(* away.                                                                     *)
LEMMA AnswersStay ==
    ASSUME TypeOK, TypeOK', NEW q \in Polls, Answers(q), start'[q] = start[q],
           \A w \in Polls : pc[w] = "won" => pc'[w] = "won" /\ start'[w] = start[w],
           \/ pc'[q] \in InFlight \cup {"won", "failed"}
           \/ pc'[q] = pc[q]
           \/ ByLease(q)'
    PROVE  Answers(q)'
  BY ByLeaseStays DEF Answers

(* A step of one poll that is under way, which changes no start: it goes on, *)
(* ends, or is turned away by a lease.                                       *)
LEMMA GoesNear ==
    ASSUME TypeOK, TypeOK', NearInv, NEW p \in Polls, pc[p] \in InFlight,
           NEW where \in InFlight \cup {"won", "lost", "failed"}, Goes(p, where),
           where = "lost" => ByLease(p),
           lease' = lease \/ (where = "won" /\ lease' = start[p] + TTL)
    PROVE  NearInv'
<1> USE DEF TypeOK, InFlight
<1>1. \A w \in Polls : pc[w] = "won" => pc'[w] = "won" /\ start'[w] = start[w]
  BY DEF Goes
<1>2. \A q \in Polls : ByLease(q) => ByLease(q)'
  BY <1>1, ByLeaseStays DEF Goes
<1>3. \A q \in Polls : Answers(q) => Answers(q)'
  <2> SUFFICES ASSUME NEW q \in Polls, Answers(q) PROVE Answers(q)'
    OBVIOUS
  <2>1. start'[q] = start[q]
    BY DEF Goes
  <2>2. \/ pc'[q] \in InFlight \cup {"won", "failed"}
        \/ pc'[q] = pc[q]
        \/ ByLease(q)'
    BY <1>2 DEF Goes
  <2> QED
    BY <1>1, <2>1, <2>2, AnswersStay
<1>4. InTime' /\ Started'
  BY DEF Goes, NearInv, InTime, Started
<1>5. LeaseHeld'
  BY <1>1 DEF Goes, NearInv, LeaseHeld
<1>6. LocalHeld'
  <2> SUFFICES ASSUME NEW w \in Processes, local'[w] > 0
               PROVE  \E q \in Polls : /\ pc'[q] # "ready"
                                       /\ local'[w] = start'[q] + TTL
                                       /\ Answers(q)'
    BY DEF LocalHeld
  <2>1. PICK q \in Polls : pc[q] # "ready" /\ local[w] = start[q] + TTL /\ Answers(q)
    BY DEF NearInv, LocalHeld, Goes
  <2>2. pc'[q] # "ready" /\ local'[w] = start'[q] + TTL
    BY <2>1 DEF Goes
  <2> QED
    BY <1>3, <2>1, <2>2
<1>7. LostRightly'
  <2> SUFFICES ASSUME NEW r \in Polls, pc'[r] = "lost"
               PROVE  \/ ByLease(r)'
                      \/ \E q \in Polls : /\ pc'[q] # "ready"
                                          /\ start'[q] <= start'[r]
                                          /\ start'[r] < start'[q] + TTL
                                          /\ Answers(q)'
    BY DEF LostRightly
  <2>1. start' = start
    BY DEF Goes
  <2>2. CASE r = p
    BY <1>2, <2>2 DEF Goes
  <2>3. CASE r # p
    <3>1. pc[r] = "lost"
      BY <2>3 DEF Goes
    <3>2. CASE ByLease(r)
      BY <1>2, <3>2
    <3>3. CASE \E q \in Polls : /\ pc[q] # "ready"
                                /\ start[q] <= start[r]
                                /\ start[r] < start[q] + TTL
                                /\ Answers(q)
      <4>1. PICK q \in Polls : /\ pc[q] # "ready"
                               /\ start[q] <= start[r]
                               /\ start[r] < start[q] + TTL
                               /\ Answers(q)
        BY <3>3
      <4>2. pc'[q] # "ready" /\ Answers(q)'
        BY <1>3, <4>1 DEF Goes
      <4> QED
        BY <2>1, <4>1, <4>2
    <3> QED
      BY <3>1, <3>2, <3>3 DEF NearInv, LostRightly
  <2> QED
    BY <2>2, <2>3
<1> QED
  BY <1>4, <1>5, <1>6, <1>7 DEF NearInv

(* A poll that finds the lease running was turned away by a winner who is    *)
(* near.                                                                     *)
LEMMA LeaseSeen ==
    ASSUME TypeOK, NearInv, NEW p \in Polls, pc[p] \in InFlight, lease > start[p]
    PROVE  ByLease(p)
<1> USE ConstantsAssumption DEF TypeOK, InFlight
<1>1. PICK w \in Polls : pc[w] = "won" /\ lease = start[w] + TTL
  BY DEF NearInv, LeaseHeld
<1>2. start[w] <= clock /\ clock <= start[p] + MaxWait
  BY <1>1 DEF NearInv, Started, InTime
<1>3. start[w] <= start[p] + MaxWait
  BY <1>2
<1> QED
  BY <1>1, <1>3 DEF ByLease

(* The first look, at the dictionary of the process. *)
LEMMA LocalNear ==
    ASSUME TypeOK, TypeOK', NearInv, NEW p \in Polls, LocalClaim(p)
    PROVE  NearInv'
<1> USE ConstantsAssumption DEF TypeOK, InFlight
<1>1. /\ pc[p] = "ready" /\ start'[p] = clock /\ clock' = clock /\ lease' = lease
      /\ \A q \in Polls : q # p => start'[q] = start[q] /\ pc'[q] = pc[q]
  BY DEF LocalClaim, Goto
<1>2. \A w \in Polls : pc[w] = "won" => pc'[w] = "won" /\ start'[w] = start[w]
  BY <1>1
<1>3. \A q \in Polls : q # p /\ ByLease(q) => ByLease(q)'
  BY <1>1, <1>2, ByLeaseStays
<1>4. \A q \in Polls : q # p /\ Answers(q) => Answers(q)'
  BY <1>1, <1>2, AnswersStay
<1>5. pc'[p] = "lost" \/ pc'[p] = "claimed"
  BY DEF LocalClaim, Goto
<1>6. InTime' /\ Started'
  BY <1>1, <1>5 DEF NearInv, InTime, Started
<1>7. LeaseHeld'
  BY <1>1, <1>2 DEF NearInv, LeaseHeld
<1>8. \A w \in Processes : local[w] > 0 =>
        \E q \in Polls : /\ q # p /\ pc'[q] # "ready" /\ local[w] = start'[q] + TTL
                         /\ Answers(q)' /\ start'[q] <= clock
  <2> SUFFICES ASSUME NEW w \in Processes, local[w] > 0
               PROVE  \E q \in Polls : /\ q # p /\ pc'[q] # "ready"
                                       /\ local[w] = start'[q] + TTL
                                       /\ Answers(q)' /\ start'[q] <= clock
    OBVIOUS
  <2>1. PICK q \in Polls : pc[q] # "ready" /\ local[w] = start[q] + TTL /\ Answers(q)
    BY DEF NearInv, LocalHeld
  <2>2. q # p /\ start[q] <= clock
    BY <1>1, <2>1 DEF NearInv, Started
  <2>3. pc'[q] # "ready" /\ start'[q] = start[q] /\ Answers(q)'
    BY <1>1, <1>4, <2>1, <2>2
  <2> QED
    BY <2>1, <2>2, <2>3
<1>9. LocalHeld'
  <2>1. CASE pc'[p] = "lost"
    <3>1. local' = local
      BY <1>1, <2>1 DEF LocalClaim, Goto
    <3> QED
      BY <1>8, <3>1 DEF LocalHeld
  <2>2. CASE pc'[p] = "claimed"
    <3>1. Answers(p)' /\ pc'[p] # "ready" /\ ProcessOf[p] \in Processes
      BY <2>2 DEF Answers
    <3>2. local' = [local EXCEPT ![ProcessOf[p]] = clock + TTL]
      BY <1>1, <2>2 DEF LocalClaim, Goto
    <3>3. \A w \in Processes : local'[w] = IF w = ProcessOf[p] THEN start'[p] + TTL ELSE local[w]
      BY <1>1, <3>1, <3>2
    <3> QED
      BY <1>8, <3>1, <3>3 DEF LocalHeld
  <2> QED
    BY <1>5, <2>1, <2>2
<1>10. LostRightly'
  <2> SUFFICES ASSUME NEW r \in Polls, pc'[r] = "lost"
               PROVE  \/ ByLease(r)'
                      \/ \E q \in Polls : /\ pc'[q] # "ready"
                                          /\ start'[q] <= start'[r]
                                          /\ start'[r] < start'[q] + TTL
                                          /\ Answers(q)'
    BY DEF LostRightly
  <2>1. CASE r = p
    <3>1. local[ProcessOf[p]] > clock /\ ProcessOf[p] \in Processes
      BY <2>1 DEF LocalClaim, Goto
    <3>2. PICK q \in Polls : /\ pc'[q] # "ready"
                             /\ local[ProcessOf[p]] = start'[q] + TTL
                             /\ Answers(q)' /\ start'[q] <= clock
      BY <1>8, <3>1
    <3>3. start'[q] <= start'[r] /\ start'[r] < start'[q] + TTL
      BY <1>1, <2>1, <3>1, <3>2
    <3> QED
      BY <3>2, <3>3
  <2>2. CASE r # p
    <3>1. pc[r] = "lost" /\ start'[r] = start[r] /\ start[r] <= clock
      BY <1>1, <2>2 DEF NearInv, Started
    <3>2. CASE ByLease(r)
      BY <1>3, <2>2, <3>2
    <3>3. CASE \E q \in Polls : /\ pc[q] # "ready"
                                /\ start[q] <= start[r]
                                /\ start[r] < start[q] + TTL
                                /\ Answers(q)
      <4>1. PICK q \in Polls : /\ pc[q] # "ready"
                               /\ start[q] <= start[r]
                               /\ start[r] < start[q] + TTL
                               /\ Answers(q)
        BY <3>3
      <4>2. start'[q] = start[q] /\ Answers(q)' /\ pc'[q] # "ready"
        BY <1>1, <1>4, <4>1
      <4> QED
        BY <3>1, <4>1, <4>2
    <3> QED
      BY <3>1, <3>2, <3>3 DEF NearInv, LostRightly
  <2> QED
    BY <2>1, <2>2
<1> QED
  BY <1>6, <1>7, <1>9, <1>10 DEF NearInv

(* Before the first poll nobody holds or waits for anything. *)
LEMMA InitNear == Init => NearInv
  BY DEF Init, NearInv, InTime, Started, LeaseHeld, LocalHeld, LostRightly, InFlight

(* Every step keeps track of why polls are turned away, on both databases. *)
LEMMA StepNear ==
    ASSUME TypeOK, TypeOK', NearInv, [Next]_vars
    PROVE  NearInv'
<1>1. CASE Tick
  <2>1. clock' = clock + 1 /\ UNCHANGED <<local, lease, start, pc>> /\ clock \in Nat
        /\ \A p \in Polls : pc[p] \in InFlight => clock < start[p] + MaxWait
    BY <1>1 DEF Tick, TypeOK
  <2>2. InTime' /\ Started'
    BY <2>1, ConstantsAssumption DEF NearInv, InTime, Started, TypeOK
  <2>3. \A p \in Polls : ByLease(p) = ByLease(p)'
    BY <2>1 DEF ByLease
  <2>4. \A p \in Polls : Answers(p) = Answers(p)'
    BY <2>1, <2>3 DEF Answers
  <2>5. LeaseHeld' /\ LocalHeld' /\ LostRightly'
    BY <2>1, <2>3, <2>4 DEF NearInv, LeaseHeld, LocalHeld, LostRightly
  <2> QED
    BY <2>2, <2>5 DEF NearInv
<1>2. ASSUME NEW p \in Polls, Poll(p) PROVE NearInv'
  <2>1. CASE LocalClaim(p)
    BY <2>1, LocalNear
  <2>2. CASE Peek(p)
    <3>1. Goes(p, IF lease > start[p] THEN "lost" ELSE "begin") /\ pc[p] \in InFlight
          /\ lease' = lease
      BY <2>2 DEF Peek, Goto, Goes, InFlight
    <3>2. CASE lease > start[p]
      BY <3>1, <3>2, LeaseSeen, GoesNear
    <3>3. CASE ~(lease > start[p])
      <4>1. "begin" \in InFlight /\ "begin" # "lost"
        BY DEF InFlight
      <4> QED
        BY <3>1, <3>3, <4>1, GoesNear
    <3> QED
      BY <3>2, <3>3
  <2>3. CASE Begin(p)
    <3>1. Goes(p, "locked") /\ pc[p] \in InFlight /\ lease' = lease /\ "locked" \in InFlight
          /\ "locked" # "lost"
      BY <2>3 DEF Begin, Goto, Goes, InFlight
    <3> QED
      BY <3>1, GoesNear
  <2>4. CASE Recheck(p)
    <3>1. lease > clock <=> ~(lease <= clock)
      BY DEF TypeOK
    <3>2. pc[p] \in InFlight /\ lease' = lease
      BY <2>4 DEF Recheck, InFlight
    <3>3. CASE lease > clock
      <4>1. lease > start[p]
        BY <3>2, <3>3 DEF NearInv, InTime, TypeOK
      <4>2. Goes(p, "lost")
        BY <2>4, <3>1, <3>3 DEF Recheck, Goto, Goes
      <4> QED
        BY <3>2, <4>1, <4>2, LeaseSeen, GoesNear
    <3>4. CASE ~(lease > clock)
      <4>1. "write" \in InFlight /\ "write" # "lost"
        BY DEF InFlight
      <4>2. Goes(p, "write")
        BY <2>4, <3>1, <3>4 DEF Recheck, Goto, Goes
      <4> QED
        BY <3>2, <4>1, <4>2, GoesNear
    <3> QED
      BY <3>3, <3>4
  <2>5. CASE Win(p)
    <3>1. /\ Goes(p, "won") /\ pc[p] \in InFlight /\ "won" # "lost"
          /\ lease' = lease \/ lease' = start[p] + TTL
      BY <2>5 DEF Win, Goto, Goes, InFlight
    <3> QED
      BY <3>1, GoesNear
  <2>6. CASE Fail(p)
    <3>1. Goes(p, "failed") /\ pc[p] \in InFlight /\ lease' = lease /\ "failed" # "lost"
      BY <2>6 DEF Fail, Goto, Goes
    <3> QED
      BY <3>1, GoesNear
  <2> QED
    BY <1>2, <2>1, <2>2, <2>3, <2>4, <2>5, <2>6 DEF Poll
<1>3. CASE UNCHANGED vars
  <2>1. \A p \in Polls : ByLease(p) = ByLease(p)'
    BY <1>3 DEF vars, ByLease
  <2>2. \A p \in Polls : Answers(p) = Answers(p)'
    BY <1>3, <2>1 DEF vars, Answers
  <2> QED
    BY <1>3, <2>1, <2>2 DEF vars, NearInv, InTime, Started, LeaseHeld, LocalHeld, LostRightly
<1> QED
  BY <1>1, <1>2, <1>3 DEF Next

(* WinnerNearby (queue_poll.py:525), on both databases, for any polls,       *)
(* processes, lease and wait: whoever is turned away has a poll near that    *)
(* won, failed or is still under way, so the claims of polls that were       *)
(* turned away never add up to a player whom nobody serves.                  *)
THEOREM LoserHasWinner == Spec => []WinnerNearby
<1>1. ASSUME TypeOK, NearInv PROVE WinnerNearby
  <2> SUFFICES ASSUME NEW p \in Polls, pc[p] = "lost"
               PROVE  \E q \in Polls : /\ pc[q] \in InFlight \cup {"won", "failed"}
                                       /\ start[q] <= start[p] + MaxWait
                                       /\ start[p] < start[q] + 2 * TTL
    BY DEF WinnerNearby
  <2> USE ConstantsAssumption DEF TypeOK
  <2>1. CASE ByLease(p)
    <3>1. PICK w \in Polls : /\ pc[w] = "won" /\ start[w] <= start[p] + MaxWait
                             /\ start[p] < start[w] + TTL
      BY <2>1 DEF ByLease
    <3>2. start[p] < start[w] + 2 * TTL
      BY <1>1, <3>1
    <3> QED
      BY <3>1, <3>2
  <2>2. CASE \E q \in Polls : /\ start[q] <= start[p]
                              /\ start[p] < start[q] + TTL
                              /\ Answers(q)
    <3>1. PICK q \in Polls : /\ start[q] <= start[p]
                             /\ start[p] < start[q] + TTL
                             /\ Answers(q)
      BY <2>2
    <3>2. CASE pc[q] \in InFlight \cup {"won", "failed"}
      <4>1. start[q] <= start[p] + MaxWait /\ start[p] < start[q] + 2 * TTL
        BY <1>1, <3>1
      <4> QED
        BY <3>2, <4>1
    <3>3. CASE ByLease(q)
      <4>1. PICK w \in Polls : /\ pc[w] = "won" /\ start[w] <= start[q] + MaxWait
                               /\ start[q] < start[w] + TTL
        BY <3>3 DEF ByLease
      <4>2. start[w] <= start[p] + MaxWait /\ start[p] < start[w] + 2 * TTL
        BY <1>1, <3>1, <4>1
      <4> QED
        BY <4>1, <4>2
    <3> QED
      BY <3>1, <3>2, <3>3 DEF Answers
  <2> QED
    BY <1>1, <2>1, <2>2 DEF NearInv, LostRightly
<1>2. TypeOK /\ TypeOK' /\ NearInv /\ [Next]_vars => NearInv'
  BY StepNear
<1>3. TypeOK /\ NearInv => WinnerNearby
  BY <1>1
<1> QED
  BY <1>2, <1>3, InitNear, TypeCorrect, PTL DEF Spec
=============================================================================
