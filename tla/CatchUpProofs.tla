---------------------------- MODULE CatchUpProofs ----------------------------
(***************************************************************************)
(* What holds of CatchUp for any number of replicas and products, any      *)
(* length of the day and any clocks that differ by less than it.  The      *)
(* inductive invariant says what the lease row still knows of the last     *)
(* catch-up: while that is no longer ago than a day, nobody has freed the  *)
(* row, and what is left of it makes up the rest of somebody's day.        *)
(***************************************************************************)
EXTENDS CatchUp, TLAPS

USE ProductsAssumption, DayAssumption, BoundsAssumption, ClocksAssumption, NamesAssumption

----------------------------------------------------------------------------
(* Types. *)

\* The parts of TypeOK, so that a step proves each from what it needs.
LeaseType == lease \in LeaseRow
LoopType == cu \in [Procs -> Loop]
RestType == /\ ruled \subseteq Products
            /\ waiting \in 0 .. MaxBacklog
            /\ events \in 0 .. MaxEvents
SinceType == since \in 0 .. LongAgo

LEMMA TypeParts == TypeOK <=> LeaseType /\ LoopType /\ RestType /\ SinceType
BY DEF TypeOK, LeaseType, LoopType, RestType, SinceType

\* What is left to queue is no more than there was.
LEMMA LeftTypes ==
    ASSUME NEW todo \in SUBSET Products
    PROVE  Left(todo) \in SUBSET Products
BY DEF Left

LEMMA LoopTypes ==
    ASSUME NEW s \in Loop, NEW todo \in SUBSET Products
    PROVE  /\ Resting \in Loop
           /\ [Resting EXCEPT !.pc = "listing"] \in Loop
           /\ [Resting EXCEPT !.pc = "returning"] \in Loop
           /\ [s EXCEPT !.pc = "queuing", !.todo = todo] \in Loop
           /\ [s EXCEPT !.todo = todo] \in Loop
BY DEF Loop, Resting

\* Each statement on the lease row leaves a row of the table.
LEMMA LeaseTypes ==
    ASSUME LeaseType, NEW p \in Procs
    PROVE  /\ HeldFor(p, Day) \in LeaseRow
           /\ Released(p) \in LeaseRow
           /\ Orphaned(p) \in LeaseRow
           /\ Aged \in LeaseRow
BY DEF LeaseType, LeaseRow, HeldFor, Released, Orphaned, Aged, FreeLease

LEMMA LoopStep ==
    ASSUME LoopType, ruled \subseteq Products, [Next]_vars
    PROVE  LoopType'
<1> SUFFICES ASSUME Next PROVE LoopType'
    BY DEF LoopType, vars
<1> USE DEF LoopType, Does
<1>1. ASSUME NEW p \in Procs, TakeUp(p) \/ PassEnds(p) \/ HandBack(p) PROVE LoopType'
    BY <1>1, LoopTypes DEF TakeUp, PassEnds, HandBack
<1>2. ASSUME NEW p \in Procs, List(p) PROVE LoopType'
    <2>1. [cu[p] EXCEPT !.pc = "queuing", !.todo = ruled] \in Loop
        BY LoopTypes
    <2> QED BY <1>2, <2>1 DEF List
<1>3. ASSUME NEW p \in Procs, QueueSweep(p) PROVE LoopType'
    <2>1. cu[p] \in Loop /\ cu[p].todo \in SUBSET Products
        BY DEF Loop
    <2>2. [cu[p] EXCEPT !.todo = Left(cu[p].todo)] \in Loop
        BY <2>1, LeftTypes, LoopTypes
    <2>3. cu' = [cu EXCEPT ![p] = [cu[p] EXCEPT !.todo = Left(cu[p].todo)]]
        BY <1>3 DEF QueueSweep
    <2> QED BY <2>2, <2>3
<1>4. ASSUME NEW p \in Procs, Fails(p) PROVE LoopType'
    BY <1>4, LoopTypes DEF Fails, TakeAnswerLost, PassFails, HandBackFails, Crash
<1>5. CASE Around \/ Tick
    BY <1>5 DEF Around, Rule, Arrives, Claim, Tick
<1> QED BY <1>1, <1>2, <1>3, <1>4, <1>5 DEF Next, Pass

LEMMA LeaseStep ==
    ASSUME LeaseType, [Next]_vars
    PROVE  LeaseType'
<1> SUFFICES ASSUME Next PROVE LeaseType'
    BY DEF LeaseType, vars
<1> USE DEF LeaseType
<1>1. ASSUME NEW p \in Procs, Pass(p) \/ Fails(p) PROVE LeaseType'
    BY <1>1, LeaseTypes DEF Pass, TakeUp, List, QueueSweep, PassEnds, HandBack,
                            Fails, TakeAnswerLost, PassFails, HandBackFails, Crash
<1>2. CASE Around
    BY <1>2 DEF Around, Rule, Arrives, Claim
<1>3. CASE Tick
    <2>1. Aged \in LeaseRow
        BY DEF Aged, LeaseRow
    <2> QED BY <1>3, <2>1 DEF Tick
<1> QED BY <1>1, <1>2, <1>3 DEF Next

LEMMA RestStep ==
    ASSUME RestType, [Next]_vars
    PROVE  RestType'
<1> SUFFICES ASSUME Next PROVE RestType'
    BY DEF RestType, vars
<1> USE DEF RestType, Room, Happens
<1>1. ASSUME NEW p \in Procs, Pass(p) PROVE RestType'
    BY <1>1 DEF Pass, TakeUp, List, QueueSweep, PassEnds, HandBack
<1>2. ASSUME NEW p \in Procs, Fails(p) PROVE RestType'
    BY <1>2 DEF Fails, TakeAnswerLost, PassFails, HandBackFails, Crash
<1>3. ASSUME NEW d \in Products, Rule(d) PROVE RestType'
    BY <1>3 DEF Rule
<1>4. CASE Arrives
    <2>1. ruled' = ruled /\ waiting' = waiting + 1 /\ waiting < MaxBacklog
        BY <1>4 DEF Arrives
    <2>2. waiting' \in 0 .. MaxBacklog /\ events' \in 0 .. MaxEvents
        BY <1>4, <2>1 DEF Arrives
    <2> QED BY <2>1, <2>2
<1>5. CASE Claim
    BY <1>5 DEF Claim
<1>6. CASE Tick
    BY <1>6 DEF Tick
<1> QED BY <1>1, <1>2, <1>3, <1>4, <1>5, <1>6 DEF Next, Around

LEMMA SinceStep ==
    ASSUME SinceType, [Next]_vars
    PROVE  SinceType'
<1> SUFFICES ASSUME Next PROVE SinceType'
    BY DEF SinceType, vars
<1> USE DEF SinceType, LongAgo
<1>1. ASSUME NEW p \in Procs, Pass(p) \/ Fails(p) PROVE SinceType'
    BY <1>1 DEF Pass, TakeUp, List, QueueSweep, PassEnds, HandBack,
                Fails, TakeAnswerLost, PassFails, HandBackFails, Crash
<1>2. CASE Around
    BY <1>2 DEF Around, Rule, Arrives, Claim
<1>3. CASE Tick
    BY <1>3 DEF Tick
<1> QED BY <1>1, <1>2, <1>3 DEF Next

LEMMA TypeInit == Init => TypeOK
BY DEF Init, TypeOK, FreeLease, LeaseRow, Loop, Resting, LongAgo

LEMMA TypeStep == TypeOK /\ [Next]_vars => TypeOK'
<1> SUFFICES ASSUME TypeOK, [Next]_vars PROVE TypeOK'
    OBVIOUS
<1>1. LeaseType /\ LoopType /\ RestType /\ SinceType /\ ruled \subseteq Products
    BY TypeParts DEF RestType
<1>2. LeaseType' /\ LoopType' /\ RestType' /\ SinceType'
    BY <1>1, LoopStep, LeaseStep, RestStep, SinceStep
<1> QED BY <1>2 DEF TypeOK, LeaseType, LoopType, RestType, SinceType

\* Every table and every loop holds what it can, for any number of replicas.
THEOREM TypesHold == Spec => []TypeOK
BY TypeInit, TypeStep, PTL DEF Spec

----------------------------------------------------------------------------
(* A day apart. *)

\* What is left of the lease and how long ago the catch-up was taken up make the
\* whole of a day on the clock of whoever took it.
Remains(p) == lease.left + since >= Day + Ahead[p]

DayInv == since <= Day => lease.by # NoOne /\ \E p \in Procs : Remains(p)

LEMMA DayInit == Init => DayInv
BY DEF Init, DayInv, LongAgo

\* A take starts a day.
LEMMA TakeDay ==
    ASSUME NEW p \in Procs, lease' = HeldFor(p, Day), since' = 0
    PROVE  DayInv'
<1>1. lease'.by = p /\ lease'.left = Day + Ahead[p]
    BY DEF HeldFor
<1> QED BY <1>1 DEF DayInv, Remains

\* What leaves when the catch-up was and how long the lease has to go, and frees
\* nothing, leaves the invariant: a crash does.
LEMMA KeptDay ==
    ASSUME DayInv, since' = since, lease'.left = lease.left,
           lease.by # NoOne => lease'.by # NoOne
    PROVE  DayInv'
BY DEF DayInv, Remains

LEMMA TickDay ==
    ASSUME TypeOK, DayInv, Tick
    PROVE  DayInv'
<1> SUFFICES ASSUME since' <= Day
             PROVE  lease'.by # NoOne /\ \E p \in Procs : Remains(p)'
    BY DEF DayInv
<1>1. since \in Nat /\ since' = since + 1 /\ since <= Day
    BY DEF Tick, TypeOK, LongAgo
<1>2. lease.by # NoOne /\ \E p \in Procs : Remains(p)
    BY <1>1 DEF DayInv
<1>3. PICK p \in Procs : Remains(p)
    BY <1>2
<1>4. lease \in LeaseRow /\ lease.left \in Int /\ Ahead[p] \in Nat
    BY DEF TypeOK, LeaseRow
<1>5. lease'.by = lease.by /\ lease'.left >= lease.left - 1 /\ lease'.left \in Int
    BY <1>2, <1>4 DEF Tick, Aged, LeaseRow
<1>6. Remains(p)'
    BY <1>1, <1>3, <1>4, <1>5 DEF Remains
<1> QED BY <1>2, <1>5, <1>6

\* Handing back says that the catch-up was none; of a lease taken over it does nothing.
LEMMA HandBackDay ==
    ASSUME DayInv, NEW p \in Procs, HandBack(p)
    PROVE  DayInv'
<1>1. CASE lease.by = p
    BY <1>1 DEF HandBack, DayInv, LongAgo
<1>2. CASE lease.by # p
    <2>1. lease' = lease /\ since' = since
        BY <1>2 DEF HandBack, Released
    <2> QED BY <2>1, KeptDay
<1> QED BY <1>1, <1>2

LEMMA DayStep == TypeOK /\ DayInv /\ [Next]_vars => DayInv'
<1> SUFFICES ASSUME TypeOK, DayInv, [Next]_vars PROVE DayInv'
    OBVIOUS
<1>1. ASSUME NEW p \in Procs, TakeUp(p) \/ TakeAnswerLost(p) PROVE DayInv'
    BY <1>1, TakeDay DEF TakeUp, TakeAnswerLost
<1>2. ASSUME NEW p \in Procs, HandBack(p) PROVE DayInv'
    BY <1>2, HandBackDay
<1>3. ASSUME NEW p \in Procs, Crash(p) PROVE DayInv'
    <2>1. since' = since /\ lease'.left = lease.left /\ (lease.by # NoOne => lease'.by # NoOne)
        BY <1>3 DEF Crash, Orphaned, TypeOK, LeaseRow, Gone, NoOne
    <2> QED BY <2>1, KeptDay
<1>4. CASE Tick
    BY <1>4, TickDay
<1>5. CASE \/ UNCHANGED vars \/ Around
           \/ \E p \in Procs : \/ List(p) \/ QueueSweep(p) \/ PassEnds(p)
                               \/ PassFails(p) \/ HandBackFails(p)
    <2>1. lease' = lease /\ since' = since
        BY <1>5 DEF vars, Around, Rule, Arrives, Claim, List, QueueSweep, PassEnds,
                    PassFails, HandBackFails
    <2> QED BY <2>1, KeptDay
<1> QED BY <1>1, <1>2, <1>3, <1>4, <1>5 DEF Next, Pass, Fails

\* The row remembers the catch-up for as long as it counts.
THEOREM DayHolds == Spec => [](TypeOK /\ DayInv)
<1>1. Init => TypeOK /\ DayInv
    BY TypeInit, DayInit
<1>2. TypeOK /\ DayInv /\ [Next]_vars => (TypeOK /\ DayInv)'
    BY TypeStep, DayStep
<1> QED BY <1>1, <1>2, PTL DEF Spec

\* Whoever finds the lease to be had finds it a day old, by no worse a clock.
LEMMA LapsedLongAgo ==
    ASSUME TypeOK, DayInv, NEW p \in Procs, Lapsed(p)
    PROVE  since > Day - Spread
<1> SUFFICES ASSUME since <= Day PROVE since > Day - Spread
    BY DEF TypeOK, LongAgo
<1>1. lease.by # NoOne /\ \E q \in Procs : Remains(q)
    BY DEF DayInv
<1>2. PICK q \in Procs : Remains(q)
    BY <1>1
<1>3. lease.left < Ahead[p]
    BY <1>1 DEF Lapsed
<1>4. lease.left \in Int /\ since \in Nat /\ Ahead[p] \in Nat /\ Ahead[q] \in Nat
    BY DEF TypeOK, LeaseRow, LongAgo
<1>5. Ahead[p] - Ahead[q] <= Spread
    OBVIOUS
<1> QED BY <1>2, <1>3, <1>4, <1>5 DEF Remains

\* Two catch-ups are a day apart but for what the clocks differ by, unless the
\* earlier one failed and said so, for any number of replicas, crashes and
\* failures (CatchUpOnce, TakeLapsed, Release).
THEOREM ADayApart == Spec => OneCatchUpADay
<1>1. TypeOK /\ DayInv /\ [Next]_vars =>
          [\A p \in Procs : TakeUp(p) \/ TakeAnswerLost(p) => since > Day - Spread]_vars
    BY LapsedLongAgo DEF TakeUp, TakeAnswerLost, Due
<1> QED BY <1>1, DayHolds, PTL DEF Spec, OneCatchUpADay
=============================================================================
