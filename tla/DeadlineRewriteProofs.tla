------------------------ MODULE DeadlineRewriteProofs ------------------------
(***************************************************************************)
(* What holds of DeadlineRewrite for any number of replicas, any division  *)
(* of the findings into slices and any clocks no further apart than        *)
(* Spread.  The inductive invariant is built in three layers, each resting *)
(* on the one before: the types, what a run that has its turn knows of the *)
(* lease, and - where the clocks agree - what is owed to stale deadlines.  *)
(***************************************************************************)
EXTENDS DeadlineRewrite, TLAPS

USE SlicesAssumption, LimitAssumption, EventsAssumption, ClocksAssumption, NamesAssumption

----------------------------------------------------------------------------
(* Types. *)

\* Every step changes a rewriter into a rewriter.
LEMMA AskingTypes ==
    ASSUME NEW r \in Rewriter
    PROVE  /\ [r EXCEPT !.asking = @ + 1] \in Rewriter
           /\ r.asking > 0 => [r EXCEPT !.asking = @ - 1] \in Rewriter
           /\ r.asking > 0 => Asked(r) \in Rewriter
<1>1. [r EXCEPT !.asking = @ + 1] \in Rewriter
    BY DEF Rewriter
<1>2. ASSUME r.asking > 0 PROVE [r EXCEPT !.asking = @ - 1] \in Rewriter
    BY <1>2 DEF Rewriter
<1>3. ASSUME r.asking > 0 PROVE Asked(r) \in Rewriter
    <2> DEFINE c == IF r.pc = "idle" THEN "next" ELSE r.pc
               q == [r EXCEPT !.asking = @ - 1, !.pc = c]
    <2>1. c \in {"down", "idle", "next", "waiting", "turn", "writing", "returning"}
        BY DEF Rewriter
    <2>2. [r EXCEPT !.asking = @ - 1] \in Rewriter
        BY <1>2, <1>3
    <2>3. Asked(r) = [r EXCEPT !.asking = @ - 1, !.pc = c, !.pending = TRUE]
        BY DEF Asked
    <2> HIDE DEF c
    <2> QED BY <2>1, <2>2, <2>3 DEF Rewriter
<1> QED BY <1>1, <1>2, <1>3

LEMMA RunTypesOf ==
    ASSUME NEW r \in Rewriter
    PROVE  /\ [r EXCEPT !.pc = "waiting", !.pending = FALSE, !.left = Limit] \in Rewriter
           /\ [r EXCEPT !.pc = "returning", !.todo = {}] \in Rewriter
           /\ [r EXCEPT !.stopped = TRUE, !.left = 0] \in Rewriter
<1>1. [r EXCEPT !.pc = "waiting", !.pending = FALSE, !.left = Limit] \in Rewriter
    BY DEF Rewriter
<1>2. [r EXCEPT !.pc = "returning", !.todo = {}] \in Rewriter
    BY DEF Rewriter
<1>3. [r EXCEPT !.stopped = TRUE, !.left = 0] \in Rewriter
    BY DEF Rewriter
<1> QED BY <1>1, <1>2, <1>3

LEMMA PcTypes ==
    ASSUME NEW r \in Rewriter,
           NEW c \in {"down", "idle", "next", "waiting", "turn", "writing", "returning"}
    PROVE  [r EXCEPT !.pc = c] \in Rewriter
BY DEF Rewriter

LEMMA ReadTypes ==
    ASSUME NEW r \in Rewriter, NEW v \in Nat
    PROVE  [r EXCEPT !.pc = "writing", !.read = v, !.todo = Slices] \in Rewriter
BY DEF Rewriter

LEMMA WalkTypes ==
    ASSUME NEW r \in Rewriter, NEW s \in Slices
    PROVE  [r EXCEPT !.todo = @ \ {s}] \in Rewriter
BY DEF Rewriter

LEMMA LeftTypes ==
    ASSUME NEW r \in Rewriter, NEW n \in Nat
    PROVE  [r EXCEPT !.left = n] \in Rewriter
BY DEF Rewriter

LEMMA FreshTypes == Fresh \in Rewriter /\ [Fresh EXCEPT !.pc = "down"] \in Rewriter
BY DEF Rewriter, Fresh

LEMMA LeaseTypes ==
    ASSUME lease \in LeaseRow, NEW p \in Procs
    PROVE  /\ HeldFor(p, Limit) \in LeaseRow
           /\ Released(p) \in LeaseRow
           /\ Orphaned(p) \in LeaseRow
           /\ Aged \in LeaseRow
           /\ FreeLease \in LeaseRow
BY DEF LeaseRow, HeldFor, Released, Orphaned, Aged, FreeLease

\* The parts of TypeOK, so that a step proves each from what it needs.
RwType == rw \in [Procs -> Rewriter]
LeaseType == lease \in LeaseRow
RestType ==
    /\ policy \in Nat /\ events \in Nat
    /\ due \in [Slices -> Nat]
    /\ scanned \in SUBSET Slices
    /\ scan \in [applying : BOOLEAN, read : Nat]

LEMMA TypeParts == TypeOK <=> RwType /\ LeaseType /\ RestType /\ lost \in BOOLEAN
BY DEF TypeOK, RwType, LeaseType, RestType

\* Each step writes at most one rewriter.
LEMMA RwTypeStep ==
    ASSUME RwType, policy \in Nat, NEW p \in Procs, Handler(p) \/ Run(p) \/ Process(p)
    PROVE  RwType'
<1> USE DEF RwType
<1>0. rw[p] \in Rewriter
    OBVIOUS
<1>1. CASE Change(p)
    BY <1>0, <1>1, AskingTypes DEF Change
<1>2. CASE Ask(p)
    <2>1. Asked(rw[p]) \in Rewriter
        BY <1>0, <1>2, AskingTypes DEF Ask
    <2> QED BY <1>2, <2>1 DEF Ask
<1>3. CASE AskRefused(p)
    BY <1>0, <1>3, AskingTypes DEF AskRefused
<1>4. CASE NextRun(p)
    BY <1>0, <1>4, RunTypesOf DEF NextRun
<1>5. CASE NoMoreRuns(p) \/ NoTurnCame(p) \/ TakeTurn(p) \/ ReturnTurn(p) \/ ReturnFails(p)
    BY <1>0, <1>5, PcTypes DEF NoMoreRuns, NoTurnCame, TakeTurn, ReturnTurn, ReturnFails
<1>6. CASE LoadWindows(p)
    BY <1>0, <1>6, ReadTypes DEF LoadWindows
<1>7. CASE CutShort(p)
    BY <1>0, <1>7, RunTypesOf DEF CutShort
<1>8. ASSUME NEW s \in Slices, WriteSlice(p, s) PROVE RwType'
    <2>1. CASE rw[p].todo = {s}
        BY <1>0, <1>8, <2>1, RunTypesOf DEF WriteSlice
    <2>2. CASE rw[p].todo # {s}
        BY <1>0, <1>8, <2>2, WalkTypes DEF WriteSlice
    <2> QED BY <2>1, <2>2
<1>9. CASE StopRewrites(p)
    BY <1>0, <1>9, RunTypesOf DEF StopRewrites
<1>10. CASE Exit(p) \/ Start(p)
    BY <1>10, FreshTypes DEF Exit, Start
<1>11. CASE ChangeAnswerLost(p) \/ TakeAnswerLost(p)
    BY <1>11 DEF ChangeAnswerLost, TakeAnswerLost
<1> QED BY <1>1, <1>2, <1>3, <1>4, <1>5, <1>6, <1>7, <1>8, <1>9, <1>10, <1>11
         DEF Handler, Run, Process

LEMMA LeaseTypeStep ==
    ASSUME LeaseType, NEW p \in Procs, Handler(p) \/ Run(p) \/ Process(p)
    PROVE  LeaseType'
<1>1. lease' \in {lease, HeldFor(p, Limit), Released(p), Orphaned(p)}
    BY DEF Handler, Change, ChangeAnswerLost, Ask, AskRefused,
           Run, NextRun, NoMoreRuns, TakeTurn, TakeAnswerLost, NoTurnCame, LoadWindows, CutShort,
           ReturnTurn, ReturnFails, WriteSlice, Process, StopRewrites, Exit, Start
<1> QED BY <1>1, LeaseTypes DEF LeaseType

LEMMA RestTypeStep ==
    ASSUME RwType, RestType, NEW p \in Procs, Handler(p) \/ Run(p) \/ Process(p)
    PROVE  RestType'
<1>1. rw[p].read \in Nat
    BY DEF RwType, Rewriter
<1>2. /\ policy' \in {policy, policy + 1}
      /\ events' \in {events, events + 1}
      /\ scan' = scan
      /\ \/ UNCHANGED <<due, scanned>>
         \/ \E s \in Slices : due' = [due EXCEPT ![s] = rw[p].read] /\ scanned' = scanned \ {s}
    BY DEF Handler, Change, ChangeAnswerLost, Ask, AskRefused,
           Run, NextRun, NoMoreRuns, TakeTurn, TakeAnswerLost, NoTurnCame, LoadWindows, CutShort,
           ReturnTurn, ReturnFails, WriteSlice, Process, StopRewrites, Exit, Start, MayHappen
<1>3. policy' \in Nat /\ events' \in Nat
    BY <1>2 DEF RestType
<1>4. due' \in [Slices -> Nat] /\ scanned' \in SUBSET Slices
    BY <1>1, <1>2 DEF RestType
<1>5. scan' \in [applying : BOOLEAN, read : Nat]
    BY <1>2, Zenon DEF RestType
<1> QED BY <1>3, <1>4, <1>5, Zenon DEF RestType

LEMMA LostTypeStep ==
    ASSUME lost \in BOOLEAN, NEW p \in Procs, Handler(p) \/ Run(p) \/ Process(p)
    PROVE  lost' \in BOOLEAN
<1>1. \/ lost' = lost \/ lost' = TRUE
      \/ lost' = (lost \/ rw[p].pending)
      \/ lost' = (lost \/ Owes(p))
      \/ lost' = (lost /\ rw[p].read # policy)
    BY Zenon
       DEF Handler, Change, ChangeAnswerLost, Ask, AskRefused,
           Run, NextRun, NoMoreRuns, TakeTurn, TakeAnswerLost, NoTurnCame, LoadWindows, CutShort,
           ReturnTurn, ReturnFails, WriteSlice, Process, StopRewrites, Exit, Start
<1> QED BY <1>1, Zenon

LEMMA ScanTypes == ASSUME TypeOK, Scan PROVE TypeOK'
<1>1. CASE ScanReads
    BY <1>1 DEF TypeOK, ScanReads, MayHappen
<1>2. ASSUME NEW s \in Slices, ScanCommits(s) PROVE TypeOK'
    BY <1>2 DEF TypeOK, ScanCommits
<1> QED BY <1>1, <1>2 DEF Scan

LEMMA TickTypes == ASSUME TypeOK, Tick PROVE TypeOK'
<1>1. LeaseType'
    BY DEF TypeOK, LeaseType, LeaseRow, Aged, Tick
<1>2. \A p \in Procs : rw'[p] \in Rewriter
    <2> SUFFICES ASSUME NEW p \in Procs PROVE rw'[p] \in Rewriter
        OBVIOUS
    <2> DEFINE n == IF rw[p].left > 0 /\ rw[p].pc \in {"waiting", "turn", "writing"}
                    THEN rw[p].left - 1 ELSE 0
    <2>1. rw[p] \in Rewriter /\ rw[p].left \in Nat
        BY DEF TypeOK, Rewriter
    <2>2. n \in Nat
        BY <2>1
    <2>3. rw'[p] = [rw[p] EXCEPT !.left = n]
        BY DEF Tick
    <2> HIDE DEF n
    <2> QED BY <2>1, <2>2, <2>3, LeftTypes
<1>3. RwType'
    BY <1>2 DEF Tick, RwType
<1>4. RestType' /\ lost' \in BOOLEAN
    BY Zenon DEF TypeOK, Tick, RestType
<1> QED BY <1>1, <1>3, <1>4, Zenon DEF TypeOK, LeaseType, RwType, RestType

\* The state keeps its shape in every behaviour.
THEOREM TypeCorrect == Spec => []TypeOK
<1>1. Init => TypeOK
    <2> SUFFICES ASSUME Init PROVE TypeOK
        OBVIOUS
    <2>1. RwType /\ LeaseType
        BY FreshTypes DEF Init, RwType, LeaseType, LeaseRow, FreeLease
    <2>2. RestType /\ lost \in BOOLEAN
        BY DEF Init, RestType
    <2> QED BY <2>1, <2>2, TypeParts
<1>2. TypeOK /\ [Next]_vars => TypeOK'
    <2>1. ASSUME TypeOK, NEW p \in Procs, Handler(p) \/ Run(p) \/ Process(p) PROVE TypeOK'
        <3>1. RwType /\ LeaseType /\ RestType /\ lost \in BOOLEAN /\ policy \in Nat
            BY <2>1, TypeParts DEF RestType
        <3>2. RwType' /\ LeaseType' /\ RestType' /\ lost' \in BOOLEAN
            BY <2>1, <3>1, RwTypeStep, LeaseTypeStep, RestTypeStep, LostTypeStep
        <3> QED BY <3>2 DEF TypeOK, RwType, LeaseType, RestType
    <2>2. TypeOK /\ UNCHANGED vars => TypeOK'
        BY DEF TypeOK, vars
    <2> QED BY <2>1, <2>2, ScanTypes, TickTypes DEF Next
<1> QED BY <1>1, <1>2, PTL DEF Spec

----------------------------------------------------------------------------
(* Steps. *)

\* What a step of p leaves in p's rewriter; it touches no other.
Moves(p, pc, asking, pending, left, read, todo) ==
    /\ \A q \in Procs \ {p} : rw'[q] = rw[q]
    /\ rw'[p].pc = pc
    /\ rw'[p].asking = asking
    /\ rw'[p].pending = pending
    /\ rw'[p].left = left
    /\ rw'[p].read = read
    /\ rw'[p].todo = todo

LEMMA StepMoves ==
    ASSUME rw \in [Procs -> Rewriter], NEW p \in Procs
    PROVE  /\ Change(p) =>
              Moves(p, rw[p].pc, rw[p].asking + 1, rw[p].pending, rw[p].left, rw[p].read, rw[p].todo)
           /\ Ask(p) =>
              Moves(p, IF rw[p].pc = "idle" THEN "next" ELSE rw[p].pc, rw[p].asking - 1, TRUE, rw[p].left, rw[p].read, rw[p].todo)
           /\ AskRefused(p) =>
              Moves(p, rw[p].pc, rw[p].asking - 1, rw[p].pending, rw[p].left, rw[p].read, rw[p].todo)
           /\ NextRun(p) =>
              Moves(p, "waiting", rw[p].asking, FALSE, Limit, rw[p].read, rw[p].todo)
           /\ NoMoreRuns(p) =>
              Moves(p, "idle", rw[p].asking, rw[p].pending, rw[p].left, rw[p].read, rw[p].todo)
           /\ TakeTurn(p) =>
              Moves(p, "turn", rw[p].asking, rw[p].pending, rw[p].left, rw[p].read, rw[p].todo)
           /\ NoTurnCame(p) =>
              Moves(p, "next", rw[p].asking, rw[p].pending, rw[p].left, rw[p].read, rw[p].todo)
           /\ LoadWindows(p) =>
              Moves(p, "writing", rw[p].asking, rw[p].pending, rw[p].left, policy, Slices)
           /\ CutShort(p) =>
              Moves(p, "returning", rw[p].asking, rw[p].pending, rw[p].left, rw[p].read, {})
           /\ ReturnTurn(p) =>
              Moves(p, "next", rw[p].asking, rw[p].pending, rw[p].left, rw[p].read, rw[p].todo)
           /\ ReturnFails(p) =>
              Moves(p, "next", rw[p].asking, rw[p].pending, rw[p].left, rw[p].read, rw[p].todo)
           /\ StopRewrites(p) =>
              Moves(p, rw[p].pc, rw[p].asking, rw[p].pending, 0, rw[p].read, rw[p].todo)
           /\ Exit(p) =>
              Moves(p, "down", 0, FALSE, 0, 0, {})
           /\ Start(p) =>
              Moves(p, "idle", 0, FALSE, 0, 0, {})
           /\ \A s \in Slices : WriteSlice(p, s) /\ rw[p].todo = {s} =>
              Moves(p, "returning", rw[p].asking, rw[p].pending, rw[p].left, rw[p].read, {})
           /\ \A s \in Slices : WriteSlice(p, s) /\ rw[p].todo # {s} =>
              Moves(p, rw[p].pc, rw[p].asking, rw[p].pending, rw[p].left, rw[p].read, rw[p].todo \ {s})
<1>0. rw[p] \in Rewriter /\ rw[p].todo \in SUBSET Slices
    BY DEF Rewriter
<1>1. Change(p) =>
       Moves(p, rw[p].pc, rw[p].asking + 1, rw[p].pending, rw[p].left, rw[p].read, rw[p].todo)
    BY <1>0 DEF Change, Moves, Rewriter
<1>2. Ask(p) =>
       Moves(p, IF rw[p].pc = "idle" THEN "next" ELSE rw[p].pc, rw[p].asking - 1, TRUE, rw[p].left, rw[p].read, rw[p].todo)
    BY <1>0 DEF Ask, Asked, Moves, Rewriter
<1>3. AskRefused(p) =>
       Moves(p, rw[p].pc, rw[p].asking - 1, rw[p].pending, rw[p].left, rw[p].read, rw[p].todo)
    BY <1>0 DEF AskRefused, Moves, Rewriter
<1>4. NextRun(p) =>
       Moves(p, "waiting", rw[p].asking, FALSE, Limit, rw[p].read, rw[p].todo)
    BY <1>0 DEF NextRun, Moves, Rewriter
<1>5. NoMoreRuns(p) =>
       Moves(p, "idle", rw[p].asking, rw[p].pending, rw[p].left, rw[p].read, rw[p].todo)
    BY <1>0 DEF NoMoreRuns, Moves, Rewriter
<1>6. TakeTurn(p) =>
       Moves(p, "turn", rw[p].asking, rw[p].pending, rw[p].left, rw[p].read, rw[p].todo)
    BY <1>0 DEF TakeTurn, Moves, Rewriter
<1>7. NoTurnCame(p) =>
       Moves(p, "next", rw[p].asking, rw[p].pending, rw[p].left, rw[p].read, rw[p].todo)
    BY <1>0 DEF NoTurnCame, Moves, Rewriter
<1>8. LoadWindows(p) =>
       Moves(p, "writing", rw[p].asking, rw[p].pending, rw[p].left, policy, Slices)
    BY <1>0 DEF LoadWindows, Moves, Rewriter
<1>9. CutShort(p) =>
       Moves(p, "returning", rw[p].asking, rw[p].pending, rw[p].left, rw[p].read, {})
    BY <1>0 DEF CutShort, Moves, Rewriter
<1>10. ReturnTurn(p) =>
       Moves(p, "next", rw[p].asking, rw[p].pending, rw[p].left, rw[p].read, rw[p].todo)
    BY <1>0 DEF ReturnTurn, Moves, Rewriter
<1>11. ReturnFails(p) =>
       Moves(p, "next", rw[p].asking, rw[p].pending, rw[p].left, rw[p].read, rw[p].todo)
    BY <1>0 DEF ReturnFails, Moves, Rewriter
<1>12. StopRewrites(p) =>
       Moves(p, rw[p].pc, rw[p].asking, rw[p].pending, 0, rw[p].read, rw[p].todo)
    BY <1>0 DEF StopRewrites, Moves, Rewriter
<1>13. Exit(p) =>
       Moves(p, "down", 0, FALSE, 0, 0, {})
    BY <1>0 DEF Exit, Fresh, Moves, Rewriter
<1>14. Start(p) =>
       Moves(p, "idle", 0, FALSE, 0, 0, {})
    BY <1>0 DEF Start, Fresh, Moves, Rewriter
<1>15. ASSUME NEW s \in Slices, WriteSlice(p, s), rw[p].todo = {s}
       PROVE Moves(p, "returning", rw[p].asking, rw[p].pending, rw[p].left, rw[p].read, {})
    <2>1. rw' = [rw EXCEPT ![p] = [@ EXCEPT !.pc = "returning", !.todo = {}]]
        BY <1>15 DEF WriteSlice
    <2> QED BY <1>0, <2>1 DEF Moves, Rewriter
<1>16. ASSUME NEW s \in Slices, WriteSlice(p, s), rw[p].todo # {s}
       PROVE Moves(p, rw[p].pc, rw[p].asking, rw[p].pending, rw[p].left, rw[p].read, rw[p].todo \ {s})
    BY <1>0, <1>16 DEF WriteSlice, Moves, Rewriter
<1> QED BY <1>1, <1>2, <1>3, <1>4, <1>5, <1>6, <1>7, <1>8, <1>9, <1>10, <1>11, <1>12, <1>13, <1>14, <1>15, <1>16

\* A step of one rewriter's process is nothing to the others.
LEMMA OthersStay ==
    ASSUME rw \in [Procs -> Rewriter], NEW p \in Procs, NEW q \in Procs \ {p},
           Handler(p) \/ Run(p) \/ Process(p)
    PROVE  rw'[q] = rw[q]
<1>1. Change(p) \/ Ask(p) \/ AskRefused(p) => rw'[q] = rw[q]
    BY DEF Change, Ask, AskRefused
<1>2. ChangeAnswerLost(p) \/ TakeAnswerLost(p) => rw' = rw
    BY DEF ChangeAnswerLost, TakeAnswerLost
<1>3. NextRun(p) \/ NoMoreRuns(p) \/ TakeTurn(p) \/ NoTurnCame(p) => rw'[q] = rw[q]
    BY DEF NextRun, NoMoreRuns, TakeTurn, NoTurnCame
<1>4. LoadWindows(p) \/ CutShort(p) \/ ReturnTurn(p) \/ ReturnFails(p) => rw'[q] = rw[q]
    BY DEF LoadWindows, CutShort, ReturnTurn, ReturnFails
<1>5. ASSUME NEW s \in Slices, WriteSlice(p, s)
      PROVE  rw'[q] = rw[q]
    BY <1>5 DEF WriteSlice
<1>6. StopRewrites(p) \/ Exit(p) \/ Start(p) => rw'[q] = rw[q]
    BY DEF StopRewrites, Exit, Start
<1> QED BY <1>1, <1>2, <1>3, <1>4, <1>5, <1>6 DEF Handler, Run, Process

LEMMA TickMoves ==
    ASSUME rw \in [Procs -> Rewriter], Tick, NEW q \in Procs
    PROVE  /\ rw'[q].pc = rw[q].pc /\ rw'[q].asking = rw[q].asking
           /\ rw'[q].pending = rw[q].pending
           /\ rw'[q].read = rw[q].read /\ rw'[q].todo = rw[q].todo
           /\ rw'[q].left \in Nat /\ rw'[q].left <= rw[q].left
           /\ rw[q].left > 0 => rw'[q].left < rw[q].left
           /\ rw'[q].left > 0 => rw'[q].left = rw[q].left - 1
<1>1. rw[q] \in Rewriter /\ rw[q].left \in Nat
    BY DEF Rewriter
<1>2. rw'[q] = [rw[q] EXCEPT !.left = IF rw[q].left > 0 /\ rw[q].pc \in {"waiting", "turn", "writing"}
                                      THEN rw[q].left - 1 ELSE 0]
    BY DEF Tick
<1> QED BY <1>1, <1>2 DEF Rewriter

----------------------------------------------------------------------------
(* Turns.  A run with time left holds the lease for at least as long as its *)
(* own bound, or has less left than two clocks can differ by: that is when  *)
(* a process whose clock is ahead may have taken it.                        *)

BoundInv ==
    \A p \in Procs :
        /\ rw[p].left <= Limit
        /\ rw[p].pc = "down" => rw[p].asking = 0 /\ ~rw[p].pending

HasTheLease(p) == lease.by = p /\ lease.left >= rw[p].left + Ahead[p]

TurnInv == \A p \in Procs : InTurn(p) => HasTheLease(p) \/ rw[p].left < Spread

LeaseInv == TypeOK /\ BoundInv /\ TurnInv

LEMMA BoundStep == ASSUME TypeOK, BoundInv, [Next]_vars PROVE BoundInv'
<1>0. rw \in [Procs -> Rewriter] /\ \A p \in Procs : rw[p].left \in Nat
    BY DEF TypeOK, Rewriter
<1> SUFFICES ASSUME NEW q \in Procs
             PROVE  /\ rw'[q].left <= Limit
                    /\ rw'[q].pc = "down" => rw'[q].asking = 0 /\ ~rw'[q].pending
    BY DEF BoundInv
<1> DEFINE Bound == /\ rw'[q].left <= Limit
                    /\ rw'[q].pc = "down" => rw'[q].asking = 0 /\ ~rw'[q].pending
<1>1. /\ rw[q].left <= Limit
      /\ rw[q].pc = "down" => rw[q].asking = 0 /\ ~rw[q].pending
    BY DEF BoundInv
<1>2. CASE rw'[q] = rw[q]
    BY <1>1, <1>2
<1>3. ASSUME NEW p \in Procs, Handler(p) PROVE Bound
    <2>1. ChangeAnswerLost(p) => rw' = rw
        BY DEF ChangeAnswerLost
    <2>2. Change(p) => rw[p].pc # "down"
        BY DEF Change
    <2>3. Ask(p) \/ AskRefused(p) => ~(rw[p].asking = 0)
        BY <1>0 DEF Ask, AskRefused
    <2>4. CASE p = q
        BY <1>0, <1>1, <1>2, <1>3, <2>1, <2>2, <2>3, <2>4, StepMoves DEF Handler, Moves
    <2>5. CASE p # q
        <3>1. rw'[q] = rw[q]
            BY <1>0, <1>3, <2>5, OthersStay
        <3> QED BY <1>2, <3>1
    <2> QED BY <2>4, <2>5
<1>4. ASSUME NEW p \in Procs, Run(p) PROVE Bound
    <2>1. TakeAnswerLost(p) => rw' = rw
        BY DEF TakeAnswerLost
    <2>2. \A s \in Slices : WriteSlice(p, s) => rw[p].pc = "writing"
        BY DEF WriteSlice
    <2>3. CASE p = q
        <3>1. CASE NextRun(p)
            <4>1. rw'[q].left = Limit /\ rw'[q].pc = "waiting"
                BY <1>0, <2>3, <3>1, StepMoves DEF Moves
            <4> QED BY <4>1
        <3>2. CASE ~NextRun(p)
            <4>1. /\ rw'[q].left = rw[q].left
                  /\ rw'[q].asking = rw[q].asking /\ rw'[q].pending = rw[q].pending
                  /\ rw'[q].pc = "down" => rw[q].pc = "down"
                BY <1>0, <1>4, <2>1, <2>2, <2>3, <3>2, StepMoves DEF Run, Moves
            <4> QED BY <1>1, <4>1
        <3> QED BY <3>1, <3>2
    <2>4. CASE p # q
        BY <1>0, <1>2, <1>4, <2>1, <2>4, StepMoves DEF Run, Moves
    <2> QED BY <2>3, <2>4
<1>5. ASSUME NEW p \in Procs, Process(p) PROVE Bound
    <2>1. CASE p = q
        <3>1. CASE StopRewrites(p)
            <4>1. /\ rw'[q].left = 0 /\ rw'[q].pc = rw[q].pc
                  /\ rw'[q].asking = rw[q].asking /\ rw'[q].pending = rw[q].pending
                BY <1>0, <2>1, <3>1, StepMoves DEF Moves
            <4> QED BY <1>1, <4>1
        <3>2. CASE Exit(p) \/ Start(p)
            <4>1. rw'[q].left = 0 /\ rw'[q].asking = 0 /\ rw'[q].pending = FALSE
                BY <1>0, <2>1, <3>2, StepMoves DEF Moves
            <4> QED BY <4>1
        <3> QED BY <1>5, <3>1, <3>2 DEF Process
    <2>2. CASE p # q
        BY <1>0, <1>2, <1>5, <2>2, StepMoves DEF Process, Moves
    <2> QED BY <2>1, <2>2
<1>6. CASE Scan
    BY <1>2, <1>6 DEF Scan, ScanReads, ScanCommits
<1>7. CASE Tick
    BY <1>0, <1>1, <1>7, TickMoves
<1>8. CASE UNCHANGED vars
    BY <1>2, <1>8 DEF vars
<1> QED BY <1>3, <1>4, <1>5, <1>6, <1>7, <1>8 DEF Next

\* What a step of p leaves of another run's turn.
LEMMA TurnOfAnother ==
    ASSUME TypeOK, TurnInv, NEW p \in Procs, NEW q \in Procs, p # q,
           rw'[q] = rw[q], InTurn(q),
           \/ lease' = lease
           \/ Takeable(p)
           \/ lease' = Released(p)
           \/ lease' = Orphaned(p)
    PROVE  lease' = lease \/ lease.by = p \/ rw[q].left < Spread
<1>1. lease.left \in Int /\ rw[q].left \in Nat /\ Ahead[p] \in Nat /\ Ahead[q] \in Nat
    BY DEF TypeOK, Rewriter, LeaseRow
<1>2. Ahead[p] - Ahead[q] <= Spread
    OBVIOUS
<1>3. CASE Takeable(p)
    BY <1>1, <1>2, <1>3 DEF TurnInv, HasTheLease, Takeable, Lapsed
<1> QED BY <1>3 DEF Released, Orphaned

LEMMA TurnStep == ASSUME TypeOK, BoundInv, TurnInv, [Next]_vars PROVE TurnInv'
<1>0. /\ rw \in [Procs -> Rewriter] /\ lease \in LeaseRow
      /\ \A p \in Procs : rw[p].left \in Nat /\ Ahead[p] \in Nat /\ rw[p].left <= Limit
    BY DEF TypeOK, Rewriter, BoundInv
<1>1. ASSUME NEW p \in Procs, Handler(p) \/ Run(p) \/ Process(p) PROVE TurnInv'
    <2> SUFFICES ASSUME NEW q \in Procs, InTurn(q)'
                 PROVE  HasTheLease(q)' \/ rw'[q].left < Spread
        BY DEF TurnInv
    <2>1. /\ rw' = [rw EXCEPT ![p] = rw'[p]]
          /\ \/ lease' = lease
             \/ Takeable(p)
             \/ lease' = Released(p)
             \/ lease' = Orphaned(p)
        BY <1>0, <1>1
           DEF Handler, Change, ChangeAnswerLost, Ask, AskRefused,
               Run, NextRun, NoMoreRuns, TakeTurn, TakeAnswerLost, NoTurnCame, LoadWindows,
               CutShort, ReturnTurn, ReturnFails, WriteSlice, Process, StopRewrites, Exit, Start
    <2>2. CASE q # p
        <3>1. rw'[q] = rw[q] /\ InTurn(q)
            BY <1>0, <2>1, <2>2 DEF InTurn
        <3>2. lease' = lease \/ lease.by = p \/ rw[q].left < Spread
            BY <2>1, <2>2, <3>1, TurnOfAnother
        <3> QED BY <2>2, <3>1, <3>2 DEF TurnInv, HasTheLease
    <2>3. CASE q = p
        <3>1. CASE TakeTurn(p)
            BY <1>0, <2>3, <3>1 DEF TakeTurn, HasTheLease, HeldFor, LeaseRow
        <3>2. CASE LoadWindows(p) \/ \E s \in Slices : WriteSlice(p, s)
            <4>1. InTurn(p) /\ lease' = lease
                BY <3>2 DEF LoadWindows, WriteSlice, InTurn
            <4>2. rw'[p].left = rw[p].left
                BY <1>0, <3>2, StepMoves DEF Moves
            <4> QED BY <2>3, <4>1, <4>2 DEF TurnInv, HasTheLease
        <3>3. CASE Change(p) \/ ChangeAnswerLost(p) \/ Ask(p) \/ AskRefused(p)
            <4>1. lease' = lease
                BY <3>3 DEF Change, ChangeAnswerLost, Ask, AskRefused
            <4>2. ChangeAnswerLost(p) => rw' = rw
                BY DEF ChangeAnswerLost
            <4>3. rw'[p].left = rw[p].left /\ (rw'[p].pc = rw[p].pc \/ rw'[p].pc = "next")
                BY <1>0, <3>3, <4>2, StepMoves DEF Moves
            <4> QED BY <2>3, <4>1, <4>3 DEF TurnInv, HasTheLease, InTurn
        <3>4. CASE \/ NextRun(p) \/ NoMoreRuns(p) \/ NoTurnCame(p) \/ CutShort(p)
                   \/ ReturnTurn(p) \/ ReturnFails(p)
            BY <1>0, <2>3, <3>4, StepMoves DEF Moves, InTurn
        <3>5. CASE TakeAnswerLost(p)
            BY <2>3, <3>5 DEF TakeAnswerLost, InTurn
        <3>6. CASE Process(p)
            <4>1. CASE StopRewrites(p)
                <5>1. rw'[p].left = 0
                    BY <1>0, <4>1, StepMoves DEF Moves
                <5> QED BY <2>3, <5>1 DEF InTurn
            <4>2. CASE Exit(p) \/ Start(p)
                BY <1>0, <2>3, <4>2, StepMoves DEF Moves, InTurn
            <4> QED BY <3>6, <4>1, <4>2 DEF Process
        <3> QED BY <1>1, <3>1, <3>2, <3>3, <3>4, <3>5, <3>6 DEF Handler, Run
    <2> QED BY <2>2, <2>3
<1>2. CASE Scan
    BY <1>2 DEF Scan, ScanReads, ScanCommits, TurnInv, InTurn, HasTheLease
<1>3. CASE Tick
    <2> SUFFICES ASSUME NEW q \in Procs, InTurn(q)'
                 PROVE  HasTheLease(q)' \/ rw'[q].left < Spread
        BY DEF TurnInv
    <2>1. InTurn(q) /\ rw'[q].left = rw[q].left - 1 /\ rw'[q].left <= rw[q].left
        BY <1>0, <1>3, TickMoves DEF InTurn
    <2>2. lease' = Aged
        BY <1>3 DEF Tick
    <2>3. CASE HasTheLease(q)
        BY <1>0, <2>1, <2>2, <2>3 DEF Aged, HasTheLease, LeaseRow
    <2>4. CASE rw[q].left < Spread
        BY <1>0, <2>1, <2>4
    <2> QED BY <2>1, <2>3, <2>4 DEF TurnInv
<1>4. CASE UNCHANGED vars
    BY <1>4 DEF vars, TurnInv, InTurn, HasTheLease
<1> QED BY <1>1, <1>2, <1>3, <1>4 DEF Next

LEMMA LeaseInvariant == Spec => []LeaseInv
<1>1. Init => BoundInv /\ TurnInv
    BY DEF Init, Fresh, BoundInv, TurnInv, InTurn
<1>2. TypeOK /\ TypeOK' /\ BoundInv /\ TurnInv /\ [Next]_vars => BoundInv' /\ TurnInv'
    BY BoundStep, TurnStep
<1> QED BY <1>1, <1>2, TypeCorrect, PTL DEF Spec, LeaseInv

\* For every set of clocks, two rewrites that both have time left overlap only
\* while one has less of it than the clocks differ by.
THEOREM RewritesDoNotOverlap == Spec => []OneRewriteAtATime
<1>1. LeaseInv => OneRewriteAtATime
    BY DEF LeaseInv, TurnInv, HasTheLease, OneRewriteAtATime
<1> QED BY <1>1, LeaseInvariant, PTL

----------------------------------------------------------------------------
(* Where the clocks agree.  Only one run writes at a time, so what it has  *)
(* walked stays as it wrote it, and what it has not is no newer than what  *)
(* it read.                                                                *)

VersionInv ==
    /\ \A p \in Procs : rw[p].read <= policy
    /\ \A s \in Slices : due[s] <= policy
    /\ scan.read <= policy

Walks(p) == InTurn(p) /\ rw[p].pc = "writing"

WalkInv ==
    \A p \in Procs : Walks(p) =>
        \A s \in Slices \ scanned :
            due[s] <= rw[p].read /\ (s \notin rw[p].todo => due[s] = rw[p].read)

LEMMA OneTurn ==
    ASSUME TypeOK, TurnInv, Spread = 0, NEW p \in Procs, NEW q \in Procs, InTurn(p), InTurn(q)
    PROVE  p = q
<1>1. rw[p].left \in Nat /\ rw[q].left \in Nat
    BY DEF TypeOK, Rewriter
<1> QED BY <1>1 DEF TurnInv, HasTheLease

\* What each step does to the policy, the deadlines and who wrote them.
LEMMA DataSteps ==
    ASSUME NEW p \in Procs
    PROVE  /\ Handler(p) => policy' \in {policy, policy + 1} /\ UNCHANGED <<due, scanned, scan>>
           /\ Process(p) => UNCHANGED <<policy, due, scanned, scan>>
           /\ Run(p) => policy' = policy /\ scan' = scan
           /\ Run(p) /\ (\A s \in Slices : ~WriteSlice(p, s)) => UNCHANGED <<due, scanned>>
<1>1. Handler(p) => policy' \in {policy, policy + 1} /\ UNCHANGED <<due, scanned, scan>>
    BY DEF Handler, Change, ChangeAnswerLost, Ask, AskRefused
<1>2. Process(p) => UNCHANGED <<policy, due, scanned, scan>>
    BY DEF Process, StopRewrites, Exit, Start
<1>3. Run(p) => policy' = policy /\ scan' = scan
    BY DEF Run, NextRun, NoMoreRuns, TakeTurn, TakeAnswerLost, NoTurnCame, LoadWindows, CutShort,
           ReturnTurn, ReturnFails, WriteSlice
<1>4. Run(p) /\ (\A s \in Slices : ~WriteSlice(p, s)) => UNCHANGED <<due, scanned>>
    BY DEF Run, NextRun, NoMoreRuns, TakeTurn, TakeAnswerLost, NoTurnCame, LoadWindows, CutShort,
           ReturnTurn, ReturnFails
<1> QED BY <1>1, <1>2, <1>3, <1>4

\* What a rewriter has read, it keeps until it reads again or its process ends.
LEMMA ReadSteps ==
    ASSUME rw \in [Procs -> Rewriter], NEW p \in Procs, NEW q \in Procs,
           Handler(p) \/ Run(p) \/ Process(p)
    PROVE  rw'[q].read \in {rw[q].read, 0} \/ (LoadWindows(p) /\ q = p /\ rw'[q].read = policy)
<1>1. ChangeAnswerLost(p) \/ TakeAnswerLost(p) => rw' = rw
    BY DEF ChangeAnswerLost, TakeAnswerLost
<1>2. CASE q # p
    BY <1>1, <1>2, StepMoves DEF Handler, Run, Process, Moves
<1>3. CASE q = p
    BY <1>1, <1>3, StepMoves DEF Handler, Run, Process, Moves
<1> QED BY <1>2, <1>3

LEMMA VersionStep == ASSUME TypeOK, VersionInv, [Next]_vars PROVE VersionInv'
<1>0. /\ rw \in [Procs -> Rewriter] /\ policy \in Nat /\ due \in [Slices -> Nat]
      /\ \A p \in Procs : rw[p].read \in Nat
      /\ scan.read \in Nat
    BY DEF TypeOK, Rewriter
<1>1. ASSUME NEW p \in Procs, Handler(p) \/ Run(p) \/ Process(p) PROVE VersionInv'
    <2>1. policy' \in {policy, policy + 1} /\ scan' = scan
        BY <1>1, DataSteps
    <2>2. \A q \in Procs : rw'[q].read <= policy'
        BY <1>0, <1>1, <2>1, ReadSteps DEF VersionInv
    <2>3. \A s \in Slices : due'[s] <= policy'
        <3>1. CASE \E s \in Slices : WriteSlice(p, s)
            BY <1>0, <2>1, <3>1 DEF WriteSlice, VersionInv
        <3>2. CASE ~\E s \in Slices : WriteSlice(p, s)
            <4>1. due' = due
                BY <1>1, <3>2, DataSteps
            <4> QED BY <1>0, <2>1, <4>1 DEF VersionInv
        <3> QED BY <3>1, <3>2
    <2> QED BY <1>0, <2>1, <2>2, <2>3 DEF VersionInv
<1>2. CASE Scan
    <2>1. CASE ScanReads
        BY <1>0, <2>1 DEF ScanReads, VersionInv
    <2>2. ASSUME NEW s \in Slices, ScanCommits(s) PROVE VersionInv'
        BY <1>0, <2>2 DEF ScanCommits, VersionInv
    <2> QED BY <1>2, <2>1, <2>2 DEF Scan
<1>3. CASE Tick
    <2>1. \A q \in Procs : rw'[q].read = rw[q].read
        BY <1>0, <1>3, TickMoves
    <2> QED BY <1>3, <2>1 DEF Tick, VersionInv
<1>4. CASE UNCHANGED vars
    BY <1>4 DEF vars, VersionInv
<1> QED BY <1>1, <1>2, <1>3, <1>4 DEF Next

\* A rewriter that walks after a step walked before it, with what it had read,
\* or has just read the policy.
LEMMA WalkSteps ==
    ASSUME TypeOK, NEW p \in Procs, NEW q \in Procs,
           Handler(p) \/ Run(p) \/ Process(p), Walks(q)'
    PROVE  \/ q = p /\ LoadWindows(p)
           \/ /\ Walks(q) /\ rw'[q].read = rw[q].read
              /\ \/ rw'[q].todo = rw[q].todo /\ (q = p => \A s \in Slices : ~WriteSlice(p, s))
                 \/ \E s \in Slices : /\ q = p /\ WriteSlice(p, s)
                                       /\ rw'[q].todo = rw[q].todo \ {s}
<1>0. rw \in [Procs -> Rewriter]
    BY DEF TypeOK
<1>1. ChangeAnswerLost(p) \/ TakeAnswerLost(p) => rw' = rw
    BY DEF ChangeAnswerLost, TakeAnswerLost
<1>2. CASE q # p
    <2>1. rw'[q] = rw[q]
        BY <1>0, <1>2, OthersStay
    <2> QED BY <1>2, <2>1 DEF Walks, InTurn
<1>3. CASE q = p
    <2>1. CASE \E s \in Slices : WriteSlice(p, s)
        <3>1. PICK s \in Slices : WriteSlice(p, s)
            BY <2>1
        <3>2. rw[p].todo # {s}
            BY <1>0, <1>3, <3>1, StepMoves DEF Moves, Walks
        <3>3. rw'[p].read = rw[p].read /\ rw'[p].todo = rw[p].todo \ {s}
            BY <1>0, <3>1, <3>2, StepMoves DEF Moves
        <3>4. Walks(p)
            BY <3>1 DEF WriteSlice, Walks, InTurn
        <3> QED BY <1>3, <3>1, <3>3, <3>4
    <2>2. CASE LoadWindows(p)
        BY <1>3, <2>2
    <2>3. CASE ~LoadWindows(p) /\ ~\E s \in Slices : WriteSlice(p, s)
        <3>1. rw'[p].pc = "writing" /\ rw'[p].left > 0
            BY <1>3 DEF Walks, InTurn
        <3>2. rw'[p].pc = rw[p].pc /\ rw'[p].left \in {rw[p].left, 0}
              /\ rw'[p].read = rw[p].read /\ rw'[p].todo = rw[p].todo
            BY <1>0, <1>1, <2>3, <3>1, StepMoves DEF Handler, Run, Process, Moves
        <3> QED BY <1>3, <2>3, <3>1, <3>2 DEF Walks, InTurn
    <2> QED BY <2>1, <2>2, <2>3
<1> QED BY <1>2, <1>3

LEMMA WalkStep ==
    ASSUME TypeOK, TurnInv, VersionInv, WalkInv, Spread = 0, [Next]_vars
    PROVE  WalkInv'
<1>0. /\ rw \in [Procs -> Rewriter] /\ policy \in Nat /\ due \in [Slices -> Nat]
      /\ scanned \in SUBSET Slices
      /\ \A p \in Procs : rw[p].read \in Nat
    BY DEF TypeOK, Rewriter
<1> SUFFICES ASSUME NEW q \in Procs, Walks(q)', NEW s \in Slices, s \notin scanned'
             PROVE  due'[s] <= rw'[q].read /\ (s \notin rw'[q].todo => due'[s] = rw'[q].read)
    BY DEF WalkInv
<1>1. ASSUME NEW p \in Procs, Handler(p) \/ Run(p) \/ Process(p)
      PROVE  due'[s] <= rw'[q].read /\ (s \notin rw'[q].todo => due'[s] = rw'[q].read)
    <2>1. CASE q = p /\ LoadWindows(p)
        <3>1. rw'[p].read = policy /\ rw'[p].todo = Slices
            BY <1>0, <2>1, StepMoves DEF Moves
        <3>2. due' = due
            BY <2>1 DEF LoadWindows
        <3> QED BY <2>1, <3>1, <3>2 DEF VersionInv
    <2>2. CASE Walks(q) /\ rw'[q].read = rw[q].read /\ rw'[q].todo = rw[q].todo
               /\ (q = p => \A t \in Slices : ~WriteSlice(p, t))
        <3>1. \A t \in Slices : ~WriteSlice(p, t)
            <4>1. \A t \in Slices : WriteSlice(p, t) => InTurn(p)
                BY DEF WriteSlice, InTurn
            <4> QED BY <2>2, <4>1, OneTurn DEF Walks
        <3>2. due' = due /\ scanned' = scanned
            BY <1>1, <3>1, DataSteps
        <3> QED BY <2>2, <3>2 DEF WalkInv
    <2>3. CASE Walks(q) /\ rw'[q].read = rw[q].read
               /\ \E t \in Slices : q = p /\ WriteSlice(p, t) /\ rw'[q].todo = rw[q].todo \ {t}
        <3>1. PICK t \in Slices : WriteSlice(p, t) /\ rw'[q].todo = rw[q].todo \ {t}
            BY <2>3
        <3>2. due' = [due EXCEPT ![t] = rw[p].read] /\ scanned' = scanned \ {t}
            BY <3>1 DEF WriteSlice
        <3> QED BY <1>0, <2>3, <3>1, <3>2 DEF WalkInv
    <2> QED BY <1>1, <2>1, <2>2, <2>3, WalkSteps
<1>2. CASE Scan
    <2>1. rw' = rw /\ Walks(q)
        BY <1>2 DEF Scan, ScanReads, ScanCommits, Walks, InTurn
    <2>2. s \notin scanned /\ due'[s] = due[s]
        BY <1>0, <1>2 DEF Scan, ScanReads, ScanCommits
    <2> QED BY <2>1, <2>2 DEF WalkInv
<1>3. CASE Tick
    <2>1. rw'[q].read = rw[q].read /\ rw'[q].todo = rw[q].todo /\ Walks(q)
        <3>1. rw[q].left \in Nat
            BY DEF TypeOK, Rewriter
        <3> QED BY <1>0, <1>3, <3>1, TickMoves DEF Walks, InTurn
    <2>2. due' = due /\ scanned' = scanned
        BY <1>3 DEF Tick
    <2> QED BY <2>1, <2>2 DEF WalkInv
<1>4. CASE UNCHANGED vars
    BY <1>4 DEF vars, WalkInv, Walks, InTurn
<1> QED BY <1>1, <1>2, <1>3, <1>4 DEF Next

\* Where the clocks agree, no rewrite puts back deadlines older than those it
\* finds.
THEOREM TheLastRewriteIsTheNewest == Spec => NeverPutsBack
<1> DEFINE W == Spread = 0 => WalkInv
<1>1. Init => VersionInv /\ W
    BY DEF Init, Fresh, VersionInv, WalkInv, Walks, InTurn
<1>2. TypeOK /\ VersionInv /\ [Next]_vars => VersionInv'
    BY VersionStep
<1>3. LeaseInv /\ VersionInv /\ W /\ [Next]_vars => W'
    BY WalkStep DEF LeaseInv
<1>4. LeaseInv /\ W /\ [Next]_vars
      => [Spread = 0 => \A s \in Slices : s \notin scanned /\ s \notin scanned' => due'[s] >= due[s]]_vars
    <2> SUFFICES ASSUME LeaseInv, W, Next, Spread = 0,
                        NEW s \in Slices, s \notin scanned, s \notin scanned'
                 PROVE  due'[s] >= due[s]
        OBVIOUS
    <2>0. due \in [Slices -> Nat] /\ \A p \in Procs : rw[p].read \in Nat
        BY DEF LeaseInv, TypeOK, Rewriter
    <2>1. ASSUME NEW p \in Procs, NEW t \in Slices, WriteSlice(p, t) PROVE due'[s] >= due[s]
        <3>1. Walks(p)
            BY <2>1 DEF WriteSlice, Walks, InTurn
        <3>2. due[s] <= rw[p].read
            BY <3>1 DEF WalkInv
        <3> QED BY <2>0, <2>1, <3>2 DEF WriteSlice
    <2>2. ASSUME NEW p \in Procs, Handler(p) \/ Run(p) \/ Process(p),
                 ~\E t \in Slices : WriteSlice(p, t)
          PROVE  due'[s] >= due[s]
        BY <2>0, <2>2, DataSteps
    <2>3. ASSUME Scan PROVE due'[s] >= due[s]
        BY <2>0, <2>3 DEF Scan, ScanReads, ScanCommits
    <2>4. ASSUME Tick PROVE due'[s] >= due[s]
        BY <2>0, <2>4 DEF Tick
    <2> QED BY <2>1, <2>2, <2>3, <2>4 DEF Next
<1> HIDE DEF W
<1> QED BY <1>1, <1>2, <1>3, <1>4, LeaseInvariant, TypeCorrect, PTL DEF Spec, NeverPutsBack

----------------------------------------------------------------------------
(* What is owed.  Stale deadlines are not the only thing that needs another *)
(* rewrite: so does a walk that goes on writing a policy that has moved.    *)

Stale == \E s \in Slices \ scanned : due[s] # policy

StaleWalk == \E p \in Procs : Walks(p) /\ rw[p].read # policy

OwedInv == Stale \/ StaleWalk => lost \/ \E p \in Procs : Renews(p)

\* Whoever renews goes on to, or a step that stops it says so; the one that ends
\* by walking the last slice is taken up in OwedStep.
LEMMA RenewsStep ==
    ASSUME TypeOK, BoundInv, NEW p \in Procs, NEW q \in Procs, Renews(q),
           Handler(p) \/ Run(p) \/ Process(p),
           ~\E s \in Slices : WriteSlice(p, s) /\ rw[p].todo = {s}
    PROVE  lost' \/ \E r \in Procs : Renews(r)'
<1>0. rw \in [Procs -> Rewriter] /\ \A r \in Procs : rw[r].asking \in Nat
    BY DEF TypeOK, Rewriter
<1>1. ChangeAnswerLost(p) \/ AskRefused(p) \/ NoTurnCame(p) \/ CutShort(p) => lost'
    BY DEF ChangeAnswerLost, AskRefused, NoTurnCame, CutShort
<1>2. CASE Change(p)
    <2>1. rw'[p].asking = rw[p].asking + 1
        BY <1>0, <1>2, StepMoves DEF Moves
    <2> QED BY <1>0, <2>1 DEF Renews
<1>3. CASE LoadWindows(p)
    <2>1. rw'[p].pc = "writing" /\ rw'[p].read = policy /\ policy' = policy
        <3>1. policy' = policy
            BY <1>3 DEF LoadWindows
        <3> QED BY <1>0, <1>3, <3>1, StepMoves DEF Moves
    <2> QED BY <2>1 DEF Renews
<1>4. CASE Ask(p) \/ NextRun(p) \/ TakeTurn(p)
    <2>1. rw'[p].pending = TRUE \/ rw'[p].pc \in {"waiting", "turn"}
        BY <1>0, <1>4, StepMoves DEF Moves
    <2> QED BY <2>1 DEF Renews
<1>5. CASE NoMoreRuns(p) \/ Exit(p)
    <2>1. CASE q = p
        <3>1. Renews(p) => Owes(p)
            BY DEF Renews, Owes
        <3>2. CASE Exit(p)
            BY <2>1, <3>1, <3>2 DEF Exit
        <3>3. CASE NoMoreRuns(p)
            <4>1. CASE rw[p].pending
                BY <3>3, <4>1 DEF NoMoreRuns
            <4>2. CASE rw[p].asking > 0
                <5>1. rw'[p].asking > 0
                    BY <1>0, <3>3, <4>2, StepMoves DEF Moves
                <5> QED BY <5>1 DEF Renews
            <4> QED BY <2>1, <3>3, <4>1, <4>2 DEF NoMoreRuns, Renews
        <3> QED BY <1>5, <3>2, <3>3
    <2>2. CASE q # p
        <3>1. rw'[q] = rw[q] /\ policy' = policy
            <4>1. policy' = policy
                BY <1>5 DEF NoMoreRuns, Exit
            <4> QED BY <1>0, <1>5, <2>2, <4>1, StepMoves DEF Moves
        <3> QED BY <3>1 DEF Renews
    <2> QED BY <2>1, <2>2
<1>6. CASE TakeAnswerLost(p)
    BY <1>6 DEF TakeAnswerLost, Renews
<1>7. CASE \/ ReturnTurn(p) \/ ReturnFails(p) \/ StopRewrites(p) \/ Start(p)
           \/ \E s \in Slices : WriteSlice(p, s)
    <2>1. policy' = policy
        BY <1>7 DEF ReturnTurn, ReturnFails, StopRewrites, Start, WriteSlice
    <2>2. CASE q # p
        <3>1. rw'[q] = rw[q]
            BY <1>0, <1>7, <2>2, StepMoves DEF Moves
        <3> QED BY <2>1, <3>1 DEF Renews
    <2>3. CASE q = p
        <3>1. Start(p) => ~Renews(p)
            BY DEF BoundInv, Start, Renews
        <3>2. ReturnTurn(p) \/ ReturnFails(p) => rw[p].asking > 0 \/ rw[p].pending
            BY <2>3 DEF ReturnTurn, ReturnFails, Renews
        <3>3. /\ rw'[p].asking = rw[p].asking /\ rw'[p].pending = rw[p].pending
              /\ rw'[p].read = rw[p].read
              /\ rw'[p].pc = rw[p].pc \/ ReturnTurn(p) \/ ReturnFails(p)
            BY <1>0, <1>7, <2>3, <3>1, StepMoves DEF Moves
        <3> QED BY <2>1, <2>3, <3>2, <3>3 DEF Renews
    <2> QED BY <2>2, <2>3
<1> QED BY <1>1, <1>2, <1>3, <1>4, <1>5, <1>6, <1>7 DEF Handler, Run, Process

LEMMA OwedStep ==
    ASSUME TypeOK, BoundInv, TurnInv, WalkInv, OwedInv, Spread = 0, [Next]_vars
    PROVE  OwedInv'
<1>0. /\ rw \in [Procs -> Rewriter] /\ policy \in Nat /\ due \in [Slices -> Nat]
      /\ scanned \in SUBSET Slices
    BY DEF TypeOK
<1> SUFFICES ASSUME (Stale \/ StaleWalk)' PROVE lost' \/ \E p \in Procs : Renews(p)'
    BY DEF OwedInv
<1>1. ASSUME NEW p \in Procs, NEW s \in Slices, WriteSlice(p, s), rw[p].todo = {s}
      PROVE  lost' \/ \E r \in Procs : Renews(r)'
    <2>1. Walks(p) /\ policy' = policy
        BY <1>1 DEF WriteSlice, Walks, InTurn
    <2>2. CASE rw[p].read = policy
        <3>1. ~Stale'
            <4> SUFFICES ASSUME NEW t \in Slices, t \notin scanned' PROVE due'[t] = policy
                BY <2>1 DEF Stale
            <4>1. due' = [due EXCEPT ![s] = policy] /\ scanned' = scanned \ {s}
                BY <1>1, <2>2 DEF WriteSlice
            <4>2. CASE t # s
                BY <1>0, <1>1, <2>1, <2>2, <4>1, <4>2 DEF WalkInv
            <4> QED BY <1>0, <4>1, <4>2
        <3>2. ~StaleWalk'
            <4> SUFFICES ASSUME NEW q \in Procs, Walks(q)' PROVE FALSE
                BY DEF StaleWalk
            <4>1. CASE q = p
                <5>1. rw'[p].pc = "returning"
                    BY <1>0, <1>1, StepMoves DEF Moves
                <5> QED BY <4>1, <5>1 DEF Walks
            <4>2. CASE q # p
                <5>1. rw'[q] = rw[q]
                    BY <1>0, <1>1, <4>2, StepMoves DEF Moves
                <5> QED BY <2>1, <4>2, <5>1, OneTurn DEF Walks, InTurn
            <4> QED BY <4>1, <4>2
        <3> QED BY <3>1, <3>2
    <2>3. CASE rw[p].read # policy
        <3>1. StaleWalk
            BY <2>1, <2>3 DEF StaleWalk
        <3>2. lost => lost'
            BY <1>1, <2>3 DEF WriteSlice
        <3>3. ASSUME NEW q \in Procs, Renews(q) PROVE Renews(q)'
            <4>1. CASE q = p
                <5>1. rw[p].asking > 0 \/ rw[p].pending
                    BY <2>1, <2>3, <3>3, <4>1 DEF Renews, Walks
                <5>2. rw'[p].asking = rw[p].asking /\ rw'[p].pending = rw[p].pending
                    BY <1>0, <1>1, StepMoves DEF Moves
                <5> QED BY <4>1, <5>1, <5>2 DEF Renews
            <4>2. CASE q # p
                <5>1. rw'[q] = rw[q]
                    BY <1>0, <1>1, <4>2, StepMoves DEF Moves
                <5> QED BY <2>1, <3>3, <5>1 DEF Renews
            <4> QED BY <4>1, <4>2
        <3> QED BY <3>1, <3>2, <3>3 DEF OwedInv
    <2> QED BY <2>2, <2>3
<1>2. ASSUME NEW p \in Procs, Handler(p) \/ Run(p) \/ Process(p),
             ~\E s \in Slices : WriteSlice(p, s) /\ rw[p].todo = {s}
      PROVE  lost' \/ \E r \in Procs : Renews(r)'
    <2>1. CASE Change(p)
        <3>1. rw'[p].asking = rw[p].asking + 1
            BY <1>0, <2>1, StepMoves DEF Moves
        <3>2. rw[p].asking \in Nat
            BY DEF TypeOK, Rewriter
        <3> QED BY <3>1, <3>2 DEF Renews
    <2>2. CASE ChangeAnswerLost(p)
        BY <2>2 DEF ChangeAnswerLost
    <2>3. CASE ~Change(p) /\ ~ChangeAnswerLost(p)
        <3>1. policy' = policy
            <4>1. Handler(p) => policy' = policy
                BY <2>3 DEF Handler, Ask, AskRefused
            <4> QED BY <1>2, <4>1, DataSteps
        <3>2. lost => lost'
            BY <1>2, <2>3, Zenon
               DEF Handler, Ask, AskRefused, Run, NextRun, NoMoreRuns, TakeTurn, TakeAnswerLost,
                   NoTurnCame, LoadWindows, CutShort, ReturnTurn, ReturnFails, WriteSlice,
                   Process, StopRewrites, Exit, Start
        <3>3. CASE Stale \/ StaleWalk
            BY <1>2, <3>2, <3>3, RenewsStep DEF OwedInv
        <3>4. CASE ~Stale /\ ~StaleWalk
            <4>1. CASE StaleWalk'
                <5>1. PICK q \in Procs : Walks(q)' /\ rw'[q].read # policy
                    BY <3>1, <4>1 DEF StaleWalk
                <5>2. rw'[p].read = policy \/ ~LoadWindows(p)
                    BY <1>0, StepMoves DEF Moves
                <5> QED BY <1>2, <3>4, <5>1, <5>2, WalkSteps DEF StaleWalk
            <4>2. CASE Stale'
                <5>1. CASE \E s \in Slices : WriteSlice(p, s)
                    <6>1. Walks(p) /\ rw[p].read = policy
                        BY <3>4, <5>1 DEF WriteSlice, Walks, InTurn, StaleWalk
                    <6> QED BY <1>0, <3>1, <3>4, <4>2, <5>1, <6>1 DEF WriteSlice, Stale
                <5>2. CASE ~\E s \in Slices : WriteSlice(p, s)
                    <6>1. due' = due /\ scanned' = scanned
                        BY <1>2, <5>2, DataSteps
                    <6> QED BY <3>1, <3>4, <4>2, <6>1 DEF Stale
                <5> QED BY <5>1, <5>2
            <4> QED BY <4>1, <4>2
        <3> QED BY <3>3, <3>4
    <2> QED BY <2>1, <2>2, <2>3
<1>3. CASE Scan
    <2>1. policy' = policy /\ rw' = rw /\ lost' = lost
        BY <1>3 DEF Scan, ScanReads, ScanCommits
    <2>2. Stale' => Stale
        BY <1>0, <1>3, <2>1 DEF Scan, ScanReads, ScanCommits, Stale
    <2>3. StaleWalk' => StaleWalk
        BY <2>1 DEF StaleWalk, Walks, InTurn
    <2> QED BY <2>1, <2>2, <2>3 DEF OwedInv, Renews
<1>4. CASE Tick
    <2>1. policy' = policy /\ due' = due /\ scanned' = scanned /\ lost' = lost
        BY <1>4 DEF Tick
    <2>2. \A q \in Procs : (Renews(q) => Renews(q)') /\ (Walks(q)' => Walks(q))
                            /\ rw'[q].read = rw[q].read
        <3> SUFFICES ASSUME NEW q \in Procs
                     PROVE  (Renews(q) => Renews(q)') /\ (Walks(q)' => Walks(q))
                            /\ rw'[q].read = rw[q].read
            OBVIOUS
        <3>1. rw[q].left \in Nat
            BY DEF TypeOK, Rewriter
        <3> QED BY <1>0, <1>4, <2>1, <3>1, TickMoves DEF Renews, Walks, InTurn
    <2> QED BY <2>1, <2>2 DEF OwedInv, Stale, StaleWalk
<1>5. CASE UNCHANGED vars
    BY <1>5 DEF vars, OwedInv, Stale, StaleWalk, Renews, Walks, InTurn
<1> QED BY <1>1, <1>2, <1>3, <1>4, <1>5 DEF Next

\* Where the clocks agree, deadlines of a superseded policy are owed a rewrite,
\* however many changes were coalesced and whoever waits for whom.
THEOREM NothingSupersededIsForgotten == Spec => []SupersededAreOwed
<1> DEFINE W == Spread = 0 => WalkInv /\ OwedInv
<1>1. Init => W
    BY DEF Init, Fresh, WalkInv, OwedInv, Stale, StaleWalk, Walks, InTurn
<1>2. TypeOK /\ VersionInv /\ [Next]_vars => VersionInv'
    BY VersionStep
<1>3. Init => VersionInv
    BY DEF Init, Fresh, VersionInv
<1>4. LeaseInv /\ VersionInv /\ W /\ [Next]_vars => W'
    BY WalkStep, OwedStep DEF LeaseInv
<1>5. W => SupersededAreOwed
    BY DEF OwedInv, Stale, SupersededAreOwed
<1> HIDE DEF W
<1> QED BY <1>1, <1>2, <1>3, <1>4, <1>5, LeaseInvariant, TypeCorrect, PTL DEF Spec
=============================================================================
