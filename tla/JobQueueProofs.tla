---------------------------- MODULE JobQueueProofs ----------------------------
(***************************************************************************)
(* What JobQueue's runs check on small instances, for every number of      *)
(* jobs, workers and attempts, every bound Options.Check lets through and  *)
(* every set of clocks.                                                    *)
(***************************************************************************)
EXTENDS JobQueue, TLAPS

USE JobsAssumption, BoundsAssumption, OptionsCheck, ClocksAssumption, NamesAssumption

----------------------------------------------------------------------------
(* Rows and workers: what the record updates of the actions preserve. *)

LEMMA UptoNat == \A n, top \in Nat : Upto(n, top) \in Nat
BY DEF Upto

LEMMA AheadNat == \A w \in Workers : Ahead[w] \in Nat
OBVIOUS

LEMMA RestingType ==
    ASSUME NEW pc \in {"down", "idle", "picked", "working"}
    PROVE  Resting(pc) \in Worker
BY DEF Resting, Worker, Outcomes, NoJob

LEMMA AbsentRowType == AbsentRow \in Row
BY DEF AbsentRow, Row, States

LEMMA FlagType ==
    ASSUME NEW r \in Worker
    PROVE  /\ [r EXCEPT !.wedged = TRUE] \in Worker
           /\ [r EXCEPT !.leaving = TRUE] \in Worker
           /\ [r EXCEPT !.matched = TRUE] \in Worker
           /\ [[r EXCEPT !.matched = TRUE] EXCEPT !.landed = TRUE] \in Worker
BY DEF Worker

LEMMA GoneType ==
    ASSUME NEW r \in Row
    PROVE  [r EXCEPT !.by = Gone] \in Row
BY DEF Row

LEMMA BuriedType ==
    ASSUME NEW r \in Row
    PROVE  [r EXCEPT !.state = "failed", !.by = Nobody, !.age = 0, !.said = "gone"] \in Row
<1> DEFINE p == [r EXCEPT !.state = "failed", !.by = Nobody]
           q == [p EXCEPT !.age = 0]
<1>1. p \in Row
  BY DEF Row, States
<1>2. [r EXCEPT !.state = "failed", !.by = Nobody, !.age = 0, !.said = "gone"]
        = [q EXCEPT !.said = "gone"]
  OBVIOUS
<1> HIDE DEF p
<1>3. q \in Row
  BY <1>1 DEF Row
<1> HIDE DEF q
<1> QED
  BY <1>2, <1>3 DEF Row

LEMMA RequeuedType ==
    ASSUME NEW r \in Row, NEW w \in Workers
    PROVE  [r EXCEPT !.state = "pending", !.attempts = 0, !.by = Nobody,
                     !.wait = Ahead[w]] \in Row
<1> DEFINE q == [r EXCEPT !.state = "pending", !.attempts = 0]
<1>1. q \in Row
  BY DEF Row, States
<1>2. [r EXCEPT !.state = "pending", !.attempts = 0, !.by = Nobody, !.wait = Ahead[w]]
        = [q EXCEPT !.by = Nobody, !.wait = Ahead[w]]
  OBVIOUS
<1> HIDE DEF q
<1> QED
  BY <1>1, <1>2, AheadNat DEF Row

LEMMA EndedType ==
    ASSUME TypeOK, NEW w \in Workers, NEW j \in Jobs, NEW outcome \in Outcomes
    PROVE  Ended(w, j, outcome) \in Row
<1>1. row[j] \in Row
  BY DEF TypeOK
<1>2. EndState(j, outcome) \in States
  BY DEF EndState, States
<1>3. EndWait(w, j, outcome) \in Nat
  BY <1>1, AheadNat DEF EndWait, Row
<1>4. (IF outcome = "wait" /\ row[j].attempts > 0
       THEN row[j].attempts - 1 ELSE row[j].attempts) \in Nat
  BY <1>1 DEF Row
<1>5. (IF outcome = "ok" THEN row[j].said ELSE outcome) \in {"none", "err", "wait", "gone"}
  BY <1>1 DEF Row, Outcomes
<1> QED
  BY <1>2, <1>3, <1>4, <1>5 DEF Ended, Row

\* A worker that has its answer keeps what the answer is about, and nothing else.
LEMMA SettledFacts ==
    ASSUME TypeOK, NEW w \in Workers, wk[w].pc = "settling",
           NEW report \in {"recorded", "lost", "unrecorded"}, NEW landed \in BOOLEAN,
           wk' = Settled(w, report, landed)
    PROVE  /\ wk' \in [Workers -> Worker]
           /\ wk'[w].pc = "down" \/ wk'[w].pc = "idle"
           /\ wk'[w].job = wk[w].job /\ wk'[w].job \in Jobs
           /\ wk'[w].outcome = wk[w].outcome
           /\ wk'[w].report = report
           /\ wk'[w].landed <=> landed
           /\ \A v \in Workers \ {w} : wk'[v] = wk[v]
<1> DEFINE rest == Resting(IF wk[w].leaving THEN "down" ELSE "idle")
           r == [rest EXCEPT !.job = wk[w].job, !.outcome = wk[w].outcome,
                             !.landed = landed, !.report = report]
<1>1. /\ rest \in Worker
      /\ rest.pc = "down" \/ rest.pc = "idle"
  <2>1. CASE wk[w].leaving
    BY <2>1, RestingType DEF Resting
  <2>2. CASE ~wk[w].leaving
    BY <2>2, RestingType DEF Resting
  <2> QED
    BY <2>1, <2>2
<1>2. wk[w].job \in Jobs /\ wk[w].outcome \in Outcomes /\ wk \in [Workers -> Worker]
  BY DEF TypeOK, Worker
<1>3. wk' = [wk EXCEPT ![w] = r]
  BY DEF Settled
<1> HIDE DEF rest
<1>4. r \in Worker
  BY <1>1, <1>2, Zenon DEF Worker
<1>5. /\ r.pc = rest.pc /\ r.job = wk[w].job /\ r.outcome = wk[w].outcome
      /\ r.report = report
  BY <1>1 DEF Worker
<1>6. r.landed <=> landed
  BY <1>1, Zenon DEF Worker
<1> HIDE DEF r
<1>7. wk'[w] = r /\ wk' \in [Workers -> Worker] /\ \A v \in Workers \ {w} : wk'[v] = wk[v]
  BY <1>2, <1>3, <1>4
<1> QED
  BY <1>1, <1>2, <1>5, <1>6, <1>7

\* The steps at which a worker is told how its ending went.
Answered(w) == EndLands(w) \/ EndLandsUntold(w) \/ EndMatchesNothing(w) \/ EndGivesUp(w)

LEMMA AnsweredRests ==
    ASSUME TypeOK, NEW w \in Workers, Answered(w)
    PROVE  /\ wk'[w].pc = "down" \/ wk'[w].pc = "idle"
           /\ \A v \in Workers \ {w} : wk'[v] = wk[v]
<1> USE DEF TypeOK
<1>1. \A report, landed : wk' = Settled(w, report, landed)
        => /\ wk'[w].pc = "down" \/ wk'[w].pc = "idle"
           /\ \A v \in Workers \ {w} : wk'[v] = wk[v]
  BY DEF Settled, Resting
<1>2. CASE EndLands(w)
  BY <1>1, <1>2 DEF EndLands
<1>3. CASE EndLandsUntold(w)
  BY <1>1, <1>3 DEF EndLandsUntold
<1>4. CASE EndMatchesNothing(w)
  BY <1>1, <1>4 DEF EndMatchesNothing
<1>5. CASE EndGivesUp(w)
  BY <1>1, <1>5 DEF EndGivesUp
<1> QED
  BY <1>2, <1>3, <1>4, <1>5 DEF Answered

LEMMA TickWorkerType ==
    ASSUME NEW r \in Worker, NEW a \in Nat, NEW b \in Nat, NEW c \in Nat
    PROVE  [r EXCEPT !.unheard = a, !.held = b, !.beat = c] \in Worker
BY DEF Worker

----------------------------------------------------------------------------
(* Type correctness. *)

LEMMA AgeType ==
    ASSUME NEW r \in Row, NEW g \in Int
    PROVE  [r EXCEPT !.age = g] \in Row
BY DEF Row

LEMMA ClaimedRowType ==
    ASSUME NEW r \in Row, NEW w \in Workers, NEW a \in Nat, NEW g \in Int
    PROVE  [r EXCEPT !.state = "running", !.by = w, !.attempts = a, !.age = g] \in Row
BY DEF Row, States

LEMMA ClaimedType ==
    ASSUME row \in [Jobs -> Row], NEW w \in Workers, NEW j \in Jobs
    PROVE  Claimed(w, j) \in [Jobs -> Row]
<1> DEFINE r == [row[j] EXCEPT !.state = "running", !.by = w,
                               !.attempts = row[j].attempts + 1, !.age = -Ahead[w]]
<1>1. row[j] \in Row /\ -Ahead[w] \in Int
  BY AheadNat
<1>2. row[j].attempts + 1 \in Nat
  BY <1>1 DEF Row
<1>3. r \in Row
  BY <1>1, <1>2, ClaimedRowType
<1>4. Claimed(w, j) = [row EXCEPT ![j] = r]
  BY <1>1 DEF Claimed
<1> HIDE DEF r
<1> QED
  BY <1>3, <1>4

LEMMA TypeInit == Init => TypeOK
BY RestingType, AbsentRowType DEF Init, TypeOK, Resting

LEMMA TypeNext == TypeOK /\ [Next]_vars => TypeOK'
<1> SUFFICES ASSUME TypeOK, [Next]_vars PROVE TypeOK'
  OBVIOUS
<1> USE DEF TypeOK
<1>1. ASSUME NEW w \in Workers, Add(w) PROVE TypeOK'
  <2>1. PICK j \in Jobs :
           row' = [row EXCEPT ![j] =
                     [AbsentRow EXCEPT !.state = "pending", !.wait = Ahead[w]]]
    BY <1>1 DEF Add
  <2>2. [AbsentRow EXCEPT !.state = "pending", !.wait = Ahead[w]] \in Row
    BY AbsentRowType, AheadNat DEF Row, States
  <2> QED
    BY <1>1, <2>1, <2>2 DEF Add
<1>2. ASSUME NEW w \in Workers, Bury(w) PROVE TypeOK'
  BY <1>2, BuriedType DEF Bury
<1>3. ASSUME NEW w \in Workers, NEW j \in Jobs, Requeue(w, j) PROVE TypeOK'
  <2>1. row' \in [Jobs -> Row]
    <3>1. row' = [row EXCEPT ![j] = [row[j] EXCEPT !.state = "pending", !.attempts = 0,
                                                   !.by = Nobody, !.wait = Ahead[w]]]
      BY <1>3 DEF Requeue
    <3> QED
      BY <3>1, RequeuedType
  <2> QED
    BY <1>3, <2>1 DEF Requeue, MayHappen
<1>4. ASSUME NEW w \in Workers, NEW j \in Jobs, ClaimSelect(w, j) PROVE TypeOK'
  BY <1>4 DEF ClaimSelect, Worker, Resting, Outcomes
<1>5. ASSUME NEW w \in Workers, ClaimUpdate(w) PROVE TypeOK'
  <2> DEFINE j == wk[w].job
  <2>1. j \in Jobs
    BY <1>5 DEF ClaimUpdate
  <2>2. row' \in [Jobs -> Row] /\ row'[j].attempts \in Nat
    <3>1. row' = Claimed(w, j)
      BY <1>5 DEF ClaimUpdate
    <3>2. row' \in [Jobs -> Row]
      BY <2>1, <3>1, ClaimedType
    <3>3. row'[j] \in Row
      BY <2>1, <3>2
    <3> QED
      BY <3>2, <3>3 DEF Row
  <2>3. wk' = [wk EXCEPT ![w] = Handed(w, j)] /\ UNCHANGED events
    BY <1>5 DEF ClaimUpdate
  <2> HIDE DEF j
  <2>4. Handed(w, j) \in Worker /\ Handed(w, j).job = j
    BY <2>1, <2>2 DEF Handed, Worker, Outcomes, Resting
  <2> QED
    BY <2>1, <2>2, <2>3, <2>4
<1>6. ASSUME NEW w \in Workers, ClaimMisses(w) PROVE TypeOK'
  BY <1>6, RestingType DEF ClaimMisses, Resting
<1>7. ASSUME NEW w \in Workers, ClaimAnswerLost(w) PROVE TypeOK'
  <2>1. row' \in [Jobs -> Row]
    BY <1>7, ClaimedType DEF ClaimAnswerLost
  <2> QED
    BY <1>7, <2>1, RestingType DEF ClaimAnswerLost, Resting
<1>8. ASSUME NEW w \in Workers, Beat(w) PROVE TypeOK'
  <2>1. CASE BeatCeiling(w)
    BY <2>1 DEF BeatCeiling, Worker
  <2>2. CASE BeatRenews(w)
    <3>1. -Ahead[w] \in Int /\ wk[w].job \in Jobs
      BY <2>2, AheadNat DEF BeatRenews, Beating
    <3>2. row' \in [Jobs -> Row]
      <4>1. row' = [row EXCEPT ![wk[w].job] = [row[wk[w].job] EXCEPT !.age = -Ahead[w]]]
        BY <2>2 DEF BeatRenews
      <4>2. [row[wk[w].job] EXCEPT !.age = -Ahead[w]] \in Row
        BY <3>1, AgeType
      <4> QED
        BY <3>1, <4>1, <4>2
    <3>3. wk' = [wk EXCEPT ![w] = [wk[w] EXCEPT !.unheard = 0, !.beat = 0]]
      BY <2>2 DEF BeatRenews
    <3>4. [wk[w] EXCEPT !.unheard = 0, !.beat = 0] \in Worker
      <4>1. wk[w] \in Worker
        OBVIOUS
      <4> QED
        BY <4>1, ZenonT(60) DEF Worker
    <3>5. \A v \in Workers : /\ wk'[v].pc = wk[v].pc /\ wk'[v].job = wk[v].job
                              /\ wk'[v].report = wk[v].report
      BY <3>3 DEF Worker
    <3> QED
      BY <2>2, <3>2, <3>3, <3>4, <3>5 DEF BeatRenews
  <2>3. CASE BeatNotHeld(w)
    BY <2>3 DEF BeatNotHeld, Worker
  <2>4. CASE BeatFails(w)
    <3>1. wk' = [wk EXCEPT ![w] = [wk[w] EXCEPT !.beat = 0]]
      BY <2>4 DEF BeatFails
    <3>2. wk' \in [Workers -> Worker]
      BY <3>1, ZenonT(60) DEF Worker
    <3>3. \A v \in Workers : /\ wk'[v].pc = wk[v].pc /\ wk'[v].job = wk[v].job
                              /\ wk'[v].report = wk[v].report
      BY <3>1 DEF Worker
    <3> QED
      BY <2>4, <3>2, <3>3 DEF BeatFails
  <2> QED
    BY <1>8, <2>1, <2>2, <2>3, <2>4 DEF Beat
<1>9. ASSUME NEW w \in Workers, NEW outcome \in {"ok", "err", "wait"}, WorkEnds(w, outcome)
      PROVE  TypeOK'
  BY <1>9 DEF WorkEnds, MayHappen, Worker, Outcomes
<1>10. ASSUME NEW w \in Workers, Wedge(w) PROVE TypeOK'
  <2>1. wk' = [wk EXCEPT ![w] = [wk[w] EXCEPT !.wedged = TRUE]]
    BY <1>10 DEF Wedge
  <2>2. [wk[w] EXCEPT !.wedged = TRUE] \in Worker
    BY FlagType
  <2>3. wk' \in [Workers -> Worker]
    BY <2>1, <2>2
  <2> QED
    BY <1>10, <2>3 DEF Wedge, MayHappen, Worker
<1>11. ASSUME NEW w \in Workers, Recover(w) PROVE TypeOK'
  <2>1. wk' = [wk EXCEPT ![w] = [wk[w] EXCEPT !.pc = "settling"]]
    BY <1>11 DEF Recover
  <2>2. wk' \in [Workers -> Worker]
    BY <2>1 DEF Worker
  <2>3. wk[w].job \in Jobs
    BY <1>11 DEF Recover
  <2>4. \A v \in Workers : /\ wk'[v].job = wk[v].job /\ wk'[v].report = wk[v].report
                            /\ v # w => wk'[v].pc = wk[v].pc
    BY <2>1 DEF Worker
  <2> QED
    BY <1>11, <2>2, <2>3, <2>4 DEF Recover
<1>12. ASSUME NEW w \in Workers, EndLands(w) \/ EndLandsUntold(w) PROVE TypeOK'
  <2>1. Ended(w, wk[w].job, wk[w].outcome) \in Row
    BY <1>12, EndedType DEF EndLands, EndLandsUntold, EndCommits, Worker
  <2>2. row' \in [Jobs -> Row]
    BY <1>12, <2>1 DEF EndLands, EndLandsUntold, EndCommits
  <2>3. events' \in 0 .. MaxEvents
    <3>1. UNCHANGED events \/ (events < MaxEvents /\ events' = events + 1)
      BY <1>12 DEF EndLands, EndLandsUntold, MayHappen
    <3> QED
      BY <3>1
  <2>4. PICK report \in {"recorded", "unrecorded"} :
           wk[w].pc = "settling" /\ wk' = Settled(w, report, TRUE)
    BY <1>12 DEF EndLands, EndLandsUntold, EndCommits
  <2>5. /\ wk' \in [Workers -> Worker] /\ wk'[w].job \in Jobs
        /\ \A v \in Workers \ {w} : wk'[v] = wk[v]
    BY <2>4, SettledFacts
  <2> QED
    BY <2>2, <2>3, <2>5
<1>13. ASSUME NEW w \in Workers, EndRefused(w) PROVE TypeOK'
  <2>1. wk' = [wk EXCEPT ![w] = [wk[w] EXCEPT !.matched = TRUE]]
    BY <1>13 DEF EndRefused
  <2>2. wk' \in [Workers -> Worker]
    BY <2>1, FlagType
  <2> QED
    BY <1>13, <2>2 DEF EndRefused, Worker
<1>14. ASSUME NEW w \in Workers, EndAnswerLost(w) PROVE TypeOK'
  <2>1. Ended(w, wk[w].job, wk[w].outcome) \in Row
    BY <1>14, EndedType DEF EndAnswerLost, EndCommits, Worker
  <2>2. wk' = [wk EXCEPT ![w] = [[wk[w] EXCEPT !.matched = TRUE] EXCEPT !.landed = TRUE]]
    BY <1>14 DEF EndAnswerLost
  <2>3. wk' \in [Workers -> Worker]
    BY <2>2, FlagType
  <2>4. row' \in [Jobs -> Row] /\ UNCHANGED events
    BY <1>14, <2>1 DEF EndAnswerLost, EndCommits
  <2>5. \A v \in Workers : /\ wk'[v].pc = wk[v].pc /\ wk'[v].job = wk[v].job
                            /\ wk'[v].report = wk[v].report
    BY <2>2 DEF Worker
  <2> QED
    BY <2>3, <2>4, <2>5
<1>15. ASSUME NEW w \in Workers, EndMatchesNothing(w) \/ EndGivesUp(w) PROVE TypeOK'
  <2>1. PICK report \in {"recorded", "lost", "unrecorded"} :
           wk[w].pc = "settling" /\ wk' = Settled(w, report, wk[w].landed)
    BY <1>15 DEF EndMatchesNothing, EndGivesUp
  <2>2. wk[w].landed \in BOOLEAN
    BY DEF Worker
  <2>3. /\ wk' \in [Workers -> Worker] /\ wk'[w].job \in Jobs
        /\ \A v \in Workers \ {w} : wk'[v] = wk[v]
    BY <2>1, <2>2, SettledFacts
  <2> QED
    BY <1>15, <2>3 DEF EndMatchesNothing, EndGivesUp
<1>16. ASSUME NEW w \in Workers, Shutdown(w) PROVE TypeOK'
  <2>1. wk' = [wk EXCEPT ![w] = [wk[w] EXCEPT !.leaving = TRUE]]
    BY <1>16 DEF Shutdown
  <2>2. wk' \in [Workers -> Worker]
    BY <2>1, FlagType
  <2> QED
    BY <1>16, <2>2 DEF Shutdown, MayHappen, Worker
<1>17. ASSUME NEW w \in Workers, Crash(w) PROVE TypeOK'
  <2>1. row' \in [Jobs -> Row]
    BY <1>17, GoneType DEF Crash
  <2> QED
    BY <1>17, <2>1, RestingType DEF Crash, MayHappen, Resting
<1>18. ASSUME NEW w \in Workers, Restart(w) PROVE TypeOK'
  <2>1. row' \in [Jobs -> Row]
    BY <1>18, GoneType DEF Restart
  <2> QED
    BY <1>18, <2>1, RestingType DEF Restart, Resting
<1>19. CASE Tick
  <2>1. ASSUME NEW j \in Jobs PROVE row'[j] \in Row
    <3> DEFINE a == IF row[j].state = "running"
                    THEN Upto(row[j].age + 1, ClaimTimeout + 1) ELSE row[j].age
               n == IF row[j].wait > 0 THEN row[j].wait - 1 ELSE 0
    <3>1. a \in Int /\ n \in Nat
      BY DEF Row, Upto
    <3>2. row'[j] = [row[j] EXCEPT !.age = a, !.wait = n]
      BY <1>19 DEF Tick
    <3> HIDE DEF a, n
    <3>3. row[j] \in Row
      OBVIOUS
    <3>4. [row[j] EXCEPT !.age = a, !.wait = n] \in Row
      BY <3>1, <3>3 DEF Row
    <3> QED
      BY <3>2, <3>4
  <2>2. ASSUME NEW w \in Workers PROVE wk'[w] \in Worker
    <3>1. /\ wk[w] \in Worker
          /\ wk[w].unheard + 1 \in Nat /\ wk[w].held + 1 \in Nat /\ wk[w].beat + 1 \in Nat
          /\ ClaimTimeout + 1 \in Nat
      BY DEF Worker
    <3>2. /\ Upto(wk[w].unheard + 1, ClaimTimeout + 1) \in Nat
          /\ Upto(wk[w].held + 1, MaxHold) \in Nat
          /\ Upto(wk[w].beat + 1, Heartbeat) \in Nat
      BY <3>1, UptoNat
    <3> QED
      BY <1>19, <3>1, <3>2, TickWorkerType DEF Tick
  <2>3. ASSUME NEW w \in Workers PROVE wk'[w].pc = wk[w].pc /\ wk'[w].job = wk[w].job
                                      /\ wk'[w].report = wk[w].report
    BY <1>19 DEF Tick, Worker
  <2> QED
    BY <1>19, <2>1, <2>2, <2>3 DEF Tick
<1>20. CASE UNCHANGED vars
  BY <1>20 DEF vars
<1> QED
  BY <1>1, <1>2, <1>3, <1>4, <1>5, <1>6, <1>7, <1>8, <1>9, <1>10, <1>11, <1>12,
     <1>13, <1>14, <1>15, <1>16, <1>17, <1>18, <1>19, <1>20
     DEF Next, Work, Process

\* Type correctness: rows and workers keep their shapes through every step, and
\* a worker past its claim's first statement names a job of the table.
THEOREM TypeCorrect == Spec => []TypeOK
BY TypeInit, TypeNext, PTL DEF Spec

----------------------------------------------------------------------------
(* What a step does to the table. *)

\* The steps that write rows, by what they write.
ClaimWrites(w) ==
    wk[w].pc = "picked" /\ Claimable(w, wk[w].job) /\ row' = Claimed(w, wk[w].job)

EndWrites(w) ==
    /\ wk[w].pc = "settling"
    /\ HeldBy(w, wk[w].job)
    /\ row' = [row EXCEPT ![wk[w].job] = Ended(w, wk[w].job, wk[w].outcome)]

ProcessEnds(w) ==
    /\ wk'[w].pc \in {"down", "idle"}
    /\ row' = [j \in Jobs |-> IF row[j].by = w THEN [row[j] EXCEPT !.by = Gone] ELSE row[j]]

RowStep ==
    \/ UNCHANGED row
    \/ \E w \in Workers :
          \/ Add(w) \/ Bury(w) \/ (\E j \in Jobs : Requeue(w, j))
          \/ ClaimWrites(w) \/ BeatRenews(w) \/ EndWrites(w) \/ ProcessEnds(w)
    \/ Tick

LEMMA RowSteps == TypeOK /\ [Next]_vars => RowStep
<1> SUFFICES ASSUME TypeOK, [Next]_vars PROVE RowStep
  OBVIOUS
<1>1. ASSUME NEW w \in Workers, Work(w) PROVE RowStep
  BY <1>1
     DEF Work, Beat, ClaimSelect, ClaimUpdate, ClaimMisses, ClaimAnswerLost, BeatCeiling,
         BeatNotHeld, BeatFails, WorkEnds, Wedge, Recover, EndCommits, EndLands, EndRefused,
         EndAnswerLost, EndLandsUntold, EndMatchesNothing, EndGivesUp, RowStep, ClaimWrites, EndWrites
<1>2. ASSUME NEW w \in Workers, Process(w) PROVE RowStep
  BY <1>2 DEF Process, Shutdown, Crash, Restart, RowStep, ProcessEnds, TypeOK, Resting
<1>3. CASE UNCHANGED vars
  BY <1>3 DEF vars, RowStep
<1> QED
  BY <1>1, <1>2, <1>3 DEF Next, RowStep

\* How one row may change, as far as its state and its attempts go.
Moves(r, q) ==
    \/ q.state = r.state /\ q.attempts = r.attempts
    \/ r.state = "absent" /\ q.state = "pending" /\ q.attempts = 0
    \/ r.state = "pending" /\ q.state = "running" /\ q.attempts = r.attempts + 1
    \/ /\ r.state = "running" /\ q.state = "running"
       /\ r.attempts < MaxAttempts /\ q.attempts = r.attempts + 1
    \/ r.state = "running" /\ q.state = "done" /\ q.attempts = r.attempts
    \/ /\ r.state = "running" /\ q.state = "pending"
       /\ r.attempts < MaxAttempts /\ q.attempts = r.attempts
    \/ /\ r.state = "running" /\ q.state = "pending"
       /\ q.attempts = IF r.attempts > 0 THEN r.attempts - 1 ELSE 0
    \/ /\ r.state = "running" /\ q.state = "failed"
       /\ r.attempts >= MaxAttempts /\ q.attempts = r.attempts
    \/ r.state = "failed" /\ q.state = "pending" /\ q.attempts = 0

\* The outcomes a settling worker can have: the work has returned.
Returned == \A w \in Workers : wk[w].pc \in {"recovering", "settling"} => wk[w].outcome # "none"

LEMMA ReturnedNext == TypeOK /\ Returned /\ [Next]_vars => Returned'
<1> SUFFICES ASSUME TypeOK, Returned, [Next]_vars, NEW v \in Workers,
                    wk'[v].pc \in {"recovering", "settling"}
             PROVE  wk'[v].outcome # "none"
  BY DEF Returned
<1> USE DEF TypeOK, Worker, Returned, Resting
<1>1. ASSUME NEW w \in Workers, Work(w) PROVE wk'[v].outcome # "none"
  <2>1. ASSUME NEW outcome \in {"ok", "err", "wait"}, WorkEnds(w, outcome)
        PROVE  wk'[v].outcome # "none"
    BY <2>1 DEF WorkEnds
  <2>2. CASE \E j \in Jobs : ClaimSelect(w, j)
    BY <2>2 DEF ClaimSelect
  <2>3. CASE ClaimUpdate(w) \/ ClaimMisses(w) \/ ClaimAnswerLost(w)
    <3>1. Handed(w, wk[w].job).pc = "working"
      BY DEF Handed
    <3> QED
      BY <2>3, <3>1 DEF ClaimUpdate, ClaimMisses, ClaimAnswerLost
  <2>4. CASE Beat(w)
    BY <2>4, SMTT(60) DEF Beat, BeatCeiling, BeatRenews, BeatNotHeld, BeatFails, Beating
  <2>5. CASE Wedge(w) \/ Recover(w)
    BY <2>5 DEF Wedge, Recover
  <2>6. CASE Answered(w)
    BY <2>6, AnsweredRests
  <2>7. CASE EndRefused(w) \/ EndAnswerLost(w)
    BY <2>7 DEF EndRefused, EndAnswerLost
  <2> QED
    BY <1>1, <2>1, <2>2, <2>3, <2>4, <2>5, <2>6, <2>7 DEF Work, Answered
<1>2. ASSUME NEW w \in Workers, Process(w) PROVE wk'[v].outcome # "none"
  BY <1>2 DEF Process, Shutdown, Crash, Restart
<1>3. CASE Tick
  BY <1>3 DEF Tick
<1>4. CASE UNCHANGED wk
  BY <1>4
<1> QED
  BY <1>1, <1>2, <1>3, <1>4 DEF Next, vars, Add, Bury, Requeue

LEMMA RowMoves ==
    ASSUME TypeOK, Returned, RowStep, NEW j \in Jobs
    PROVE  Moves(row[j], row'[j])
<1> USE DEF TypeOK, Row
<1>1. CASE UNCHANGED row
  BY <1>1 DEF Moves
<1>2. ASSUME NEW w \in Workers, Add(w) PROVE Moves(row[j], row'[j])
  BY <1>2 DEF Add, AbsentRow, Moves
<1>3. ASSUME NEW w \in Workers, Bury(w) PROVE Moves(row[j], row'[j])
  <2>1. CASE Buried(w, j)
    <3>1. row[j].state = "running" /\ row[j].attempts >= MaxAttempts
      BY <2>1 DEF Buried, Stale
    <3>2. row'[j] = [row[j] EXCEPT !.state = "failed", !.by = Nobody, !.age = 0,
                                   !.said = "gone"]
      BY <1>3, <2>1 DEF Bury
    <3>3. row'[j].state = "failed" /\ row'[j].attempts = row[j].attempts
      BY <3>2
    <3> QED
      BY <3>1, <3>3 DEF Moves
  <2>2. CASE ~Buried(w, j)
    BY <1>3, <2>2 DEF Bury, Moves
  <2> QED
    BY <2>1, <2>2
<1>4. ASSUME NEW w \in Workers, NEW i \in Jobs, Requeue(w, i) PROVE Moves(row[j], row'[j])
  BY <1>4 DEF Requeue, Moves
<1>5. ASSUME NEW w \in Workers, ClaimWrites(w) PROVE Moves(row[j], row'[j])
  <2>1. CASE j = wk[w].job
    <3>1. /\ row'[j].state = "running" /\ row'[j].attempts = row[j].attempts + 1
          /\ Claimable(w, j)
      BY <1>5, <2>1 DEF ClaimWrites, Claimed
    <3> QED
      BY <3>1 DEF Claimable, Stale, Moves
  <2>2. CASE j # wk[w].job
    BY <1>5, <2>2 DEF ClaimWrites, Claimed, Moves
  <2> QED
    BY <2>1, <2>2
<1>6. ASSUME NEW w \in Workers, BeatRenews(w) PROVE Moves(row[j], row'[j])
  BY <1>6 DEF BeatRenews, Moves
<1>7. ASSUME NEW w \in Workers, EndWrites(w) PROVE Moves(row[j], row'[j])
  <2> DEFINE o == wk[w].outcome
  <2>1. CASE j = wk[w].job
    <3>1. row[j].state = "running" /\ row'[j] = Ended(w, j, o)
      BY <1>7, <2>1 DEF EndWrites, HeldBy
    <3>2. o \in {"ok", "err", "wait"}
      BY <1>7 DEF EndWrites, Returned, Worker, Outcomes
    <3>3. row[j].attempts \in Nat
      OBVIOUS
    <3> HIDE DEF o, TypeOK
    <3> QED
      BY <3>1, <3>2, <3>3 DEF Ended, EndState, Moves
  <2>2. CASE j # wk[w].job
    BY <1>7, <2>2 DEF EndWrites, Moves
  <2> QED
    BY <2>1, <2>2
<1>8. ASSUME NEW w \in Workers, ProcessEnds(w) PROVE Moves(row[j], row'[j])
  BY <1>8 DEF ProcessEnds, Moves
<1>9. CASE Tick
  BY <1>9 DEF Tick, Moves
<1> QED
  BY <1>1, <1>2, <1>3, <1>4, <1>5, <1>6, <1>7, <1>8, <1>9 DEF RowStep

LEMMA AttemptsNext == TypeOK /\ Returned /\ AttemptsInRange /\ [Next]_vars => AttemptsInRange'
<1> SUFFICES ASSUME TypeOK, Returned, AttemptsInRange, [Next]_vars, NEW j \in Jobs
             PROVE  /\ row'[j].state = "absent"  => row'[j].attempts = 0
                    /\ row'[j].state = "pending" => row'[j].attempts < MaxAttempts
                    /\ row'[j].state = "running" => row'[j].attempts \in 1 .. MaxAttempts
                    /\ row'[j].state = "failed"  => row'[j].attempts = MaxAttempts
  BY DEF AttemptsInRange
<1>1. Moves(row[j], row'[j])
  BY RowSteps, RowMoves
<1>2. row[j].attempts \in Nat
  BY DEF TypeOK, Row
<1> QED
  BY <1>1, <1>2 DEF Moves, AttemptsInRange

\* The strengthening the queue's invariants rest on: what a settling worker
\* writes is never the outcome of work that has not returned.
RowInv == TypeOK /\ Returned /\ AttemptsInRange

LEMMA RowInvariant == Spec => []RowInv
<1>1. Init => RowInv
  BY TypeInit DEF Init, RowInv, Returned, AttemptsInRange, Resting, AbsentRow
<1>2. RowInv /\ [Next]_vars => RowInv'
  BY TypeNext, ReturnedNext, AttemptsNext DEF RowInv
<1> QED
  BY <1>1, <1>2, PTL DEF Spec

\* However workers die, wedge or fall silent, a job is tried at most MaxAttempts
\* times before an operator has to look, a waiting job always has a try left, and
\* a failed one has none.
THEOREM AttemptsAreBounded == Spec => []AttemptsInRange
BY RowInvariant, PTL DEF RowInv

\* A finished job is never brought back by a late worker, the undertaker or an
\* operator.
THEOREM FinishedStaysFinished == Spec => DoneIsFinal
<1>1. RowInv /\ [Next]_vars
        => [\A j \in Jobs : row[j].state = "done" => row'[j].state = "done"]_vars
  BY RowSteps, RowMoves DEF RowInv, Moves
<1> QED
  BY <1>1, RowInvariant, PTL DEF Spec, DoneIsFinal

----------------------------------------------------------------------------
(* The rows implement WorkQueue. *)

LEMMA StatusFacts ==
    /\ StatusOf("absent") = "absent" /\ StatusOf("pending") = "waiting"
    /\ StatusOf("running") = "out" /\ StatusOf("done") = "done"
    /\ StatusOf("failed") = "failed"
BY DEF StatusOf

\* A step that leaves states and attempts alone is one the callers cannot see.
LEMMA SameIsStutter ==
    ASSUME \A j \in Jobs : row'[j].state = row[j].state /\ row'[j].attempts = row[j].attempts
    PROVE  UNCHANGED <<statusBar, handedBar>>
BY DEF statusBar, handedBar

LEMMA OneRowChanges ==
    ASSUME NEW j \in Jobs, NEW r,
           TypeOK, row' = [row EXCEPT ![j] = r]
    PROVE  /\ statusBar' = [statusBar EXCEPT ![j] = StatusOf(r.state)]
           /\ handedBar' = [handedBar EXCEPT ![j] = r.attempts]
BY DEF statusBar, handedBar, TypeOK

\* One row that moves is one step of the promise.
LEMMA OneMoveIsAStep ==
    ASSUME RowInv, NEW j \in Jobs, NEW r, row' = [row EXCEPT ![j] = r],
           Moves(row[j], r)
    PROVE  [Promise!Next]_<<statusBar, handedBar>>
<1> DEFINE S == StatusOf(r.state)
           N == r.attempts
<1>1. /\ statusBar' = [statusBar EXCEPT ![j] = S]
      /\ handedBar' = [handedBar EXCEPT ![j] = N]
  BY OneRowChanges DEF RowInv
<1>2. statusBar[j] = StatusOf(row[j].state) /\ handedBar[j] = row[j].attempts
  BY DEF statusBar, handedBar
<1>3. /\ row[j].attempts \in Nat
      /\ row[j].state = "absent" => row[j].attempts = 0
      /\ row[j].state = "pending" => row[j].attempts < MaxAttempts
      /\ row[j].state = "running" => row[j].attempts \in 1 .. MaxAttempts
  BY DEF RowInv, AttemptsInRange, TypeOK, Row
<1>4. statusBar = [i \in Jobs |-> statusBar[i]] /\ handedBar = [i \in Jobs |-> handedBar[i]]
  BY DEF statusBar, handedBar
<1>5. S = statusBar[j] => statusBar' = statusBar
  BY <1>1, <1>4
<1>6. N = handedBar[j] => handedBar' = handedBar
  BY <1>1, <1>4
<1> HIDE DEF S, N
<1>7. Moves(row[j], r) => \/ UNCHANGED <<statusBar, handedBar>>
                          \/ Promise!Submit(j) \/ Promise!HandOut(j) \/ Promise!Finish(j)
                          \/ Promise!Return(j) \/ Promise!ReturnUntried(j)
                          \/ Promise!GiveUp({j}) \/ Promise!Resubmit(j)
  <2>1. CASE r.state = row[j].state /\ N = row[j].attempts
    BY <2>1, <1>2, <1>5, <1>6 DEF S
  <2>2. CASE row[j].state = "absent" /\ r.state = "pending" /\ N = 0
    BY <2>2, <1>1, <1>2, <1>3, <1>6, StatusFacts DEF Promise!Submit, S
  <2>3. CASE row[j].state = "pending" /\ r.state = "running" /\ N = row[j].attempts + 1
    BY <2>3, <1>1, <1>2, <1>3, StatusFacts DEF Promise!HandOut, S
  <2>4. CASE /\ row[j].state = "running" /\ r.state = "running"
             /\ row[j].attempts < MaxAttempts /\ N = row[j].attempts + 1
    BY <2>4, <1>1, <1>2, <1>3, StatusFacts DEF Promise!HandOut, S
  <2>5. CASE row[j].state = "running" /\ r.state = "done" /\ N = row[j].attempts
    BY <2>5, <1>1, <1>2, <1>6, StatusFacts DEF Promise!Finish, S
  <2>6. CASE /\ row[j].state = "running" /\ r.state = "pending"
             /\ row[j].attempts < MaxAttempts /\ N = row[j].attempts
    BY <2>6, <1>1, <1>2, <1>6, StatusFacts DEF Promise!Return, S
  <2>7. CASE /\ row[j].state = "running" /\ r.state = "pending"
             /\ N = IF row[j].attempts > 0 THEN row[j].attempts - 1 ELSE 0
    <3>1. N = handedBar[j] - 1 /\ handedBar[j] > 0
      BY <2>7, <1>2, <1>3
    <3> QED
      BY <2>7, <3>1, <1>1, <1>2, StatusFacts DEF Promise!ReturnUntried, S
  <2>8. CASE /\ row[j].state = "running" /\ r.state = "failed"
             /\ row[j].attempts >= MaxAttempts /\ N = row[j].attempts
    <3>1. statusBar' = [i \in Jobs |-> IF i \in {j} THEN "failed" ELSE statusBar[i]]
      BY <2>8, <1>1, <1>4, StatusFacts DEF S
    <3>2. \A i \in {j} : statusBar[i] = "out" /\ handedBar[i] = MaxAttempts
      BY <2>8, <1>2, <1>3, StatusFacts
    <3>3. handedBar' = handedBar
      BY <2>8, <1>2, <1>6
    <3> QED
      BY <3>1, <3>2, <3>3 DEF Promise!GiveUp
  <2>9. CASE row[j].state = "failed" /\ r.state = "pending" /\ N = 0
    BY <2>9, <1>1, <1>2, StatusFacts DEF Promise!Resubmit, S
  <2> QED
    BY <2>1, <2>2, <2>3, <2>4, <2>5, <2>6, <2>7, <2>8, <2>9 DEF Moves, N
<1> QED
  BY <1>7 DEF Promise!Next

LEMMA BuryIsAStep ==
    ASSUME RowInv, NEW w \in Workers, Bury(w)
    PROVE  Promise!GiveUp({j \in Jobs : Buried(w, j)})
<1> DEFINE B == {j \in Jobs : Buried(w, j)}
<1>1. \A j \in Jobs : /\ row'[j].state = IF j \in B THEN "failed" ELSE row[j].state
                      /\ row'[j].attempts = row[j].attempts
  BY DEF Bury, RowInv, TypeOK, Row
<1>2. statusBar' = [j \in Jobs |-> IF j \in B THEN "failed" ELSE statusBar[j]]
  BY <1>1, StatusFacts DEF statusBar
<1>3. handedBar' = handedBar
  BY <1>1 DEF handedBar
<1>4. \A j \in B : statusBar[j] = "out" /\ handedBar[j] = MaxAttempts
  BY StatusFacts DEF Buried, Stale, RowInv, AttemptsInRange, TypeOK, Row, statusBar, handedBar
<1> QED
  BY <1>2, <1>3, <1>4 DEF Promise!GiveUp

LEMMA StepKeepsThePromise ==
    RowInv /\ [Next]_vars => [Promise!Next]_<<statusBar, handedBar>>
<1> DEFINE Kept == [Promise!Next]_<<statusBar, handedBar>>
<1> SUFFICES ASSUME RowInv, [Next]_vars PROVE Kept
  OBVIOUS
<1>1. RowStep /\ \A j \in Jobs : Moves(row[j], row'[j])
  BY RowSteps, RowMoves DEF RowInv
<1>2. TypeOK
  BY DEF RowInv
<1>3. ASSUME NEW j \in Jobs, NEW r, row' = [row EXCEPT ![j] = r] PROVE Kept
  <2>1. row'[j] = r
    BY <1>2, <1>3 DEF TypeOK
  <2> QED
    BY <1>1, <1>3, <2>1, OneMoveIsAStep
<1>4. CASE UNCHANGED row
  BY <1>4, SameIsStutter
<1>5. ASSUME NEW w \in Workers, Add(w) PROVE Kept
  BY <1>3, <1>5 DEF Add
<1>6. ASSUME NEW w \in Workers, Bury(w) PROVE Kept
  <2>1. {j \in Jobs : Buried(w, j)} \in SUBSET Jobs
    OBVIOUS
  <2> QED
    BY <1>6, <2>1, BuryIsAStep DEF Promise!Next
<1>7. ASSUME NEW w \in Workers, NEW j \in Jobs, Requeue(w, j) PROVE Kept
  <2>1. row' = [row EXCEPT ![j] = [row[j] EXCEPT !.state = "pending", !.attempts = 0,
                                                 !.by = Nobody, !.wait = Ahead[w]]]
    BY <1>7 DEF Requeue
  <2> QED
    BY <1>3, <2>1
<1>8. ASSUME NEW w \in Workers, ClaimWrites(w) PROVE Kept
  <2>1. wk[w].job \in Jobs
    BY <1>2, <1>8 DEF ClaimWrites, TypeOK
  <2> QED
    <3> DEFINE j == wk[w].job
    <3>1. row' = [row EXCEPT ![j] = [row[j] EXCEPT !.state = "running", !.by = w,
                                        !.attempts = row[j].attempts + 1, !.age = -Ahead[w]]]
      BY <1>8 DEF ClaimWrites, Claimed
    <3> QED
      BY <1>3, <2>1, <3>1
<1>9. ASSUME NEW w \in Workers, BeatRenews(w) PROVE Kept
  <2>1. wk[w].job \in Jobs
    BY <1>2, <1>9 DEF BeatRenews, Beating, TypeOK
  <2> QED
    BY <1>3, <1>9, <2>1 DEF BeatRenews
<1>10. ASSUME NEW w \in Workers, EndWrites(w) PROVE Kept
  <2>1. wk[w].job \in Jobs
    BY <1>2, <1>10 DEF EndWrites, TypeOK
  <2> QED
    BY <1>3, <1>10, <2>1 DEF EndWrites
<1>11. ASSUME NEW w \in Workers, ProcessEnds(w) PROVE Kept
  <2>1. \A j \in Jobs : row'[j].state = row[j].state /\ row'[j].attempts = row[j].attempts
    BY <1>2, <1>11 DEF ProcessEnds, TypeOK, Row
  <2> QED
    BY <2>1, SameIsStutter
<1>12. CASE Tick
  <2>1. \A j \in Jobs : row'[j].state = row[j].state /\ row'[j].attempts = row[j].attempts
    BY <1>2, <1>12 DEF Tick, TypeOK, Row
  <2> QED
    BY <2>1, SameIsStutter
<1> QED
  BY <1>1, <1>4, <1>5, <1>6, <1>7, <1>8, <1>9, <1>10, <1>11, <1>12 DEF RowStep

\* Whatever its workers and processes do, the table behaves as the queue its
\* callers rely on: a job is handed out a bounded number of times, and is done,
\* failed or put back by somebody who had it.
THEOREM QueueKeepsItsPromise == Spec => KeepsThePromise
<1>1. Init => Promise!Init
  BY StatusFacts DEF Init, Promise!Init, statusBar, handedBar, AbsentRow
<1> QED
  BY <1>1, StepKeepsThePromise, RowInvariant, PTL DEF Spec, KeepsThePromise, Promise!Spec

----------------------------------------------------------------------------
(* Who holds a row. *)

\* What a claim writes, and that it leaves every other row alone.
LEMMA ClaimedRow ==
    ASSUME TypeOK, NEW w \in Workers, ClaimWrites(w), NEW j \in Jobs
    PROVE  IF j = wk[w].job
           THEN /\ row'[j].state = "running" /\ row'[j].by = w
                /\ row'[j].attempts = row[j].attempts + 1
           ELSE row'[j] = row[j]
<1>1. row[j] \in Row /\ wk[w].job \in Jobs /\ row \in [Jobs -> Row]
  BY DEF TypeOK, ClaimWrites
<1>2. CASE j = wk[w].job
  BY <1>1, <1>2 DEF ClaimWrites, Claimed, Row
<1>3. CASE j # wk[w].job
  BY <1>1, <1>3 DEF ClaimWrites, Claimed
<1> QED
  BY <1>2, <1>3

\* The only way to come to hold a row is to claim it; until it is lost its
\* attempts stand still and its age is set back by nobody else.
LEMMA RowHold ==
    ASSUME TypeOK, RowStep, NEW v \in Workers, NEW j \in Jobs, HeldBy(v, j)'
    PROVE  \/ ClaimWrites(v) /\ wk[v].job = j
           \/ /\ HeldBy(v, j)
              /\ row'[j].attempts = row[j].attempts
              /\ row'[j].age = row[j].age \/ BeatRenews(v) \/ Tick
<1> DEFINE Goal == \/ ClaimWrites(v) /\ wk[v].job = j
                   \/ /\ HeldBy(v, j)
                      /\ row'[j].attempts = row[j].attempts
                      /\ row'[j].age = row[j].age \/ BeatRenews(v) \/ Tick
<1> SUFFICES Goal
  OBVIOUS
<1> USE DEF TypeOK, Row, HeldBy
<1>1. CASE UNCHANGED row
  BY <1>1
<1>2. ASSUME NEW w \in Workers, Add(w) PROVE Goal
  BY <1>2 DEF Add, AbsentRow
<1>3. ASSUME NEW w \in Workers, Bury(w) PROVE Goal
  <2>1. row'[j] = row[j] \/ row'[j].state = "failed"
    BY <1>3, ZenonT(60) DEF Bury
  <2> QED
    BY <2>1
<1>4. ASSUME NEW w \in Workers, NEW i \in Jobs, Requeue(w, i) PROVE Goal
  BY <1>4 DEF Requeue
<1>5. ASSUME NEW w \in Workers, ClaimWrites(w) PROVE Goal
  <2>1. CASE j = wk[w].job
    BY <1>5, <2>1, ClaimedRow DEF ClaimWrites
  <2>2. CASE j # wk[w].job
    BY <1>5, <2>2, ClaimedRow
  <2> QED
    BY <2>1, <2>2
<1>6. ASSUME NEW w \in Workers, BeatRenews(w) PROVE Goal
  <2> DEFINE i == wk[w].job
  <2>1. /\ row[i].by = w
        /\ row' = [row EXCEPT ![i] = [row[i] EXCEPT !.age = -Ahead[w]]]
    BY <1>6 DEF BeatRenews
  <2> HIDE DEF i
  <2>2. CASE j # i
    BY <2>1, <2>2
  <2>3. CASE j = i
    <3>1. row'[j] = [row[j] EXCEPT !.age = -Ahead[w]]
      BY <2>1, <2>3
    <3>2. /\ row'[j].state = row[j].state /\ row'[j].by = row[j].by
          /\ row'[j].attempts = row[j].attempts
      BY <3>1
    <3>3. v = w
      BY <2>1, <2>3, <3>2
    <3> QED
      BY <1>6, <3>2, <3>3
  <2> QED
    BY <2>2, <2>3
<1>7. ASSUME NEW w \in Workers, EndWrites(w) PROVE Goal
  BY <1>7 DEF EndWrites, Ended
<1>8. ASSUME NEW w \in Workers, ProcessEnds(w) PROVE Goal
  BY <1>8 DEF ProcessEnds
<1>9. CASE Tick
  <2>1. PICK age, wait : row'[j] = [row[j] EXCEPT !.age = age, !.wait = wait]
    BY <1>9 DEF Tick
  <2>2. /\ row'[j].state = row[j].state /\ row'[j].by = row[j].by
        /\ row'[j].attempts = row[j].attempts
    BY <2>1
  <2> QED
    BY <1>9, <2>2
<1> QED
  BY <1>1, <1>2, <1>3, <1>4, <1>5, <1>6, <1>7, <1>8, <1>9 DEF RowStep

\* A row is taken from its holder only when it is stale on some clock.
LEMMA RowLoss ==
    ASSUME TypeOK, RowStep, NEW v \in Workers, NEW j \in Jobs, HeldBy(v, j), ~HeldBy(v, j)'
    PROVE  \/ \E u \in Workers : Stale(u, j)
           \/ wk[v].pc = "settling"
           \/ wk'[v].pc \in {"down", "idle"}
<1> DEFINE Goal == \/ \E u \in Workers : Stale(u, j)
                   \/ wk[v].pc = "settling"
                   \/ wk'[v].pc \in {"down", "idle"}
<1> SUFFICES Goal
  OBVIOUS
<1> USE DEF TypeOK, Row, HeldBy
<1>1. CASE UNCHANGED row
  BY <1>1
<1>2. ASSUME NEW w \in Workers, Add(w) PROVE Goal
  BY <1>2 DEF Add
<1>3. ASSUME NEW w \in Workers, Bury(w) PROVE Goal
  BY <1>3 DEF Bury, Buried
<1>4. ASSUME NEW w \in Workers, NEW i \in Jobs, Requeue(w, i) PROVE Goal
  BY <1>4 DEF Requeue
<1>5. ASSUME NEW w \in Workers, ClaimWrites(w) PROVE Goal
  <2>1. CASE j = wk[w].job
    BY <1>5, <2>1, ClaimedRow DEF ClaimWrites, Claimable
  <2>2. CASE j # wk[w].job
    BY <1>5, <2>2, ClaimedRow
  <2> QED
    BY <2>1, <2>2
<1>6. ASSUME NEW w \in Workers, BeatRenews(w) PROVE Goal
  BY <1>6 DEF BeatRenews
<1>7. ASSUME NEW w \in Workers, EndWrites(w) PROVE Goal
  BY <1>7 DEF EndWrites
<1>8. ASSUME NEW w \in Workers, ProcessEnds(w) PROVE Goal
  BY <1>8 DEF ProcessEnds
<1>9. CASE Tick
  BY <1>9, ZenonT(60) DEF Tick
<1> QED
  BY <1>1, <1>2, <1>3, <1>4, <1>5, <1>6, <1>7, <1>8, <1>9 DEF RowStep

\* What a step does to one worker, seen from that worker.
WorkerStep(v) ==
    \/ wk'[v] = wk[v]
    \/ ~Engaged(v)'
    \/ ClaimUpdate(v) \/ Beat(v) \/ Wedge(v) \/ Shutdown(v) \/ Recover(v)
    \/ \E outcome \in {"ok", "err", "wait"} : WorkEnds(v, outcome)
    \/ EndRefused(v) \/ EndAnswerLost(v)
    \/ Tick

LEMMA WorkerSteps == ASSUME TypeOK, [Next]_vars, NEW v \in Workers PROVE WorkerStep(v)
<1> USE DEF TypeOK, WorkerStep, Engaged
<1>1. ASSUME NEW w \in Workers, Work(w), w = v PROVE WorkerStep(v)
  BY <1>1, AnsweredRests
     DEF Work, Answered, ClaimSelect, ClaimMisses, ClaimAnswerLost, Resting
<1>2. ASSUME NEW w \in Workers, Work(w), w # v PROVE wk'[v] = wk[v]
  <2>1. CASE \E j \in Jobs : ClaimSelect(w, j)
    BY <1>2, <2>1 DEF ClaimSelect
  <2>2. CASE ClaimUpdate(w) \/ ClaimMisses(w) \/ ClaimAnswerLost(w)
    BY <1>2, <2>2 DEF ClaimUpdate, ClaimMisses, ClaimAnswerLost
  <2>3. CASE Beat(w) \/ Wedge(w) \/ Recover(w)
    BY <1>2, <2>3
       DEF Beat, BeatCeiling, BeatRenews, BeatNotHeld, BeatFails, Wedge, Recover
  <2>4. ASSUME NEW outcome \in {"ok", "err", "wait"}, WorkEnds(w, outcome)
        PROVE  wk'[v] = wk[v]
    BY <1>2, <2>4 DEF WorkEnds
  <2>5. CASE Answered(w) \/ EndRefused(w) \/ EndAnswerLost(w)
    BY <1>2, <2>5, AnsweredRests DEF EndRefused, EndAnswerLost
  <2> QED
    BY <1>2, <2>1, <2>2, <2>3, <2>4, <2>5 DEF Work, Answered
<1>3. ASSUME NEW w \in Workers, Process(w) PROVE WorkerStep(v)
  BY <1>3 DEF Process, Shutdown, Crash, Restart, Resting
<1>4. ASSUME NEW w \in Workers, Add(w) \/ Bury(w) \/ (\E j \in Jobs : Requeue(w, j))
      PROVE  wk'[v] = wk[v]
  BY <1>4 DEF Add, Bury, Requeue
<1> QED
  BY <1>1, <1>2, <1>3, <1>4 DEF Next, vars

\* While a worker is at work on a row it holds, it has been silent for at least
\* as long as the row's age says; a row it lost was stale on somebody's clock.
Heard(w) ==
    IF HeldBy(w, wk[w].job)
    THEN \/ wk[w].unheard > ClaimTimeout
         \/ wk[w].unheard >= row[wk[w].job].age + Ahead[w]
    ELSE wk[w].unheard + Spread > ClaimTimeout

\* What holds of one engaged worker.
Holds(w) ==
    /\ HeldBy(w, wk[w].job) => wk[w].attempt = row[wk[w].job].attempts
    /\ wk[w].taken = "lost" \/ wk[w].landed => ~HeldBy(w, wk[w].job)
    /\ wk[w].landed => wk[w].pc = "settling"
    /\ wk[w].landed /\ wk[w].outcome = "ok" => row[wk[w].job].state = "done"
    /\ wk[w].pc = "working" => Heard(w)

HoldInv == \A w \in Workers : Engaged(w) => Holds(w)

\* An engaged worker was engaged on the same job before, or has just claimed it.
LEMMA EngagedStep ==
    ASSUME TypeOK, NEW v \in Workers, WorkerStep(v), Engaged(v)'
    PROVE  \/ ClaimUpdate(v)
           \/ /\ Engaged(v)
              /\ wk'[v].job = wk[v].job /\ wk'[v].attempt = wk[v].attempt
              /\ wk'[v].taken = "lost" => wk[v].taken = "lost" \/ BeatNotHeld(v)
              /\ wk'[v].landed => wk[v].landed \/ EndAnswerLost(v)
              /\ wk'[v].pc = "working" => wk[v].pc = "working"
              /\ wk[v].pc = "settling" => wk'[v].pc = "settling" /\ wk'[v].outcome = wk[v].outcome
<1> USE DEF TypeOK, Worker, Engaged
<1>1. CASE wk'[v] = wk[v]
  BY <1>1
<1>2. CASE Beat(v) \/ Wedge(v) \/ Shutdown(v) \/ Recover(v)
  BY <1>2 DEF Beat, BeatCeiling, BeatRenews, BeatNotHeld, BeatFails, Beating,
              Wedge, Shutdown, Recover
<1>3. ASSUME NEW outcome \in {"ok", "err", "wait"}, WorkEnds(v, outcome)
      PROVE  /\ wk[v].pc = "working" /\ wk'[v].pc # "working"
             /\ wk'[v].job = wk[v].job /\ wk'[v].attempt = wk[v].attempt
             /\ wk'[v].taken = wk[v].taken /\ wk'[v].landed = wk[v].landed
  BY <1>3 DEF WorkEnds
<1>4. CASE EndRefused(v)
  BY <1>4 DEF EndRefused
<1>5. CASE EndAnswerLost(v)
  BY <1>5 DEF EndAnswerLost
<1>6. CASE Tick
  BY <1>6, ZenonT(60) DEF Tick
<1> QED
  BY <1>1, <1>2, <1>3, <1>4, <1>5, <1>6 DEF WorkerStep

\* A claim just landed.
LEMMA ClaimHolds ==
    ASSUME TypeOK, NEW v \in Workers, ClaimUpdate(v)
    PROVE  Holds(v)'
<1> DEFINE j == wk[v].job
<1>1. j \in Jobs /\ row[j] \in Row
  BY DEF ClaimUpdate, TypeOK
<1>2. wk'[v] = Handed(v, j)
  BY DEF ClaimUpdate, TypeOK
<1>3. row'[j].age = -Ahead[v] /\ row'[j].by = v /\ row'[j].state = "running"
  BY <1>1 DEF ClaimUpdate, Claimed, TypeOK, Row
<1>4. /\ wk'[v].job = j /\ wk'[v].attempt = row'[j].attempts /\ wk'[v].pc = "working"
      /\ wk'[v].taken = "none" /\ ~wk'[v].landed /\ wk'[v].unheard = 0
  BY <1>2 DEF Handed, Resting
<1> HIDE DEF j
<1>5. Heard(v)'
  BY <1>3, <1>4, AheadNat DEF Heard, HeldBy
<1> QED
  BY <1>4, <1>5 DEF Holds

\* Time passes for a worker at work: its silence grows at least as its row ages.
LEMMA TickKeepsHeard ==
    ASSUME TypeOK, NEW v \in Workers, Tick, wk[v].pc = "working", Heard(v)
    PROVE  Heard(v)'
<1> DEFINE j == wk[v].job
           u == wk[v].unheard
           a == row[j].age
<1>1. j \in Jobs /\ row[j] \in Row /\ u \in Nat /\ a \in Int /\ Ahead[v] \in Nat
  BY AheadNat DEF TypeOK, Row, Worker
<1>2. /\ wk'[v].job = j /\ wk'[v].unheard = Upto(u + 1, ClaimTimeout + 1)
  BY DEF Tick, TypeOK, Worker
<1>3. HeldBy(v, wk[v].job)' <=> HeldBy(v, wk[v].job)
  BY <1>1, <1>2 DEF Tick, HeldBy, Row
<1>4. HeldBy(v, wk[v].job) => row'[j].age = Upto(a + 1, ClaimTimeout + 1)
  BY <1>1 DEF Tick, HeldBy, Row
<1>7. HeldBy(v, wk[v].job) => row'[wk'[v].job].age = Upto(a + 1, ClaimTimeout + 1)
  BY <1>2, <1>4
<1> HIDE DEF j, u, a
<1>5. CASE HeldBy(v, wk[v].job)
  <2>1. u > ClaimTimeout \/ u >= a + Ahead[v]
    BY <1>5 DEF Heard, j, u, a
  <2>2. \/ Upto(u + 1, ClaimTimeout + 1) > ClaimTimeout
        \/ Upto(u + 1, ClaimTimeout + 1) >= Upto(a + 1, ClaimTimeout + 1) + Ahead[v]
    BY <1>1, <2>1 DEF Upto
  <2> QED
    BY <1>2, <1>3, <1>5, <1>7, <2>2 DEF Heard
<1>6. CASE ~HeldBy(v, wk[v].job)
  <2>1. u + Spread > ClaimTimeout
    BY <1>6 DEF Heard, j, u
  <2>2. Upto(u + 1, ClaimTimeout + 1) + Spread > ClaimTimeout
    BY <1>1, <2>1 DEF Upto
  <2> QED
    BY <1>2, <1>3, <1>6, <2>2 DEF Heard
<1> QED
  BY <1>5, <1>6

LEMMA RenewKeepsHeard ==
    ASSUME TypeOK, NEW v \in Workers, BeatRenews(v)
    PROVE  Heard(v)'
<1>1. wk[v].job \in Jobs /\ wk'[v].job = wk[v].job /\ wk'[v].unheard = 0
  BY DEF BeatRenews, Beating, TypeOK, Worker
<1>2. row'[wk[v].job].age = -Ahead[v] /\ HeldBy(v, wk[v].job)'
  BY <1>1 DEF BeatRenews, TypeOK, Row, HeldBy
<1> QED
  BY <1>1, <1>2, AheadNat DEF Heard

LEMMA KeepsHeard ==
    ASSUME TypeOK, NEW v \in Workers, WorkerStep(v), RowStep,
           wk[v].pc = "working", wk'[v].pc = "working", wk'[v].job = wk[v].job, Heard(v)
    PROVE  Heard(v)'
<1> DEFINE j == wk[v].job
<1>1. j \in Jobs /\ row[j] \in Row /\ wk[v].unheard \in Nat /\ row[j].age \in Int
  BY DEF TypeOK, Row, Worker
<1>2. CASE Tick
  BY <1>2, TickKeepsHeard
<1>3. CASE BeatRenews(v)
  BY <1>3, RenewKeepsHeard
<1>4. CASE ~Tick /\ ~BeatRenews(v)
  <2>1. wk'[v].unheard = wk[v].unheard
    BY <1>4 DEF WorkerStep, ClaimUpdate, Beat, BeatCeiling, BeatNotHeld, BeatFails, Wedge,
                Shutdown, Recover, WorkEnds, EndRefused, EndAnswerLost, Engaged, TypeOK, Worker
  <2>2. HeldBy(v, j)' => HeldBy(v, j) /\ row'[j].age = row[j].age
    BY <1>1, <1>4, RowHold DEF ClaimWrites
  <2>3. HeldBy(v, j) /\ ~HeldBy(v, j)' => \E u \in Workers : Stale(u, j)
    BY <1>1, RowLoss
  <2> HIDE DEF j
  <2>4. CASE HeldBy(v, j)'
    BY <2>1, <2>2, <2>4 DEF Heard, j
  <2>5. CASE ~HeldBy(v, j)' /\ HeldBy(v, j)
    <3>1. PICK u \in Workers : row[j].age + Ahead[u] > ClaimTimeout
      BY <2>3, <2>5 DEF Stale
    <3>2. wk[v].unheard > ClaimTimeout \/ wk[v].unheard >= row[j].age + Ahead[v]
      BY <2>5 DEF Heard, j
    <3>3. Ahead[u] - Ahead[v] <= Spread /\ Ahead[u] \in Nat /\ Ahead[v] \in Nat
      BY AheadNat
    <3>4. wk[v].unheard + Spread > ClaimTimeout
      BY <1>1, <3>1, <3>2, <3>3
    <3> QED
      BY <2>1, <2>5, <3>4 DEF Heard, j
  <2>6. CASE ~HeldBy(v, j)' /\ ~HeldBy(v, j)
    BY <2>1, <2>6 DEF Heard, j
  <2> QED
    BY <2>4, <2>5, <2>6
<1> QED
  BY <1>2, <1>3, <1>4

LEMMA HoldNext ==
    RowInv /\ HoldInv /\ [Next]_vars => HoldInv'
<1> SUFFICES ASSUME RowInv, HoldInv, [Next]_vars, NEW v \in Workers, Engaged(v)'
             PROVE  Holds(v)'
  BY DEF HoldInv
<1> DEFINE j == wk[v].job
<1>1. TypeOK /\ RowStep /\ WorkerStep(v)
  BY RowSteps, WorkerSteps DEF RowInv
<1>2. CASE ClaimUpdate(v)
  BY <1>1, <1>2, ClaimHolds
<1>3. CASE ~ClaimUpdate(v)
  <2>1. /\ Engaged(v)
        /\ wk'[v].job = j /\ wk'[v].attempt = wk[v].attempt
        /\ wk'[v].taken = "lost" => wk[v].taken = "lost" \/ BeatNotHeld(v)
        /\ wk'[v].landed => wk[v].landed \/ EndAnswerLost(v)
        /\ wk'[v].pc = "working" => wk[v].pc = "working"
        /\ wk[v].pc = "settling" => wk'[v].pc = "settling" /\ wk'[v].outcome = wk[v].outcome
    BY <1>1, <1>3, EngagedStep
  <2>2. Holds(v) /\ j \in Jobs
    BY <1>1, <2>1 DEF HoldInv, Engaged, TypeOK
  <2>3. HeldBy(v, j)' => HeldBy(v, j) /\ row'[j].attempts = row[j].attempts
    BY <1>1, <2>1, <2>2, RowHold DEF ClaimWrites, Engaged
  <2>4. EndAnswerLost(v) => /\ wk[v].pc = "settling" /\ ~HeldBy(v, j)'
                            /\ wk[v].outcome = "ok" => row'[j].state = "done"
    BY <1>1, <2>2 DEF EndAnswerLost, EndCommits, Ended, EndState, HeldBy, TypeOK
  <2>5. row[j].state = "done" => row'[j].state = "done"
    BY <1>1, <2>2, RowMoves DEF Moves, RowInv
  <2>6. BeatNotHeld(v) => ~HeldBy(v, j)
    BY DEF BeatNotHeld
  <2>7. wk'[v].pc = "working" => Heard(v)'
    BY <1>1, <2>1, <2>2, KeepsHeard DEF Holds
  <2>8. HeldBy(v, j)' = HeldBy(v, wk[v].job)'
    OBVIOUS
  <2> HIDE DEF j
  <2>9. HeldBy(v, wk[v].job)' <=> row'[j].state = "running" /\ row'[j].by = v
    BY <2>1 DEF HeldBy
  <2>10. HeldBy(v, j)' <=> row'[j].state = "running" /\ row'[j].by = v
    BY <2>1 DEF HeldBy, j
  <2> QED
    BY <2>1, <2>2, <2>3, <2>4, <2>5, <2>6, <2>7, <2>9, <2>10 DEF Holds, j
<1> QED
  BY <1>2, <1>3

LEMMA HoldInvariant == Spec => []HoldInv
<1>1. Init => HoldInv
  BY DEF Init, HoldInv, Engaged, Resting
<1> QED
  BY <1>1, HoldNext, RowInvariant, PTL DEF Spec

\* Work whose renewals land in time is never handed to a second worker: whoever
\* loses a claim while at work has been silent for ClaimTimeout, less the spread
\* of the clocks, whatever Heartbeat, MaxHold and the number of workers are.
THEOREM OnlyTheSilentLoseTheirClaim == Spec => []TakenOnlyFromTheSilent
<1>1. HoldInv => TakenOnlyFromTheSilent
  BY DEF HoldInv, Holds, Heard, TakenOnlyFromTheSilent, Engaged
<1> QED
  BY <1>1, HoldInvariant, PTL

\* A worker settles by the claim it has: the attempt it was handed is the one its
\* row counts for as long as the row is its own, and a claim known to be lost, or
\* already ended, is never its own again while it settles, so it can end no one
\* else's.
THEOREM NothingIsEndedTwice == Spec => []SettlesByItsClaim
<1>1. HoldInv => SettlesByItsClaim
  BY DEF HoldInv, Holds, SettlesByItsClaim
<1> QED
  BY <1>1, HoldInvariant, PTL

----------------------------------------------------------------------------
(* What a worker was told. *)

\* A report outlives the hold it is about, and the worker's next claim ends it.
Told(w) ==
    /\ wk[w].report # "none" => wk[w].pc = "down" \/ wk[w].pc = "idle"
    /\ wk[w].report = "recorded" \/ wk[w].report = "lost" => ~HeldBy(w, wk[w].job)
    /\ wk[w].report = "recorded" /\ wk[w].outcome = "ok" => row[wk[w].job].state = "done"
    /\ wk[w].report = "lost" /\ wk[w].outcome = "ok" => ~wk[w].landed

ToldInv == \A w \in Workers : Told(w)

\* A worker with a report is as it was, or has just been told.
LEMMA ReportStep ==
    ASSUME TypeOK, [Next]_vars, NEW v \in Workers, Told(v), wk'[v].report # "none"
    PROVE  wk'[v] = wk[v] \/ Answered(v)
<1> USE DEF TypeOK, Worker
<1>1. ASSUME NEW w \in Workers, Work(w), w # v PROVE wk'[v] = wk[v]
  <2>1. CASE (\E j \in Jobs : ClaimSelect(w, j)) \/ ClaimUpdate(w) \/ ClaimMisses(w)
                \/ ClaimAnswerLost(w)
    BY <1>1, <2>1 DEF ClaimSelect, ClaimUpdate, ClaimMisses, ClaimAnswerLost
  <2>2. CASE Beat(w) \/ Wedge(w) \/ Recover(w)
    BY <1>1, <2>2
       DEF Beat, BeatCeiling, BeatRenews, BeatNotHeld, BeatFails, Wedge, Recover
  <2>3. ASSUME NEW outcome \in {"ok", "err", "wait"}, WorkEnds(w, outcome)
        PROVE  wk'[v] = wk[v]
    BY <1>1, <2>3 DEF WorkEnds
  <2>4. CASE Answered(w) \/ EndRefused(w) \/ EndAnswerLost(w)
    BY <1>1, <2>4, AnsweredRests DEF EndRefused, EndAnswerLost
  <2> QED
    BY <1>1, <2>1, <2>2, <2>3, <2>4 DEF Work, Answered
<1>2. CASE Work(v)
  <2>1. CASE (\E j \in Jobs : ClaimSelect(v, j)) \/ ClaimMisses(v) \/ ClaimAnswerLost(v)
    BY <2>1 DEF ClaimSelect, ClaimMisses, ClaimAnswerLost, Resting
  <2>2. CASE ClaimUpdate(v)
    BY <2>2 DEF ClaimUpdate, Handed, Resting
  <2>3. CASE Beat(v) \/ Wedge(v) \/ Recover(v)
    <3>1. wk[v].pc = "working" \/ wk[v].pc = "recovering"
      BY <2>3 DEF Beat, BeatCeiling, BeatRenews, BeatNotHeld, BeatFails, Beating,
                  Wedge, Recover
    <3>2. wk'[v].report = wk[v].report
      BY <2>3 DEF Beat, BeatCeiling, BeatRenews, BeatNotHeld, BeatFails, Wedge, Recover
    <3> QED
      BY <3>1, <3>2 DEF Told
  <2>4. CASE \E outcome \in {"ok", "err", "wait"} : WorkEnds(v, outcome)
    BY <2>4 DEF WorkEnds, Told
  <2>5. CASE EndRefused(v) \/ EndAnswerLost(v)
    BY <2>5 DEF EndRefused, EndAnswerLost, EndCommits, Told
  <2> QED
    BY <1>2, <2>1, <2>2, <2>3, <2>4, <2>5 DEF Work, Answered
<1>3. ASSUME NEW w \in Workers, Process(w) PROVE wk'[v] = wk[v]
  BY <1>3 DEF Process, Shutdown, Crash, Restart, Resting, Told
<1>4. CASE Tick
  BY <1>4 DEF Tick, Told
<1>5. CASE UNCHANGED wk
  BY <1>5
<1> QED
  BY <1>1, <1>2, <1>3, <1>4, <1>5 DEF Next, vars, Add, Bury, Requeue

\* What is told is true when it is told.
LEMMA AnswersAreTrue ==
    ASSUME RowInv, HoldInv, NEW v \in Workers, Answered(v)
    PROVE  Told(v)'
<1> DEFINE j == wk[v].job
<1>1. TypeOK /\ wk[v].pc = "settling" /\ j \in Jobs /\ Holds(v) /\ row \in [Jobs -> Row]
  BY DEF RowInv, HoldInv, Engaged, Answered, EndLands, EndLandsUntold, EndCommits,
         EndMatchesNothing, EndGivesUp, TypeOK
<1>2. ASSUME NEW report \in {"recorded", "lost", "unrecorded"}, NEW landed \in BOOLEAN,
             wk' = Settled(v, report, landed),
             report = "recorded" \/ report = "lost" =>
                 ~(row'[j].state = "running" /\ row'[j].by = v),
             report = "recorded" /\ wk[v].outcome = "ok" => row'[j].state = "done",
             report = "lost" /\ wk[v].outcome = "ok" => ~landed
      PROVE  Told(v)'
  BY <1>1, <1>2, SettledFacts DEF Told, HeldBy
<1>3. CASE EndLands(v)
  <2>1. row'[j] = Ended(v, j, wk[v].outcome) /\ wk' = Settled(v, "recorded", TRUE)
    BY <1>1, <1>3 DEF EndLands, EndCommits
  <2>2. wk[v].outcome = "ok" => row'[j].state = "done"
    BY <2>1 DEF Ended, EndState
  <2>3. row'[j].by # v
    BY <2>1 DEF Ended
  <2> QED
    BY <1>2, <2>1, <2>2, <2>3
<1>4. CASE EndLandsUntold(v)
  BY <1>2, <1>4 DEF EndLandsUntold
<1>5. CASE EndGivesUp(v)
  <2>1. wk[v].landed \in BOOLEAN
    BY <1>1 DEF TypeOK, Worker
  <2> QED
    BY <1>2, <1>5, <2>1 DEF EndGivesUp
<1>6. CASE EndMatchesNothing(v)
  <2>1. wk[v].landed \in BOOLEAN /\ row' = row /\ ~HeldBy(v, j)
    BY <1>1, <1>6 DEF TypeOK, Worker, EndMatchesNothing
  <2>2. CASE ReadsAsEnded(v, j)
    <3>1. wk' = Settled(v, "recorded", wk[v].landed)
      BY <1>6, <2>2 DEF EndMatchesNothing
    <3>2. wk[v].outcome = "ok" => row'[j].state = "done"
      BY <2>1, <2>2 DEF ReadsAsEnded
    <3> QED
      BY <1>2, <2>1, <3>1, <3>2 DEF HeldBy
  <2>3. CASE ~ReadsAsEnded(v, j)
    <3>1. wk' = Settled(v, "lost", wk[v].landed)
      BY <1>6, <2>3 DEF EndMatchesNothing
    <3>2. wk[v].outcome = "ok" => ~wk[v].landed
      BY <1>1, <2>3 DEF Holds, ReadsAsEnded
    <3> QED
      BY <1>2, <2>1, <3>1, <3>2 DEF HeldBy
  <2> QED
    BY <2>2, <2>3
<1> QED
  BY <1>3, <1>4, <1>5, <1>6 DEF Answered

LEMMA ToldNext == RowInv /\ HoldInv /\ ToldInv /\ [Next]_vars => ToldInv'
<1> SUFFICES ASSUME RowInv, HoldInv, ToldInv, [Next]_vars, NEW v \in Workers
             PROVE  Told(v)'
  BY DEF ToldInv
<1>1. TypeOK /\ RowStep /\ Told(v)
  BY RowSteps DEF RowInv, ToldInv
<1>2. CASE wk'[v].report = "none"
  BY <1>2 DEF Told
<1>3. CASE Answered(v)
  BY <1>3, AnswersAreTrue
<1>4. CASE wk'[v].report # "none" /\ ~Answered(v)
  <2>1. wk'[v] = wk[v] /\ (wk[v].pc = "down" \/ wk[v].pc = "idle")
    BY <1>1, <1>4, ReportStep DEF Told
  <2> DEFINE j == wk[v].job
  <2>2. j \in Jobs
    BY <1>1, <1>4, <2>1 DEF TypeOK
  <2>3. HeldBy(v, j)' => HeldBy(v, j)
    BY <1>1, <2>1, <2>2, RowHold DEF ClaimWrites
  <2>4. row[j].state = "done" => row'[j].state = "done"
    BY <1>1, <2>2, RowMoves DEF Moves, RowInv
  <2>5. HeldBy(v, wk[v].job)' <=> row'[j].state = "running" /\ row'[j].by = v
    BY <2>1 DEF HeldBy
  <2>6. HeldBy(v, j) => HeldBy(v, wk[v].job)
    OBVIOUS
  <2>7. row'[j].state = "running" /\ row'[j].by = v => HeldBy(v, j)
    BY <2>1, <2>3, <2>5 DEF HeldBy
  <2> QED
    BY <1>1, <2>1, <2>4, <2>5, <2>6, <2>7 DEF Told
<1> QED
  BY <1>2, <1>3, <1>4

\* What Settle was told of an ending is true of the row, however often the ending
\* was tried, whatever answers were lost and whoever has had the row since.
THEOREM WorkersAreToldTheTruth == Spec => []ReportsAreTrue
<1>1. Init => ToldInv
  BY DEF Init, ToldInv, Told, Resting
<1>2. ToldInv => ReportsAreTrue
  BY DEF ToldInv, Told, ReportsAreTrue
<1> QED
  BY <1>1, <1>2, ToldNext, HoldInvariant, RowInvariant, PTL DEF Spec
=============================================================================
