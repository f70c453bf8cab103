------------------------------ MODULE JobQueue ------------------------------
(***************************************************************************)
(* The job table of internal/queue and the workers that take work from it. *)
(*                                                                         *)
(* Every replica runs the same binary against one database.  A worker      *)
(* claims a row, renews the claim from a second goroutine while the work   *)
(* runs, and records how the work ended.  Nothing but the rows coordinates *)
(* them: every write is a conditional UPDATE in a transaction, which is    *)
(* what one action stands for.  A commit can be refused, or land with its  *)
(* answer lost; database.InTransaction tries it again where the failure is *)
(* one it knows, and reports any other.                                    *)
(*                                                                         *)
(* One instance is the jobs of one kind: a claim and a backlog count name  *)
(* their kind, so kinds never meet.                                        *)
(*                                                                         *)
(* Time is relative.  A row keeps how long ago its claim was stamped and   *)
(* how long until it may run, both measured on a true clock; a replica's   *)
(* own clock runs Ahead[w] of that one.  Counters saturate where nothing   *)
(* can tell larger values apart, so time itself is unbounded.              *)
(***************************************************************************)
EXTENDS Integers, FiniteSets

CONSTANTS
    Jobs,          \* row ids, claimed lowest first
    Workers,       \* the worker loops of this kind, one per replica
    MaxAttempts,   \* Options.MaxAttempts
    MaxBacklog,    \* Options.MaxBacklog, or what an administrator set
    ClaimTimeout,  \* Options.ClaimTimeout
    Heartbeat,     \* Options.Heartbeat
    MaxHold,       \* Options.MaxHold
    Backoff,       \* Options.Backoff
    PostponeDelay, \* how long a postponed job waits
    Ahead,         \* how far each worker's clock is ahead of true time
    Spread,        \* no two clocks differ by more
    MaxEvents      \* bound on crashes, shutdowns, wedges, postponements,
                   \* requeues and connections that fail at a commit

ASSUME JobsAssumption == Jobs \subseteq Nat \ {0}
ASSUME BoundsAssumption ==
    /\ MaxAttempts \in Nat \ {0}
    /\ MaxBacklog \in Nat
    /\ ClaimTimeout \in Nat
    /\ Heartbeat \in Nat
    /\ MaxHold \in Nat
    /\ Backoff \in Nat
    /\ PostponeDelay \in Nat
    /\ MaxEvents \in Nat
\* Options.Check, which refuses to start a process with any other bounds.  A
\* Heartbeat of zero renews nothing and a MaxHold of zero is no ceiling.
ASSUME OptionsCheck ==
    /\ Heartbeat > 0 /\ ClaimTimeout > 0 => Heartbeat < ClaimTimeout
    /\ MaxHold > 0 /\ ClaimTimeout > 0 => ClaimTimeout < MaxHold
ASSUME ClocksAssumption ==
    /\ Ahead \in [Workers -> Nat]
    /\ Spread \in Nat
    /\ \A v, w \in Workers : Ahead[v] - Ahead[w] <= Spread

\* claimed_by of a row nobody holds, and of one whose holder is a process that
\* has ended.  A process's name carries a random part, so no later process has it.
Nobody == "nobody"
Gone == "gone"
ASSUME NamesAssumption == {Nobody, Gone} \cap Workers = {}

NoJob == 0

VARIABLES
    row,     \* the job table
    wk,      \* what each worker is doing, lost when its process ends
    events   \* how many unscheduled events have happened (bounded)

vars == <<row, wk, events>>

----------------------------------------------------------------------------
(* The state. *)

States == {"absent", "pending", "running", "done", "failed"}
Outcomes == {"none", "ok", "err", "wait"}

Row == [state : States, attempts : Nat, by : Workers \cup {Nobody, Gone},
        age : Int,                          \* since claimed_at, while running
        wait : Nat,                         \* until run_after
        said : {"none", "err", "wait", "gone"}]   \* last_error, by what wrote it

Worker == [pc : {"down", "idle", "picked", "working", "recovering", "settling"},
           job : Jobs \cup {NoJob},
           attempt : Nat,                   \* Attempts in the row it was handed
           outcome : Outcomes,              \* how the work ended
           taken : {"none", "lost", "ceiling"},   \* what Holding's release returns
           unheard : Nat,                   \* since a claim or renewal landed
           held : Nat,                      \* since Holding began
           beat : Nat,                      \* since the renewing goroutine ticked
           wedged : BOOLEAN,                \* the work never returns
           leaving : BOOLEAN,               \* the process is shutting down
           matched : BOOLEAN,               \* an earlier try matched the row
           landed : BOOLEAN,                \* an ending of this hold is committed
           report : {"none", "recorded", "lost", "unrecorded"}]   \* what Settle was told

AbsentRow == [state |-> "absent", attempts |-> 0, by |-> Nobody,
              age |-> 0, wait |-> 0, said |-> "none"]

Resting(pc) == [pc |-> pc, job |-> NoJob, attempt |-> 0, outcome |-> "none",
                taken |-> "none", unheard |-> 0, held |-> 0, beat |-> 0,
                wedged |-> FALSE, leaving |-> FALSE, matched |-> FALSE,
                landed |-> FALSE, report |-> "none"]

TypeOK ==
    /\ row \in [Jobs -> Row]
    /\ wk \in [Workers -> Worker]
    /\ events \in 0 .. MaxEvents
    /\ \A w \in Workers :
          wk[w].pc \in {"picked", "working", "recovering", "settling"}
                \/ wk[w].report # "none"
             => wk[w].job \in Jobs

Init ==
    /\ row = [j \in Jobs |-> AbsentRow]
    /\ wk = [w \in Workers |-> Resting("idle")]
    /\ events = 0

----------------------------------------------------------------------------
(* What the statements' WHERE clauses say. *)

Upto(n, top) == IF n < top THEN n ELSE top

\* (Definitions named *_mutant are planted faults: each is the definition that
\* follows it with one mistake, and shows which property notices.)
Stale_mutant(w, j) == row[j].state = "running" /\ row[j].age + Ahead[w] >= ClaimTimeout

\* The claim is older than ClaimTimeout on the clock of the replica asking.
Stale(w, j) == row[j].state = "running" /\ row[j].age + Ahead[w] > ClaimTimeout

\* The row Claim may take: the select's condition, which its update repeats.
Claimable(w, j) ==
    \/ row[j].state = "pending" /\ row[j].wait <= Ahead[w]
    \/ Stale(w, j) /\ row[j].attempts < MaxAttempts

HeldBy(w, j) == row[j].state = "running" /\ row[j].by = w

\* Waiting, plus what is held by a worker that has stopped reporting.
Depth(w) ==
    Cardinality({j \in Jobs : \/ row[j].state = "pending"
                              \/ Stale(w, j) /\ row[j].attempts < MaxAttempts})

MayHappen == events < MaxEvents /\ events' = events + 1

Up(w) == wk[w].pc # "down"

----------------------------------------------------------------------------
(* Producers, the undertaker and the operator. *)

\* Add and AddTx, on w's replica.  Above the backlog it is refused, and a try
\* repeated because its answer was lost is one more Add.
Add(w) ==
    /\ Up(w)
    /\ Depth(w) < MaxBacklog
    /\ \E j \in Jobs :
          /\ row[j].state = "absent"
          /\ \A i \in Jobs : row[i].state = "absent" => j <= i
          /\ row' = [row EXCEPT ![j] =
                        [AbsentRow EXCEPT !.state = "pending", !.wait = Ahead[w]]]
    /\ UNCHANGED <<wk, events>>

Buried_mutant(w, j) == Stale(w, j)

Buried(w, j) == Stale(w, j) /\ row[j].attempts >= MaxAttempts

\* One pass of the undertaker on w's replica.
Bury(w) ==
    /\ Up(w)
    /\ \E j \in Jobs : Buried(w, j)
    /\ row' = [j \in Jobs |->
                  IF Buried(w, j)
                  THEN [row[j] EXCEPT !.state = "failed", !.by = Nobody, !.age = 0,
                                      !.said = "gone"]
                  ELSE row[j]]
    /\ UNCHANGED <<wk, events>>

Requeue_mutant(w, j) ==
    /\ Up(w)
    /\ row[j].state \in {"failed", "done"}
    /\ row' = [row EXCEPT ![j].state = "pending", ![j].attempts = 0,
                          ![j].by = Nobody, ![j].wait = Ahead[w]]
    /\ MayHappen
    /\ UNCHANGED wk

\* An operator puts a failed job back, through w's replica.
Requeue(w, j) ==
    /\ Up(w)
    /\ row[j].state = "failed"
    /\ row' = [row EXCEPT ![j].state = "pending", ![j].attempts = 0,
                          ![j].by = Nobody, ![j].wait = Ahead[w]]
    /\ MayHappen
    /\ UNCHANGED wk

----------------------------------------------------------------------------
(* Claiming: one transaction of two statements, with others' between them. *)

ClaimSelect_mutant(w, j) ==
    /\ wk[w].pc = "idle"
    /\ \A i \in Jobs : Claimable(w, i) => Claimable(w, j) /\ j <= i
    /\ wk' = [wk EXCEPT ![w] = [Resting("picked") EXCEPT
                                  !.job = IF Claimable(w, j) THEN j ELSE NoJob]]
    /\ UNCHANGED <<row, events>>

ClaimSelect(w, j) ==
    /\ wk[w].pc = "idle"
    /\ Claimable(w, j)
    /\ \A i \in Jobs : Claimable(w, i) => j <= i
    /\ wk' = [wk EXCEPT ![w] = [Resting("picked") EXCEPT !.job = j]]
    /\ UNCHANGED <<row, events>>

Claimed(w, j) == [row EXCEPT ![j].state = "running", ![j].by = w,
                             ![j].attempts = @ + 1, ![j].age = -Ahead[w]]

\* The row as the last statement of Claim reads it back, which is what the
\* worker holds; Holding starts at once.
Handed(w, j) == [Resting("working") EXCEPT !.job = j, !.attempt = row'[j].attempts]

ClaimUpdate(w) ==
    /\ wk[w].pc = "picked"
    /\ Claimable(w, wk[w].job)
    /\ row' = Claimed(w, wk[w].job)
    /\ wk' = [wk EXCEPT ![w] = Handed(w, wk[w].job)]
    /\ UNCHANGED events

\* Nothing matched: another worker got there first.
ClaimMisses(w) ==
    /\ wk[w].pc = "picked"
    /\ ~Claimable(w, wk[w].job)
    /\ wk' = [wk EXCEPT ![w] = Resting("idle")]
    /\ UNCHANGED <<row, events>>

\* The claim lands and its answer is lost: the closure runs again from nothing,
\* and the row is left held by a worker that does not know.
ClaimAnswerLost(w) ==
    /\ wk[w].pc = "picked"
    /\ Claimable(w, wk[w].job)
    /\ row' = Claimed(w, wk[w].job)
    /\ wk' = [wk EXCEPT ![w] = Resting("idle")]
    /\ UNCHANGED events

----------------------------------------------------------------------------
(* Holding: the goroutine that renews the claim while the work runs. *)

\* Its ticker fired, and neither it nor the work's context has ended.
Beating(w) ==
    /\ wk[w].pc = "working"
    /\ wk[w].taken = "none" /\ ~wk[w].leaving
    /\ Heartbeat > 0 /\ wk[w].beat >= Heartbeat

AtCeiling(w) == MaxHold > 0 /\ wk[w].held >= MaxHold

BeatCeiling(w) ==
    /\ Beating(w)
    /\ AtCeiling(w)
    /\ wk' = [wk EXCEPT ![w].taken = "ceiling"]
    /\ UNCHANGED <<row, events>>

BeatRenews_mutant(w) ==
    /\ Beating(w)
    /\ HeldBy(w, wk[w].job)
    /\ row' = [row EXCEPT ![wk[w].job].age = -Ahead[w]]
    /\ wk' = [wk EXCEPT ![w].unheard = 0, ![w].beat = 0]
    /\ UNCHANGED events

BeatRenews(w) ==
    /\ Beating(w)
    /\ ~AtCeiling(w)
    /\ HeldBy(w, wk[w].job)
    /\ row' = [row EXCEPT ![wk[w].job].age = -Ahead[w]]
    /\ wk' = [wk EXCEPT ![w].unheard = 0, ![w].beat = 0]
    /\ UNCHANGED events

BeatNotHeld_mutant(w) ==
    /\ Beating(w)
    /\ ~AtCeiling(w)
    /\ wk' = [wk EXCEPT ![w].taken = "lost"]
    /\ UNCHANGED <<row, events>>

BeatNotHeld(w) ==
    /\ Beating(w)
    /\ ~AtCeiling(w)
    /\ ~HeldBy(w, wk[w].job)
    /\ wk' = [wk EXCEPT ![w].taken = "lost"]
    /\ UNCHANGED <<row, events>>

\* A write that failed: the next tick tries again.
BeatFails(w) ==
    /\ Beating(w)
    /\ ~AtCeiling(w)
    /\ wk' = [wk EXCEPT ![w].beat = 0]
    /\ UNCHANGED <<row, events>>

Beat(w) == BeatCeiling(w) \/ BeatRenews(w) \/ BeatNotHeld(w) \/ BeatFails(w)

----------------------------------------------------------------------------
(* The work, and Settle. *)

\* recover runs where the failure looks like the work's own.
Recovers(w, outcome) ==
    outcome = "err" /\ ~wk[w].leaving /\ wk[w].taken \in {"none", "ceiling"}

\* The work returns and the renewing stops.  "wait" is a worker that found
\* something it needs missing, and postpones.
WorkEnds(w, outcome) ==
    /\ wk[w].pc = "working"
    /\ ~wk[w].wedged
    /\ wk' = [wk EXCEPT ![w].outcome = outcome,
                        ![w].unheard = 0, ![w].held = 0, ![w].beat = 0,
                        ![w].pc = IF Recovers(w, outcome) THEN "recovering" ELSE "settling"]
    /\ IF outcome = "wait" THEN MayHappen ELSE UNCHANGED events
    /\ UNCHANGED row

\* The work will never return, cancelled or not.
Wedge(w) ==
    /\ wk[w].pc = "working"
    /\ ~wk[w].wedged
    /\ wk' = [wk EXCEPT ![w].wedged = TRUE]
    /\ MayHappen
    /\ UNCHANGED row

\* Settle's call to the worker's own recover, before the ending is written.
Recover(w) ==
    /\ wk[w].pc = "recovering"
    /\ wk' = [wk EXCEPT ![w].pc = "settling"]
    /\ UNCHANGED <<row, events>>

EndState_mutant(j, outcome) ==
    IF outcome = "ok" THEN "done"
    ELSE IF outcome = "err" /\ row[j].attempts > MaxAttempts THEN "failed"
    ELSE "pending"

\* The row Succeed, Fail and Postpone write.  Fail reads the attempts it acts
\* on in the same transaction, not from what the worker was handed.
EndState(j, outcome) ==
    IF outcome = "ok" THEN "done"
    ELSE IF outcome = "err" /\ row[j].attempts >= MaxAttempts THEN "failed"
    ELSE "pending"

\* Until it may run again: Fail backs off by the attempt.
EndWait(w, j, outcome) ==
    CASE EndState(j, outcome) # "pending" -> row[j].wait
      [] outcome = "err" -> row[j].attempts * Backoff + Ahead[w]
      [] OTHER -> PostponeDelay + Ahead[w]

Ended(w, j, outcome) ==
    [state    |-> EndState(j, outcome),
     attempts |-> IF outcome = "wait" /\ row[j].attempts > 0
                  THEN row[j].attempts - 1 ELSE row[j].attempts,
     by       |-> Nobody,
     age      |-> 0,
     wait     |-> EndWait(w, j, outcome),
     said     |-> IF outcome = "ok" THEN row[j].said ELSE outcome]

\* Settle has its answer: the ending was recorded, the claim was lost, or neither
\* is known.  The worker goes back to polling, unless its process is ending; its
\* report stays, with the hold it is about, until it picks another job.
Settled(w, report, landed) ==
    [wk EXCEPT ![w] = [Resting(IF wk[w].leaving THEN "down" ELSE "idle") EXCEPT
                          !.job = wk[w].job, !.outcome = wk[w].outcome,
                          !.landed = landed, !.report = report]]

\* The ending's commit lands.
EndCommits(w) ==
    /\ wk[w].pc = "settling"
    /\ HeldBy(w, wk[w].job)
    /\ row' = [row EXCEPT ![wk[w].job] = Ended(w, wk[w].job, wk[w].outcome)]

EndLands(w) ==
    /\ EndCommits(w)
    /\ wk' = Settled(w, "recorded", TRUE)
    /\ UNCHANGED events

\* It is refused and nothing is written; it is tried again.
EndRefused(w) ==
    /\ wk[w].pc = "settling"
    /\ HeldBy(w, wk[w].job)
    /\ wk' = [wk EXCEPT ![w].matched = TRUE]
    /\ UNCHANGED <<row, events>>

\* It lands, is reported refused, and is tried again.
EndAnswerLost(w) ==
    /\ EndCommits(w)
    /\ wk' = [wk EXCEPT ![w].matched = TRUE, ![w].landed = TRUE]
    /\ UNCHANGED events

\* It lands and its answer is lost to a failure that is not worth retrying: the
\* worker is told of an error although its ending stands.
EndLandsUntold(w) ==
    /\ EndCommits(w)
    /\ wk' = Settled(w, "unrecorded", TRUE)
    /\ MayHappen

ReadsAsEnded_mutant(w, j) ==
    /\ wk[w].outcome \in {"err", "wait"}
    /\ wk[w].matched
    /\ row[j].by = Nobody
    /\ row[j].said = wk[w].outcome
    /\ row[j].state \in (IF wk[w].outcome = "err" THEN {"pending", "failed"} ELSE {"pending"})

\* What the row has to read for a try that matched nothing to be taken for the
\* ending it was, and not for a lost claim.
ReadsAsEnded(w, j) ==
    \/ wk[w].outcome = "ok" /\ row[j].state = "done"
    \/ /\ wk[w].outcome \in {"err", "wait"}
       /\ wk[w].matched
       /\ row[j].by = Nobody
       /\ row[j].said = wk[w].outcome
       /\ row[j].state \in (IF wk[w].outcome = "err" THEN {"pending", "failed"} ELSE {"pending"})

\* The try matches nothing, and the row is read for what that means.
EndMatchesNothing(w) ==
    /\ wk[w].pc = "settling"
    /\ ~HeldBy(w, wk[w].job)
    /\ wk' = Settled(w, IF ReadsAsEnded(w, wk[w].job) THEN "recorded" ELSE "lost",
                     wk[w].landed)
    /\ UNCHANGED <<row, events>>

\* Every try was refused, the database did not answer within settleTimeout, or it
\* failed in a way that is not tried again: nothing more is written, and a row
\* not yet ended keeps its claim.
EndGivesUp(w) ==
    /\ wk[w].pc = "settling"
    /\ wk' = Settled(w, "unrecorded", wk[w].landed)
    /\ UNCHANGED <<row, events>>

----------------------------------------------------------------------------
(* Processes and time. *)

\* A shutdown cancels the context the work runs under.
Shutdown(w) ==
    /\ wk[w].pc = "working"
    /\ ~wk[w].leaving
    /\ wk' = [wk EXCEPT ![w].leaving = TRUE]
    /\ MayHappen
    /\ UNCHANGED row

\* A process that ends, at any moment, takes its name with it.
Crash(w) ==
    /\ wk[w].pc # "down"
    /\ wk' = [wk EXCEPT ![w] = Resting("down")]
    /\ row' = [j \in Jobs |-> IF row[j].by = w THEN [row[j] EXCEPT !.by = Gone] ELSE row[j]]
    /\ MayHappen

Restart(w) ==
    /\ wk[w].pc = "down"
    /\ wk' = [wk EXCEPT ![w] = Resting("idle")]
    /\ row' = [j \in Jobs |-> IF row[j].by = w THEN [row[j] EXCEPT !.by = Gone] ELSE row[j]]
    /\ UNCHANGED events

\* One unit of time.  It does not pass inside a claim's transaction, whose
\* statements share one reading of the clock.
Tick ==
    /\ \A w \in Workers : wk[w].pc # "picked"
    /\ row' = [j \in Jobs |->
                  [row[j] EXCEPT !.age = IF row[j].state = "running"
                                         THEN Upto(@ + 1, ClaimTimeout + 1) ELSE @,
                                 !.wait = IF @ > 0 THEN @ - 1 ELSE 0]]
    /\ wk' = [w \in Workers |->
                  IF wk[w].pc = "working"
                  THEN [wk[w] EXCEPT !.unheard = Upto(@ + 1, ClaimTimeout + 1),
                                     !.held = Upto(@ + 1, MaxHold),
                                     !.beat = Upto(@ + 1, Heartbeat)]
                  ELSE wk[w]]
    /\ UNCHANGED events

----------------------------------------------------------------------------

Work(w) ==
    \/ \E j \in Jobs : ClaimSelect(w, j)
    \/ ClaimUpdate(w) \/ ClaimMisses(w) \/ ClaimAnswerLost(w)
    \/ Beat(w)
    \/ \E outcome \in {"ok", "err", "wait"} : WorkEnds(w, outcome)
    \/ Wedge(w) \/ Recover(w)
    \/ EndLands(w) \/ EndRefused(w) \/ EndAnswerLost(w) \/ EndLandsUntold(w)
    \/ EndMatchesNothing(w) \/ EndGivesUp(w)

Process(w) == Shutdown(w) \/ Crash(w) \/ Restart(w)

Next ==
    \/ \E w \in Workers : Work(w) \/ Process(w) \/ Add(w) \/ Bury(w)
    \/ \E w \in Workers, j \in Jobs : Requeue(w, j)
    \/ Tick

Spec == Init /\ [][Next]_vars

(***************************************************************************)
(* Fairness.  Every loop here is a goroutine on a ticker, and a process    *)
(* that ended is started again.  Nothing is assumed of a work that wedged, *)
(* of commits (a try that can land may be refused any number of times, but *)
(* not for ever), of operators or of producers.                            *)
(***************************************************************************)
Fairness ==
    /\ WF_vars(Tick)
    /\ \A w \in Workers :
          /\ WF_vars(\E j \in Jobs : ClaimSelect(w, j))
          /\ WF_vars(ClaimUpdate(w) \/ ClaimMisses(w))
          /\ WF_vars(Beat(w))
          /\ WF_vars(WorkEnds(w, "ok") \/ WorkEnds(w, "err"))
          /\ WF_vars(Recover(w))
          /\ WF_vars(EndLands(w) \/ EndMatchesNothing(w))
          /\ WF_vars(Restart(w))
          /\ WF_vars(Bury(w))

FairSpec == Spec /\ Fairness

----------------------------------------------------------------------------
(* Properties. *)

Engaged(w) == wk[w].pc \in {"working", "recovering", "settling"}

\* A job is tried at most MaxAttempts times between two decisions of an
\* operator, and it has failed only when every one of them is spent.  A claim
\* of a waiting row checks no attempts (Claim's first WhereOr), so this rests
\* on every way back to waiting leaving one.
AttemptsInRange ==
    \A j \in Jobs :
        /\ row[j].state = "absent"  => row[j].attempts = 0
        /\ row[j].state = "pending" => row[j].attempts < MaxAttempts
        /\ row[j].state = "running" => row[j].attempts \in 1 .. MaxAttempts
        /\ row[j].state = "failed"  => row[j].attempts = MaxAttempts

\* A worker settles by the claim it has.  While it still holds its row, the
\* attempt it was handed is the one the row counts (read.go decides from the copy
\* whether a failure is the last one, and Fail decides from the row), it has not
\* been told that the claim is lost, and no ending of it is committed: after
\* either its late writes match nothing, its name being not enough to end a later
\* claim.
SettlesByItsClaim ==
    \A w \in Workers :
        Engaged(w) /\ HeldBy(w, wk[w].job) =>
            /\ wk[w].attempt = row[wk[w].job].attempts
            /\ wk[w].taken # "lost"
            /\ ~wk[w].landed

\* A claim is taken from a worker at work only when no renewal of it has landed
\* for longer than ClaimTimeout, less what the two clocks differ by.  Work that
\* is renewed on time is never handed to a second worker (Claim, Bury, Renew).
TakenOnlyFromTheSilent ==
    \A w \in Workers :
        wk[w].pc = "working" /\ ~HeldBy(w, wk[w].job)
            => wk[w].unheard + Spread > ClaimTimeout

\* What Settle was told is true of the row, then and until the worker's next
\* claim.  Told that the claim was lost, the worker has no success standing in the
\* row; told that a success is recorded, the job is done; told either, it has left
\* no claim in its name for others to wait out.  An ending whose commit was tried
\* again can be told any of the three ways, and the row it is read from has been
\* everybody's since (the second reads of Succeed, Fail and Postpone).  An error is
\* no claim about the row: the ending may stand, or the claim may.
ReportsAreTrue ==
    \A w \in Workers :
        LET worker == wk[w] IN
        /\ worker.report \in {"recorded", "lost"} => ~HeldBy(w, worker.job)
        /\ worker.outcome = "ok" =>
              /\ worker.report = "recorded" => row[worker.job].state = "done"
              /\ worker.report = "lost" => ~worker.landed

\* A finished job stays finished: no late worker, burial, operator or repeated
\* commit brings it back.
DoneIsFinal ==
    [][\A j \in Jobs : row[j].state = "done" => row'[j].state = "done"]_vars

\* Every job that was queued is done or has failed in the end, though workers
\* die, wedge, stop being heard or cannot record an ending: no row waits for
\* ever in the running state (the stale claim, MaxHold and Bury between them).
EveryJobEnds ==
    \A j \in Jobs :
        row[j].state \in {"pending", "running"} ~> row[j].state \in {"done", "failed"}

----------------------------------------------------------------------------
(* What it implements. *)

StatusOf(state) ==
    CASE state = "pending" -> "waiting"
      [] state = "running" -> "out"
      [] OTHER -> state

statusBar == [j \in Jobs |-> StatusOf(row[j].state)]
handedBar == [j \in Jobs |-> row[j].attempts]

Promise == INSTANCE WorkQueue WITH status <- statusBar, handed <- handedBar

\* The rows, whatever the workers do, behave as the queue its callers rely on.
KeepsThePromise == Promise!Spec
=============================================================================
