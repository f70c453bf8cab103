# OpenPSIRT: verification project

OpenPSIRT takes software inventories from build pipelines, works out what each
release contains, matches it against published vulnerabilities, and tracks what
a security team decides about each finding. Every replica runs the same binary
against one database (PostgreSQL, MySQL, SQL Server or SQLite); nothing but the
rows of that database coordinates them. So what is hard about it is what happens
between one transaction and the next: two replicas on one row, a process that
ends half way, an answer that is lost after the commit it answers.

The modules here model the parts the rest stands on, in this order: the **job
queue**, the **lease**, the **rewriting of deadlines** that runs under it,
**ingest**, from an upload to what a build shows, **decisions**, what people
say of a finding and the second person who has to agree, **assignment**, how
work nobody holds comes to a team, and **notification**, what is said of a condition
and carried outside. TLC checks each on a small instance, TLAPS proves its safety for every value of the constants. What is not
modelled yet is listed at the end, with the plan for it.

Contents

1. The system's parts
2. The modules
3. The job queue
4. The lease and the deadline rewrite
5. Ingest
6. Decisions
7. Assignment
8. Notification
9. The runs
10. What is proved
11. What the runs found
12. What is not modelled, and the plan

Running it:

    tlc -workers 2 -config MCJobQueue.cfg MCJobQueue
    tlapm JobQueueProofs.tla

## 1. The system's parts

| Part | State it keeps | Operations | What is hard | What makes it correct |
|---|---|---|---|---|
| job queue (`internal/queue`) | the job table; per worker, the claim it holds and the goroutine renewing it | add, claim, renew, succeed, fail, postpone, bury, requeue | claims that go stale under a live worker, endings written twice, clocks, crashes | a job is tried at most so often, is done once and for good, and always ends |
| lease (`internal/queue/lease.go`) | one row per named piece of work | take, take if lapsed, await, release | expiry read on one clock and written on another; late release | one holder at a time |
| deadline rewrite (`httpapi/adminapi/settings.go`, `finding/due.go`) | the policy; the deadline stored with each finding; a flag per process that another rewrite was asked for | change a setting, ask, wait for the turn, walk, hand back, stop | coalesced requests, a walk that outlasts its lease, a scan writing beside it | deadlines come to be those of the newest policy, and are never put back |
| ingest (`internal/ingest`, `scansapi`) | the scan rows, the documents kept of each, the build's `last_scan_id`, parse jobs | decide on an upload, record, read, apply, let go, mark failed, reinstate | reads in any order and retried at any time, over a graph that takes scan identifiers for time | a build shows the newest inventory that stands, and never goes back |
| dependency graph (`internal/graph`) | nodes and edges, each opened and closed by a scan | apply a snapshot | large, but one transaction | as ingest, which orders it |
| scanner and schedule (`internal/scanner`) | scan runs and receipts | owe, run, match, apply | runs superseded while they wait | every image is scanned each day, or said not to be |
| findings (`internal/finding`) | findings, closures, release notes | apply a match, close, reopen | a person and a scan closing one finding | the first reason stands |
| assignment (`internal/finding`, `assignapi`) | rules in their order, who holds each finding, sweep jobs, the lease of the daily catch-up | write and retire a rule, arrive, sweep, assign, hand back, catch up | a sweep of several statements beside people and other sweeps; a full queue; a lease that records a day | a rule takes nothing from anybody, the first match wins, what a rule names is placed in the end, once a day at most and at least |
| triage (`internal/triage`) | decisions with their revisions, the rows they cover, agreements, incidents on record | propose, agree to, set aside, send back, revise, withdraw, take back, lapse, re-affirm, record an incident | two deciders at once, on engines that read differently; long sequences of legal acts | one answer at a place, and what is in force was agreed to, by somebody else, as it reads now |
| analysis, series, flaws | runs, flaws under a prefix | record a run, record a flaw | the same run delivered twice, two flaws under one new prefix | one row for one thing |
| advisories, incidents | editions, issuances, the fix named | edit, issue, name, withdraw | ordinals read and written by two people | numbered without gap or repeat |
| notifications (`internal/notify`) | conditions and who was told; what has gone to each destination | reconcile, carry, settle, hand on, take again | replicas reconciling and carrying at once; a condition that is several rows, and comes back | an end told once, an opening heard once, what stays open said |
| attachments (`internal/attach`) | rows, and objects in a store | put, collect | a quota two uploads read at once; an object without its row | the quota holds, nothing is lost that has a row |
| catalog, settings, trail, access | declared names, settings, what was changed by whom, roles | declare, retire, set | last write over a stale read | the trail says what was really replaced |
| upstream, currency, supplier, patch-branch and publication passes | a lease each, and what they last fetched | a pass | a pass that outlasts its lease | one at a time |
| database layer and migrations | the schema version and its lock | retry a transaction, migrate | two replicas starting at once | a transaction that is tried again starts from nothing |
| readers of SBOM, SARIF, CSAF, VEX; version comparison; ratings; rendering; HTTP decoding | none | pure | none that steps show | a property of text and data, not of steps |

How the parts meet: the scans handler records an upload and queues a parse job in
one transaction; a reader takes the job, applies the inventory to the graph and
queues the scan that matches it; a scan's match opens findings and gives each a
deadline from the policy; an administrator who changes the policy has every
deadline rewritten, under a lease. Queue and lease are the only two ways replicas
keep out of each other's way for longer than a transaction, which is why they
come first.

## 2. The modules

| Module | What it is |
|---|---|
| `WorkQueue` | what the queue promises the packages that use it: no workers, claims or clocks |
| `JobQueue` | the job table and the workers, as the code has them; implements `WorkQueue` |
| `MCJobQueue`, `JobQueueProofs` | its instances, its theorems |
| `Lease` | the lease row and what each statement on it matches and writes |
| `DeadlineRewrite` | EXTENDS `Lease`: handlers, rewriters, the walk, a scan beside them |
| `MCDeadlineRewrite`, `DeadlineRewriteProofs` | its instances, its theorems |
| `Ingest` | uploads and readers of one build; its parse jobs are an INSTANCE of `WorkQueue` |
| `MCIngest`, `IngestProofs` | its instances, its theorems |
| `SoleReaderProofs` | EXTENDS `IngestProofs`: the theorems that are of one reader |
| `Decisions` | decisions, rows and agreements of one issue in one product, and the transactions open on them |
| `MCDecisions`, `DecisionsProofs` | its instances, its theorems |
| `Assignment` | the rules of one product, the sweeps that apply them and the people beside them |
| `MCAssignment`, `AssignmentProofs` | its instance, its theorems |
| `CatchUp` | EXTENDS `Lease`: the loop that once a day queues the sweep of every ruled product |
| `CatchUpProofs` | its theorems |
| `Notify` | one condition: the rows that say it to people, the sweeps that open and clear them, the delivery that carries it outside |
| `NotifyProofs` | its theorems |
| `MCLoops` | the instances of `CatchUp` and `Notify` |

`Ingest` takes its jobs at what `WorkQueue` promises of them, and `JobQueue` is
shown, by TLC and by proof, to keep that promise. So whatever order claims,
stale claims, burials and operators produce is covered in `Ingest` without a clock
in it. That `Ingest` asks no more of a job than that is proved too. (`Ingest` adds who holds each job, because an ending by anybody else
matches nothing.) `Assignment` counts its sweep jobs instead of naming them, since
those of one product are alike, and takes the daily catch-up at what `CatchUp`
shows of it.

Two conventions hold throughout.

*Grain.* A conditional `UPDATE` in a transaction of its own is one action, because
the row it matches is locked. A transaction that reads, lets others commit, and
then writes is several. `database.InTransaction` retries: a commit that is refused,
and one that lands with its answer lost, are disjuncts of the action that commits,
not faults bolted on.

*Planted faults.* A definition named `X_mutant` is `X` with one plausible mistake:
a guard dropped, a bound off by one, a field not reset. It is not used by any
action. Put in the place of `X` it breaks a property, which is how each property
is known to be able to fail.

## 3. The job queue

| Model | Code |
|---|---|
| `row[j]` | a row of the job table: `state`, `attempts`, `claimed_by`, age of `claimed_at`, time to `run_after`, who wrote `last_error` |
| `wk[w]` | the worker loop of one replica: what it was handed, how the work ended, and what the goroutine started by `Holding` knows |
| `Add`, `Bury`, `Requeue` | `Queue.AddTx`, the undertaker's pass, the operator's requeue |
| `ClaimSelect`, `ClaimUpdate`, `ClaimMisses`, `ClaimAnswerLost` | `Queue.Claim`: the select, the update that repeats its conditions, the update that matches nothing, the commit whose answer is lost |
| `BeatCeiling`, `BeatRenews`, `BeatNotHeld`, `BeatFails` | one tick of `Holding` |
| `WorkEnds`, `Wedge`, `Recover` | the work returning, never returning, and `Settle`'s call to the worker's own recovery |
| `EndLands`, `EndRefused`, `EndAnswerLost`, `EndLandsUntold` | `Succeed`, `Fail` and `Postpone` through `InTransaction`: the commit lands; is refused and tried again; lands with its answer lost and is tried again; lands with its answer lost to a failure `WorthRetrying` does not know, which is an error |
| `EndMatchesNothing`, `EndGivesUp` | the second read of each, which takes the row for the ending or for a lost claim; tries, time or connection run out |
| `report` | what `Settle` tells apart: the ending is recorded, `ErrNoLongerHeld`, or another error. Kept with the hold's job, outcome and `landed` until the worker's next claim |
| `Shutdown`, `Crash`, `Restart`, `Tick` | processes and time |

One instance is the jobs of one kind; a claim and a backlog count both name their
kind, so kinds never meet.

*Time* is relative. A row keeps how long ago its claim was stamped and how long
until it may run, measured on a true clock; a replica's own clock runs `Ahead` of
that. Ages saturate one past the largest value anything compares with, so time
itself is unbounded and no run ends because a clock ran out.

*Add* counts the backlog and inserts in one step. In the code other producers come
between; the code says so and calls the backlog back-pressure rather than a bound,
so nothing here is claimed of its exact depth.

The properties: the number of tries (`AttemptsInRange`), that a worker settles by
the claim it has (`SettlesByItsClaim`: the number it was handed is the row's, and
its late writes match nothing), that a claim is taken only from a worker not heard
from for `ClaimTimeout` less what clocks differ by (`TakenOnlyFromTheSilent`), that
what `Settle` was told is true of the row (`ReportsAreTrue`), that
done is final (`DoneIsFinal`), that all this is `WorkQueue` to those who use it
(`KeepsThePromise`, through `statusBar` and `handedBar`), and that every job ends
(`EveryJobEnds`).

`ReportsAreTrue` says no more than the code does. A success that stands is never told
as a lost claim, which `Succeed`'s second read is for; it may be told as an error,
where the connection failed at the commit or the tries ran out. A failure or a
postponement that landed may be told as lost, where the row was claimed again between
the commit and the try that asks; what matters then is that the late try ends no other
claim (`SettlesByItsClaim`).

*Fairness.* Each worker loop, each renewing goroutine and the undertaker is a
goroutine on a ticker, time passes, and a process that ended is started again, so
each has weak fairness. Nothing is assumed of work that wedged, of producers or of
operators; a commit may be refused any number of times but not for ever.

*Bounds.* `MaxEvents` caps what is not scheduled (crashes, shutdowns, wedges,
postponements, requeues, connections that fail at a commit). `ClaimTimeout` 2, `Heartbeat` 1 and `MaxHold` 3 are the
smallest values `Options.Check` lets through for which a renewal can be late
without the claim being stale. `Options.Check` lets a zero through as well: no
`Heartbeat` renews nothing and no `MaxHold` is no ceiling, which the guards of
`Beating` and `AtCeiling` say and the theorems cover. `EveryJobEnds` is checked with
both set, and needs the ceiling: without one, work that wedges is renewed for ever, as
the comment at `MaxHold` says. Two workers are enough for a takeover and a late
ending; two attempts for a retry and a last try. `MCJobQueue` chooses, for the whole
of a behaviour (`several`), either one job to which anything may happen (two events)
or two jobs, nothing unscheduled and no commit tried again, where several rows change at once and a
returning job may not starve the next. Two rows and a crash together are out of
TLC's reach; the safety of both at once is what the proofs are for.

## 4. The lease and the deadline rewrite

| Model | Code |
|---|---|
| `lease`, `Takeable`, `HeldFor`, `Released` | the row, and what `Leases.Take` and `Leases.Release` match and write |
| `policy`, `due[s]` | the version of the settings in force, and the one the deadlines of a slice of the findings were last written from |
| `rw[p]` | the rewriter of one process: where its goroutine is, whether another run was asked for, how much is left of its bound, what it read and has yet to walk |
| `Change`, `ChangeAnswerLost`, `Ask`, `AskRefused` | the settings handler: its transaction, then its request |
| `NextRun`, `NoMoreRuns`, `TakeTurn`, `TakeAnswerLost`, `NoTurnCame`, `LoadWindows`, `WriteSlice`, `CutShort`, `ReturnTurn`, `ReturnFails` | one run, from the flag to the lease handed back |
| `ScanReads`, `ScanCommits` | `finding.Apply`, which reads the policy as it begins and writes deadlines when it commits, and takes no lease |
| `StopRewrites`, `Exit`, `Start`, `Tick` | processes and time |

A deadline is the version of the policy it was counted from; what it is counted
from is data. `lost` records that a rewrite was forgotten, cut short or refused in
one of the ways the code logs or cannot help (asking is kept in memory), and is
cleared when a later run makes up for it: the properties say what holds where none
was.

*Fairness.* Weak fairness of each handler's, rewriter's and process's own steps, of
the scan, and of time where nobody can step (`Fairness`). `MCDeadlineRewrite` adds
one variable, `prompt`, chosen at the start of a behaviour: in a prompt world time
stands while a rewriter can take a step. One unit of time is the lease's length
over `Limit`; the bound in the code is thirty minutes, the longest rewrite its
comments report took nineteen seconds, and a waiter polls every two. Without that a
run could use up its bound for no reason the code has. Only `ChangesArrive` asks for
a prompt world; safety is checked in both and proved under `Spec`, where a step may
take as long as it likes.

*Bounds.* Two processes, two slices (so that a walk can be cut between them), three
changes (one being walked, one waiting, one superseding both), one unscheduled event.

## 5. Ingest

| Model | Code |
|---|---|
| `scan[i]` | a scan row: its status, the submission it holds, whether its documents are kept, whether the graph names it |
| `shown` | `build.last_scan_id` |
| `status`, `handed`, `names`, `by` | the parse jobs: `WorkQueue`'s two variables, the scan each names, who holds it |
| `sender[u]` | an upload's transaction between its writes and its commit |
| `reader[r]` | a reader loop, from `Once` through `read` to `Settle` |
| `UploadNew`, `UploadAgain`, `UploadCommits`, `UploadRollsBack` | `Decide` and `Record` (with `retake`) in the scans handler's transaction; its commit with the job; its rollback |
| `Claim`, `Look`, `ReadFails`, `TakeBuild`, `Apply`, `ApplyAnswerLost`, `ApplyRefused`, `LetGo`, `KeepsThem` | `Reader.read`: the reads before the parse, the parse, the transaction that takes the build's row, asks again what stands and applies, and what follows it |
| `MarkFailed`, `Reinstate`, `ReinstateAdds`, `RecoveryFails`, `End` | `Settle`'s recovery, and the job's ending |
| `Crash`, `Shutdown`, `Bury`, `Requeue` | processes, the undertaker, the operator |

One instance is one build. `Moves` says it is a branch, whose documents are let go
once applied. `Serial` says transactions take turns, which is what SQLite's
`_txlock=immediate` gives; without it an upload's and a reader's transactions
interleave, identifiers are handed out at the insert and seen at the commit.

Abstracted: what the graph does with an inventory is whether it opened or closed
anything (a snapshot that does names its scan; a build's first always does); the
reads of `Look` are one step, because the transaction asks again; an upload
refused at the door changes nothing and is no step; claims come in any order,
which is weaker than the queue's. Left out: documents that state no build time and
are dated on arrival, the row kept of a refusal, the counts `Made` records, and the
scan job a read queues.

*Bounds.* Two or three submissions (an older build, a newer one, the newer one
re-argued or contradicted), one or two readers and uploads, three identifiers,
three to five jobs, two attempts, one hazard beyond reads that fail, which are
free. The two-reader run is a tag on SQLite: on the servers, and for a branch, what
it shows of graph rows and of the order of identifiers rests on the proofs, which
ask for neither. In the one-reader run the job table is never full. In the
two-reader run it can be, and a behaviour then stops short, which for safety only shortens it;
this, and producers that need send nothing, is why these cfgs do not check for
deadlock. Readers and senders are symmetric wherever no liveness is checked.

*Fairness.* Readers poll, an upload's statements go on to the commit, every replica
buries what is spent: weak fairness of each. Nobody has to send anything or put a
job back.

## 6. Decisions

One issue in one product. A decision is one argument with its revisions; it covers
rows, one per occurrence of the issue, each made against a version of the code and
holding a unique live key while it stands; an agreement names one revision. The
decisions here are dismissals, which need a second person and which an incident on
record contradicts.

| Model | Code |
|---|---|
| `decision[d]` | `Decision` and its `Revision`s: whom each names (`by`), and who really wrote the words (`from`), which no column keeps |
| `row[r]` | `DecisionOccurrence`: state, `decision_id`, version, `sent_back_at`, `live_key`, and at which moment it ended |
| `agreement` | the `Approval` rows not withdrawn, `carried_from` included |
| `incident`, `code` | an incident on record; the version the code is at |
| `txn[s]` | what an open transaction has read |
| `Begin`, `ReadStamp`, `Permits`, `Looked`, `Restamped`, `Rollback` | `Store.writing`, `writableRows`, the refusals, `Restamp` and its `ErrGoAgain` |
| `Propose` | `Store.write`: refused by an incident and by the unique live key |
| `BeginReaffirm`, `Reaffirm` | `Store.reaffirm`, with the agreement carried or not |
| `BeginApprove`, `ApproveDecision` | `Store.approveDecision`: rows agreed to, rows set aside into a decision of their own (`SetsAside`, `Moved`), matched on the revision (`WhileRevised`) |
| `BeginSplit`, `Split`, `BeginSendBack`, `SendBackDecision` | `Store.split`, `Store.SendBackDecision` |
| `BeginRevise`, `Revise`, `BeginWithdraw`, `Withdraw` | `Store.revise`, `Store.Withdraw` |
| `BeginUndo`, `UndoBatch` | `Store.undoBatch` with `returnToWaiting` |
| `Lapse`, `MoveCode` | `Store.Lapse`; the code moving on, which is the world |
| `BeginIncident`, `RecordIncident`, `ClearIncident` | `Store.RecordIncident` with `unsayWhatARecordContradicts`; `Store.ClearIncident` |

*Engines.* What an act decides from it reads beside other transactions; its writes
are one step with the commit. `engine` says what it may read. On SQLite
(`"serial"`) a transaction has the database to itself. MySQL and MariaDB read one
snapshot (`"snapshot"`). PostgreSQL reads anew for each statement (`"statements"`),
so a decision's rows and its stamp are of two moments. Two writers of one decision
take turns wherever both restamp it: the one whose stamp is no longer there goes
again, whole. Re-affirming, lapsing and recording an incident do not restamp.

*Abstracted.* Who may reach the product: everybody may act. Words are who wrote
them. How bad an issue is, which decides whether a re-affirmation carries its
agreement, is a free choice. A person's agreements are one batch, a lapse one set
of rows. `Propose` reads and writes in one step, because its rows are new and the
live key is what refuses a second. Left out: extending a decision, deciding many at
once, agreements narrowed or rated worse, rows recorded as a flaw, comments, and who
is told.

*Properties.* Two rows never stand at one occurrence and version
(`OneAnswerAtAPlace`); what is in force rests on an agreement to the words it rests
on now (`InForceIsAgreed`), given by somebody who neither proposed nor wrote any of
them, wherever they were moved (`AgreedByAnother`); what is with its author comes
into force only after a revision (`SentBackIsNotAgreed`), what ended only with new
words (`EndedStandsOnlyRevised`); and no product reads as exploited and as dismissed
where transactions take turns (`SerialKeepsTheRecord`). Four of them except
PostgreSQL, and findings 4 and 5 are why.

*Bounds* (`Within` in `MCDecisions`). In turn: two people, two occurrences, two
decisions, two versions, and three revisions unless the code moved and both
occurrences are decided. At once: one occurrence, two decisions, two revisions, two
transactions, code that stays; three people who each read a snapshot, or two whose
statements each read their own moment. A decision set aside from, and the one it went
to, are two; a third person tells an approver from a reviser and a proposer. The
properties that name a third person except PostgreSQL, so two are enough there for
what is left (`OneAnswerAtAPlace` and types). No liveness: nobody has to act.

## 7. Assignment

`Assignment` is one product; `CatchUp` is the loop that comes round all of them.

| Model | Code |
|---|---|
| `finding`, `holder` | whether a finding is open, and `assigned_to` |
| `rule`, `Matches`, `Team` | the `assignment_rule` table by ordinal, what each names and the team it hands that to |
| `reading` | who may read the product; of a team, whether a member does (`AnyMemberReads`) |
| `arriving` | a scan's transaction between `Arrived` asking for a rule and the commit |
| `waiting[t]` | the product's sweep jobs that wait, by the tries each has had |
| `sw[p]` | the sweep loop of a replica: the rules yet to try, those whose work was read and written, how much the batch has read, the page |
| `fresh[p]` | what came to be without a holder since this sweep began; no code keeps it |
| `ScanOpens`, `ScanCommits` | `Arrived` within a scan's transaction, the backlog full or not; its commit |
| `AddRule`, `RetireRule` | `Store.AddRule` with `queueSweep`, which refuses the rule where the queue is full; `Store.RetireRule` |
| `Assign`, `Close`, `Narrow`, `Widen` | people: `Store.Assign`, a closure, `HandBackUnread` within the write that takes reading away, a grant |
| `Claim`, `TakeOver` | `Queue.Claim` of a job that waits; of one whose holder is alive and late |
| `ReadRules`, `SkipRule`, `ReadPage`, `Place` | `ApplyRules` and `applyOne`, a statement each |
| `QueueRest`, `NothingLeft`, `SweepFails` | how `ApplyRules` ends, and the job queued for the rest of a full batch |
| `Settle`, `SettleFails`, `Crash` | `Queue.Settle`; an ending never written; a process's end |
| `lease`, `TakeUp`, `TakeAnswerLost` | `TakeLapsed`, whose holder does not renew it; its commit reported failed |
| `cu[p]`, `List`, `QueueSweep`, `PassEnds`, `PassFails`, `HandBack`, `HandBackFails` | `CatchUpOnce`: the list, a sweep queued for each, the full queue that ends a pass and keeps the lease, the failure that hands it back |
| `since` | how long ago the catch-up that counts was taken up; no code keeps it |
| `Rule`, `Arrives`, `Claim`, `Tick` | the rest of the deployment, and time |

*Abstracted.* What a rule matches is data. All work is at one visibility, so a
team whose members read the product may hold it, and a team retired is one nobody
on reads. `holdableBy` and the page read are one step, since what a member loses
between them is handed back the same as what is lost after. A backlog is counted and
added to in one step, as in section 3. A job's backoff and its claim's going stale
are time, which `Assignment` has none of: a claim nobody renews waits from the moment
it is let go, one in use may be taken over at any moment. A shutdown is a statement
that fails and a settling, which counts the try. `CatchUp` counts the sweeps that wait
and keeps neither which product each is for nor a job's tries: an ended one has been
claimed. Left out: rules that place vulnerability reports, a rule that names
too much of the tree to run, and the wait between ticks.

*Properties.* A sweep takes work from nobody, whoever took it up since its page was
read (`RuleTakesNothing`). A rule places only what no rule tried before it names
(`FirstMatchWins`), and here `fresh` is needed: what arrives, or is handed back, after
an earlier rule read its page goes to the first rule that reads it. Work a rule in
force can place does not stay with nobody for ever (`WorkIsPlaced`), over queues
that are full, sweeps cut short and tries that are spent. Two catch-ups are a day
apart, less what the clocks differ by, unless the earlier one failed and handed the
lease back (`OneCatchUpADay`), and every product whose rule stays has its sweep
queued again and again (`EveryProductIsSwept`).

*Fairness.* Sweep and catch-up loops are goroutines on tickers, an open transaction
commits, days pass: weak fairness of each. A day is long against a pass and against
the seconds between two claims, so `MCLoops` has a `prompt` world as in section 4,
and only `EveryProductIsSwept` asks for it; `OneCatchUpADay` is checked in both. In
`Assignment` the daily sweep is weakly fair while it can be queued; that the loop
comes round is what `CatchUp` shows.

*Bounds.* `MCAssignment`: two replicas, two findings, two rules that both name one
of them, a batch of one so that the rest of every page is queued, room for one
sweep, two tries, two events. `CatchUp` in `MCLoops`: three replicas (the one that failed, the
one that took over, the one that comes late), two products and a queue with room for
both, a day of three units, a clock one unit ahead, three events. With a queue
smaller than the list the last product may never be reached (section 11).
`Assignment` may stop: no rule is left in force and nothing more happens.

## 8. Notification

| Model | Code |
|---|---|
| `failing`, `hearing` | whether an upstream could not be read for long enough (`upstreamsFailing`); the administrators |
| `row` | the notification table, of this one condition: whose, `created_at`, `cleared_at`. How often its end was said and how often a request carried it are kept for the properties; no column holds them |
| `watch[w]` | the sweep of a replica, between what it derived, what it read open and what it writes |
| `delivery` | the `outbound_delivery` row of this condition at one destination: the row it points at, the attempts, whether one is out, whether it went or failed |
| `carry[p]` | the cycle of a replica: its window, the row at hand, the delivery as it read it, how far the walk of `reopened` has come |
| `Turns`, `Concerns` | the upstream fails or is read again; somebody becomes or stops being an administrator |
| `Derive`, `Reads`, `Writes`, `SweepStops` | `upstreams` with `everybody`; the read and the writes of `ReconcileTelling`; a statement that fails |
| `Begins`, `Overtakes` | `Signal.Once` under its lease; on a replica beside one that outlasted it |
| `Stakes`, `ReadsPrior`, `WalkStep`, `WalkEnds`, `Hands`, `Retakes`, `Again` | `claim`, `reopened` and `retake`, a statement each |
| `Received`, `Refused`, `AnswerLost` | `send`, by what the destination got and what came back |
| `Settles`, `SettleLost`, `CycleStops`, `Overdue` | `settle`; its write lost; a cycle cut short; `inFlight` passing |

*Abstracted.* One condition of the one kind that says when it ends, and one webhook
destination. A time is the place of a transaction among those that read the clock and
go on to write. The lease is `Lease`'s, taken here at what section 4 shows of it: one
cycle at a time, but for a replica slow enough to have lost it, which costs a mishap.
Left out: conditions with nothing to say at their end, which are cleared in one
statement; restating; events, digests, mail and chat; an upstream no longer trusted
and the settings; the share of a cycle's budget each destination gets.

*Properties.* Two sweeps read one row open and both find it over: one says so
(`EndIsSaidOnce`). An **opening** lasts from the first row opened while none was open
to the moment none is. `OneOpeningIsSaidOnce` says the destination hears of an opening
that still lasts once, and once more at most for each mishap, however its rows open
and clear under the delivery that points at one of them: each hand-over and each
retake must find the opening the walk was about. It is of one replica that sweeps and
one that carries; the run also takes two that carry, over the rows of two people, and
what happens over more is in section 11. `WhatIsOpenIsSaid` is the other
half: a condition that came back is said again, or given up on after `Tries`, though
what was said before it had gone, or had been given up on. `NobodySendsBeside` says
the count repeated in the update keeps two cycles apart while the first opening lasts;
that it does not after a retake, and may not where two replicas sweep, is in section
11. It rests on what the comment beside `inFlight` (`outbound.go:512`) takes for
granted: a request has an answer, and the answer is written, within twice the bound on
one request. `Overdue` waits for that; a replica stopped for longer between its request
and its write is not modelled.

*Fairness.* `MCFairness` has weak fairness of the sweep, of the cycle
(goroutines on tickers) and of time. Nothing is assumed of the destination: it may refuse for ever, and is then given up on.

*Bounds.* In `MCLoops` a behaviour follows one thing (`follows`) and the rest stands.
Two sweeps, one administrator and a mishap for `EndIsSaidOnce`. One sweep and one
cycle, two administrators, and three changes or two and a mishap, for what
the walk is for: two rows of which either clears first, and a condition that returns.
One sweep and two cycles, the second beside a first that outlasted its lease. Two
tries are a first and a last. A larger number of changes makes longer walks, and is
out of TLC's reach within the run; the safety of the rows for any number is proved.
It may stop: nothing more happens once what is open was said.

## 9. The runs

| Run | Instance | Shows |
|---|---|---|
| `queue_jobs` | two replicas, one clock ahead; one job and two events, or two jobs and none | every property of the queue, safety and liveness, and its refinement of `WorkQueue` |
| `deadline_rewrites` | two processes, three changes, one event, in a prompt world and in one that is not | rewrites do not overlap, none puts back, no change is forgotten, and changes arrive |
| `deadline_scan` | one scan across a change | finding 1 |
| `ingest_one_reader` | a branch on SQLite, three submissions, failed reads, rollbacks, requeues | what a build ends up showing, that it only goes forward, and that every accepted scan is answered |
| `ingest_two_readers` | a tag on SQLite, two readers, every hazard | graph rows name a scan that is there; identifiers are applied in order; what stands is replaced only by what is newer |
| `ingest_crash_after_apply` | one crash | finding 2 |
| `ingest_commit_order` | two uploads on a server, no hazard | finding 3 |
| `decisions` | one transaction at a time over two occurrences, or two at once over one, on a snapshot each or a moment per statement | who may have agreed; one answer at a place; what is in force is agreed to; what was sent back or ended is not, or only with new words; incident and dismissal |
| `decisions_incident` | an incident and an agreement at once, each on a snapshot | finding 4 |
| `decisions_moved` | two approvers at once, a moment per statement | finding 5 |
| `assignment` | two replicas, two rules, a batch of one, room for one sweep | a rule takes nothing, the first match wins, work is placed |
| `replica_loops` | catch-up: three replicas, two products, one clock ahead, failures and crashes. Notification: two replicas, two administrators, three changes, one mishap | catch-ups a day apart, no product is forgotten; an end is told once, an opening is heard once and nobody sends beside, what stays open is said |

Between them the passing runs take every action of every module. The slowest
(`decisions`, `queue_jobs`) take about two minutes.

## 10. What is proved

Each theorem holds for every value of the constants the assumptions admit: any
number of jobs, workers, processes, slices, submissions and readers, any clocks
within `Spread`, any bounds `Options.Check` lets through. The names of the
assumptions are beside the CONSTANTS of each module. The bounds on counters appear
in the models but the proofs give them no value.

**JobQueue** (`JobQueueProofs`). `TypeCorrect`; then two inductive invariants.
`RowInv` (types, `Returned`, `AttemptsInRange`) bounds the tries. A claim of a
waiting row checks no attempts, so the bound rests on every way back to waiting
leaving one, and that needs to know that a worker settling has an outcome.
`HoldInv` relates a worker to its row: while it holds the row, the attempt it was
handed is the row's and the row is no older than the silence the worker has kept;
once told of a loss or ended, it does not hold it. From the first follow
`AttemptsAreBounded`, `FinishedStaysFinished` and `QueueKeepsItsPromise` (every
step maps to a step of `WorkQueue` or a stutter); from the second
`OnlyTheSilentLoseTheirClaim` and `NothingIsEndedTwice`. `ToldInv`, by induction on top
of both, is about workers that have let go of their rows: a report is true when it is
given (`AnswersAreTrue`, where `HoldInv` says that a success which landed is still done
when the row is read again) and stays so (`WorkersAreToldTheTruth`).

**DeadlineRewrite** (`DeadlineRewriteProofs`). In layers. `TypeCorrect`. `LeaseInv`
adds that no run has more left than `Limit` (`BoundInv`), and that a run in its
turn holds the lease for at least as long as its own bound, or has less than
`Spread` left of it (`TurnInv`), which gives `RewritesDoNotOverlap`. `VersionInv`
says that nobody has read, and nothing was written from, a policy that is not yet
there, and `WalkInv` that what a walk has passed stands as it wrote it and what it
has yet to reach is no newer than what it read, which gives
`TheLastRewriteIsTheNewest`. `OwedInv` strengthens
`SupersededAreOwed` with walks that carry a superseded version, which are owed a
successor before they have written anything: `NothingSupersededIsForgotten`.

**Ingest** (`IngestProofs`). `TypeCorrect` needs to know that a reader's job is
there and names a scan (`Types`). From it `JobsAreTheQueues`: every step maps to a
step of `WorkQueue` or a stutter, which joins what is proved here to what is proved of
`JobQueue`. `RowInv` adds that a row about to be removed is
not one the graph names, which gives `GraphNamesWhatIsThere`, with or without
`Serial`. `OrderInv` says one reader applies at a time and its scan is not below
the one shown: `ScansApplyInOrder`. For `WhatStandsGoesForward` (the only one of this
module that needs `Serial`, and says so) `TakingTurns` adds that one transaction is
open at a time, so nothing has come to stand between the question and the write, and
`SentInv`, that only rows which were written have a build time.

**Ingest with one reader** (`SoleReaderProofs`). What a build ends up showing holds of
one replica that reads, on SQLite, whose process lives, whose recovery is written and
whose commits are answered. `Undisturbed` says so and is the hypothesis of the three
theorems. It is one: reads fail, uploads roll back and jobs are put back as they may,
for any submissions and uploads and any number of attempts. The invariant, `SoleInv`,
is on top of `TakingTurns`:

- the reader at work holds its job and is in the second half of the recovery only
  after its last try (`AtItsJob`, `OutIsHeld`), and no two jobs that may yet be read
  name one scan (`JobsApart`);
- what is shown stands; what the graph names stands and is not ahead of it; and of two
  that stand the later sent is ahead, unless the first has been shown (`ShownLeads`);
- no job that may yet be read names a scan the graph has (`JobsFresh`, `ReaderFresh`),
  so a failed read never marks what is shown: `WhatIsShownStands`. What the reader is
  about to apply is ahead of what is shown (`ReaderKnows`): `ShownGoesForward`;
- the newest that stands is shown, or a job that may be tried names it, or a failed
  scan ahead of it is to be tried again, whose last failure brings it back, or the
  reader is just bringing it back (`OnItsWay`): `NewestComesToBeShown`. That there is
  a newest wherever one stands (`SomeNewest`) is by well-foundedness of the order.

Every part of the hypothesis is needed by TLC's word. With a crash or an answer lost,
and with a recovery that fails or is cut off by a shutdown and a job put back after
it, each of the three properties fails in the one-reader instance, and so it does with
two readers and a takeover. Off SQLite `NewestIsShown` fails (finding 3);
the other two TLC does not break there, and the proof uses `Serial`.

**Decisions** (`DecisionsProofs`). Five inductive invariants, each on the one
before. `ShapeInv` is types, and that decisions are made in order. `KeyInv` says
that a row stands exactly while it holds its live key (`Keyed`), no key is held
twice (`OneKey`) and no occurrence twice in one decision (`OnePlace`): from it
`OneAnswer`. `AgreeInv` says, wherever a transaction reads one moment, that an
agreement is to the newest words of its decision (`Agreements`), that what is in
force rests on one (`Rests`), and that what an open transaction read is still so as
long as its stamp is (`Reads`): from it `InForce`, `SentBack` and `EndedStands`.
`OthersInv` says whose words are whose through rows set aside and re-affirmed
(`TablesSay`, `Knows`): from it `ByAnother`. `SerialInv` says that on SQLite one
transaction is open at a time and what it was told still stands: from it
`KeepsTheRecord`.

**Assignment** (`AssignmentProofs`). `TypesHold` and `SweepsTakeNothing` need no
more than types: the write asks for the holder again. `OrderInv` is what a sweep
knows between its statements, and each part holds but for what is in `fresh`: of the
work a rule it passed names nothing is without a holder (`PassedMet`), because the
page was all there was to read or the batch is full and no later rule reads
(`PageIsAll`), and the page of the rule in turn names nothing a passed rule does
(`PageIsLeft`). That a batch is counted by what it read, not by what it wrote, is
what the step of `Place` uses; counted by writes, a passed rule's work is left and a
later rule takes it. `EarlierRulesWin` follows.

**CatchUp** (`CatchUpProofs`). `DayInv` says that while the catch-up that counts is
no longer ago than a day, the lease row is held, by its holder or in the name of a
process that ended, and what is left of it and what has passed since make up at least
a day. Only the holder frees it, and that sets `since` to long ago. So whoever
finds the lease lapsed, on a clock at most `Spread` ahead of the one it was written
on, finds the day over: `ADayApart`.

**Notify** (`NotifyProofs`). `NotifyInv` says that a row that is open was not said to
have ended and one that is not, at most once (`GoodRow`); that a sweep about to write
names somebody and a time; that the rows a delivery and a cycle go on are in the table
(`GoodCycle`), without which the walk of `reopened` would read a row that is not there;
and that who is about to try again read a delivery with a try left, whose count the
update repeats, so the tries stay within `Tries`. From it `NotifyTypesHold` and
`EndsAreSaidOnce`, for any number of replicas, people, tries, changes and mishaps.

`NobodyElseSends` is of one replica that sweeps (`OneSweeper`), any number that carry,
and any mishaps. Then times are written in their order (`TimesInv`), so a moment at
which a row cleared and none was open stays one whatever is written after
(`EndsStand`), and until there is one the first opening lasts (`FirstLasts`). A walk
that finds nothing across the end of the row it is at has found such a moment
(`WalkInv`), so nothing is retaken before. Without a retake attempts only go up, and
who goes on what it read of the delivery read it of an earlier attempt, or while this
one is out and then leaves it (`FromBefore`): where the update's count matches, nobody
sends (`OneSends`). With two sweepers a row dated before such a moment may be written
after it, and the property does not hold (section 11).

`SaidOnce` is of one replica that sweeps and one that carries (`OneCarrier`), and of
any number of people, tries, changes and mishaps. Rows come to be of one opening, or of
two, as they are written, so the count is kept of all the rows that last: those opened
after every moment at which an opening ended (`Lasting`). A write lets all that last
last, or, where it makes such a moment, none of them (`WrittenLast`); and a row open
when one that lasts was, or after, lasts too (`Together`). `CountInv` says that of
what was received of the rows that last (`Said`) each time but one went with a
mishap, and that the one is there only where the delivery points at a row that lasts
and went, or is about to be written so (`Covered`). For that the cycle must stay
within one opening (`Follows`): the walk goes from a row that lasts to rows that last,
ends at one open together with the row at hand, and retakes only from a row that does
not. The rows of an opening that stands are among those that last (`StandingLasts`),
and a request goes out only where the delivery is not sent, so what was received
before it is within the mishaps.

Only model-checked: liveness (`EveryJobEnds`, `ChangesArrive`, `TakenIsAnswered`,
`WorkIsPlaced`, `EveryProductIsSwept`, `WhatIsOpenIsSaid`), which the prover does not
reach. Every safety and action property of a passing run has its theorem, some of a
smaller world than the run's, as said with each.

## 11. What the runs found

Each is a run whose property TLC finds violated; the counterexample is the run's
output.

1. `deadline_scan`. A scan that reads the policy, is overtaken by a change and the
   whole of its rewrite, and then commits leaves deadlines of the superseded policy
   with no rewrite owed and nothing logged, which `settings.go:656` says the lease
   and the late read prevent. It can happen on the three servers, where the
   rewrite does not see and does not wait for the scan's uncommitted findings.
2. `ingest_crash_after_apply`. A process that dies between letting a branch scan's
   documents go and ending its job leaves a retry that finds no document, fails,
   and marks the applied scan failed.
3. `ingest_commit_order`. Of two uploads at once on a server, the newer-built one may
   take the lower identifier and commit later; it is then set aside for good.
4. `decisions_incident`. An incident recorded and a dismissal agreed to at once: each
   looks for the other, neither writes a row the other read, and both commit. The
   product reads as exploited and as dismissed, and nothing takes it back.
5. `decisions_moved`. On PostgreSQL an approver reads a decision's rows, another
   approver sets one aside and commits, and the first then reads the new stamp. Its
   agreement is matched on the rows' identifiers and the first decision's revision,
   so the row set aside comes into force in a decision nobody agreed to.

More were met and have no run of their own.

- `handback.go:35` says a team holds work only while a member reads it. A rule reads
  its page and who may hold it, the team's last reader is then taken off and what the
  team holds handed back, and the write that follows places the page with the team
  all the same: it asks again that nobody holds the work, and not that anybody reads
  it. `HeldIsRead` of `Assignment` fails in the instance of `MCAssignment`. The work
  stays there until that team is narrowed again.
- `sweep.go:69` says a replica that stops is replaced by another within one tick, and
  `sweep.go:107` that a failure other than a full queue hands the lease back. A
  replica that dies after it took the lease, whose take was committed and reported
  failed, or whose release fails, leaves the lease for the day: nothing is queued
  until it lapses. `EveryProductIsSwept` shows that it then is.
- A full queue ends a catch-up, which begins again at the first product the day
  after: where more products are ruled than the queue has room for (a thousand by
  default), and it drains no faster than a pass fills it, those at the end are not
  reached by it.
- A rule written while a scan's transaction is open, which asked before and commits
  after the rule's own sweep, leaves that scan's work to the daily catch-up.
  `WorkIsPlaced` counts on it.

- `outbound.go:99` says a channel wants a condition once. It may hear of an opening that
  has ended again: a cycle sends the row of one administrator, the rows of all of them
  clear, and the row of another, still in the window the cycle read at its start,
  takes the delivery of what it finds over for a new opening. `EndedIsSaidOnce` of
  `Notify` fails in the instance of `MCLoops`, with nothing gone wrong.
- `outbound.go:314` says two replicas reaching a delivery together act once. They may
  not when it is taken again: who comes second keeps the count it read, of attempts at
  what was said before, and the new count, on its way up from none, passes it, so both
  send. `ReachedTogetherActOnce` fails with three changes, two carriers and a replica
  that outlasted its lease. Two replicas that sweep bring it about sooner: one reads
  the clock to open a row and is slow, the other clears the rows there are, a cycle
  finds the opening over, and the slow row, dated before the end, is written before
  that cycle retakes. By its dates there was one opening, and two requests of it are
  out: `NobodySendsBeside` fails with three people, two changes and one mishap, in 24
  steps. The same write has one opening said twice with nothing gone wrong and one
  replica that carries: `OneOpeningIsSaidOnce` fails with two that sweep, two people,
  three changes and no mishap.
- A replica that outlasted its lease may have one opening said again for each further
  row. The delivery was taken for a row of the opening before, which has ended, and
  the slow replica's window holds more rows of that one. Each time the next replica is
  about to retake it for a row of the opening that lasts, the slow one retakes it first
  for another old row, and is refused; the next finds it taken, judges what it read
  before, and repeats a count that equals the new one. It sends for its own row while
  the delivery stands for the old, and with the row after that it goes the same way.
  `OneOpeningIsSaidOnce` fails with four people, three changes and that one mishap, in
  80 steps: the opening is heard of three times.
- The comment beside `Settle` says the recovery runs "not on a cancellation and not
  on a takeover" (`queue.go:891`). It does run for a job another worker has taken,
  where the first worker's renewals failed and its work fails before its next beat
  says so.
- A retry makes a failed scan accepted again beside another inventory of the same
  build time that was accepted in the meantime: `Made` marks what it applied
  accepted, and what stands beside it was refused only at the door.
- An operator who puts back a job that a shutdown cut off in its last try, or whose
  recovery failed, can have a shown scan marked failed. Its scan was never marked;
  another scan's recovery has meanwhile brought it back under a new job, which applied
  it and let its documents go; the old job then finds none. `AppliedStands` and
  `ForwardOnly` fail with one reader, one attempt, two events and
  `Hazards = {"read fails", "requeue", "shutdown"}`, or `"recovery fails"` for the last.
- `reinstate` counts a running job as one that will read the scan, though its reader
  may have decided already that the scan is superseded and be about to end it. If
  the newer scan's last read fails at that moment nobody reads the older one again.
  `NewestIsShown` fails with two readers, one attempt, `Hazards = {"read fails"}`
  and `Serial = TRUE`.
- A failed attempt re-sent while its retry is being parsed is removed, and if the
  re-sent one fails too and the retry's inventory changes nothing, the build's
  `last_scan_id`, which has no foreign key, names a row that is gone.
  `shown = None \/ scan[shown].status # "removed"` fails with two readers, two
  attempts and `Hazards = {"read fails"}`.
- A last attempt that ends in a burial or a shutdown runs no recovery, so what its
  scan overtook is not brought back until an operator puts the job back. The code
  describes it so.
- Off SQLite a re-affirmation carries an agreement that was taken back after it was
  read: the earlier decision is read and not restamped.
- On PostgreSQL a decision sent back between an approver's two reads is agreed to
  all the same, and a revision by row resets rows moved to another decision
  meanwhile: both match on the row, not on the decision it is in. This is why
  `SentBackIsNotAgreed` and `EndedStandsOnlyRevised` except that engine.
- `intoReturned` names the proposer for words whoever revised them last wrote. That
  person can not agree to them where they were, and `AgreedByAnother` shows they
  can not agree to them by way of the move either, in the instances and the proof;
  what the record shows a reader is the wrong name.

## 12. What is not modelled, and the plan

Next, in this order, each with its own module, run and first theorem:

1. `Passes`: the upstream, currency, supplier, patch-branch and publication passes,
   one module over `Lease`, which renew as they go. To state: a pass that lost its
   lease stops before its next write; a late handback frees nobody else's.
2. `ScanSchedule`: the daily round, runs, receipts and the match applied, with its
   jobs an INSTANCE of `WorkQueue`. An abstract specification of a receipt's life
   for it to implement. To state: no receipt answers for a run that was superseded;
   every owed image is scanned or said not to be.
3. `Findings`: a finding's closure by a person and by a scan, and what a scan reopens.
4. The rest of `internal/notify`, `Attach`, `Trail`, `Catalog`, `Advisory`, `Incident`, `Series`, `Flaw`: each
   a few conditional writes by several people at once, with one property worth the
   run: a digest posted once; the quota; the value really replaced; one name; ordinals without
   gap or repeat; named again; one run; one flaw.
5. The migration lock.

Proofs to come: `AppliedStands` and `ForwardOnly` off SQLite; `OneRewriteAtATime` for
leases renewed as they run.

Left out for good: parsing, rendering, version comparison, ratings and the arithmetic
of dates (pure functions over text and data, which their tests reach); the exchange
with an outside identity provider; the web interface; outward fetching; and
everything that only reads rows to answer a request.
