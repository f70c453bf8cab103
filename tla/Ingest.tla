------------------------------- MODULE Ingest -------------------------------
(***************************************************************************)
(* From an upload to what a build shows: the arrival decision and the      *)
(* upload's transaction (internal/ingest/accept.go and the scans handler), *)
(* and the reader that applies accepted scans in the background            *)
(* (internal/ingest/read.go), for one build.                               *)
(*                                                                         *)
(* An upload's transaction is two steps, one that decides on what is       *)
(* committed and writes its row, one that commits.  The reader's is two    *)
(* likewise, one that takes the build's row and asks what stands, one that *)
(* writes and commits.  On the servers others' transactions come between;  *)
(* on SQLite (Serial) a transaction has the database to itself.            *)
(* The jobs are the queue's, taken at what WorkQueue promises of them;     *)
(* who holds a job is kept here, because an ending by anybody else is      *)
(* refused.                                                                *)
(*                                                                         *)
(* What the graph does with an inventory is data.  An upload refused at    *)
(* the door (dated ahead of the clock, already held, not newer) changes    *)
(* nothing and is no step.                                                 *)
(***************************************************************************)
EXTENDS Naturals, FiniteSets

CONSTANTS
    Submissions,   \* what producers send: an inventory and its claims, as one
    BuiltAt,       \* when the producer says each was built
    Inventory,     \* the inventory each carries
    Senders,       \* uploads in flight at once
    Readers,       \* reader loops, one per replica
    Moves,         \* the build is a branch, whose documents are not kept
    Serial,        \* one transaction at a time
    MaxAttempts,   \* Options.MaxAttempts of the queue
    MaxScans,      \* bound: scan identifiers
    MaxJobs,       \* bound: parse jobs
    Hazards,       \* what may go wrong in this instance
    MaxEvents      \* bound: how often it goes wrong

ASSUME SubmissionsAssumption ==
    BuiltAt \in [Submissions -> Nat] /\ Moves \in BOOLEAN /\ Serial \in BOOLEAN
ASSUME BoundsAssumption ==
    /\ MaxAttempts \in Nat \ {0}
    /\ MaxScans \in Nat
    /\ MaxJobs \in Nat
    /\ MaxEvents \in Nat
ASSUME HazardsAssumption ==
    Hazards \subseteq {"read fails", "recovery fails", "crash", "shutdown", "takeover",
                       "answer lost", "rolled back", "requeue"}

Nobody == "nobody"
Gone == "gone"
ASSUME NamesAssumption ==
    {Nobody, Gone} \cap Readers = {} /\ Senders \cap (Readers \cup {Nobody}) = {}

ScanIds == 1 .. MaxScans
JobIds == 1 .. MaxJobs
None == 0
Nothing == "nothing"

VARIABLES
    scan,     \* the scan table, with what is left of each scan's documents
    shown,    \* build.last_scan_id
    status,   \* the parse jobs: what WorkQueue says of each,
    handed,   \*   how often it was handed out,
    names,    \*   the scan it names,
    by,       \*   and who holds it
    sender,   \* what each upload's transaction is about to commit
    reader,   \* where each reader is
    events    \* how many hazards have happened (bounded)

jobs == <<status, handed, names, by>>
vars == <<scan, shown, jobs, sender, reader, events>>

Queue == INSTANCE WorkQueue WITH Jobs <- JobIds

----------------------------------------------------------------------------
(* The state. *)

\* "arriving" is a row not committed yet, "removed" one that is no longer there.
Scan == [status : {"unused", "arriving", "accepted", "failed", "removed"},
         of : Submissions \cup {Nothing},
         held : BOOLEAN,     \* its documents have not been let go
         named : BOOLEAN]    \* the graph names it

Sender == [writes : ScanIds \cup {None},      \* the row it takes
           replaces : ScanIds \cup {None}]    \* the failed row it removes

Reader == [pc : {"idle", "looking", "parsing", "applying", "letting go",
                 "recovering", "reinstating", "adding", "ending"},
           job : JobIds \cup {None},
           last : BOOLEAN,                    \* no attempt is left after this one
           failed : BOOLEAN,                  \* the read ended in an error
           again : ScanIds \cup {None}]       \* the scan to read again

NoUpload == [writes |-> None, replaces |-> None]
Resting == [pc |-> "idle", job |-> None, last |-> FALSE, failed |-> FALSE, again |-> None]

\* Every table and every worker holds what its columns and variables can, and a
\* job that is there names a scan.
TypeOK ==
    /\ scan \in [ScanIds -> Scan]
    /\ shown \in ScanIds \cup {None}
    /\ status \in [JobIds -> {"absent", "waiting", "out", "done", "failed"}]
    /\ handed \in [JobIds -> 0 .. MaxAttempts]
    /\ names \in [JobIds -> ScanIds \cup {None}]
    /\ by \in [JobIds -> Readers \cup {Nobody, Gone}]
    /\ sender \in [Senders -> Sender]
    /\ reader \in [Readers -> Reader]
    /\ events \in 0 .. MaxEvents
    /\ \A j \in JobIds : status[j] # "absent" => names[j] \in ScanIds
    /\ \A r \in Readers : reader[r].pc # "idle" => reader[r].job \in JobIds

Init ==
    /\ scan = [i \in ScanIds |->
                  [status |-> "unused", of |-> Nothing, held |-> FALSE, named |-> FALSE]]
    /\ shown = None
    /\ Queue!Init
    /\ names = [j \in JobIds |-> None]
    /\ by = [j \in JobIds |-> Nobody]
    /\ sender = [u \in Senders |-> NoUpload]
    /\ reader = [r \in Readers |-> Resting]
    /\ events = 0

----------------------------------------------------------------------------
(* What the reads answer. *)

Built(i) == BuiltAt[scan[i].of]

Standing == {i \in ScanIds : scan[i].status = "accepted"}

\* The order Newest reads: the later build time, then the later arrival.
Ahead(i, j) == Built(i) > Built(j) \/ (Built(i) = Built(j) /\ i > j)

Newest(i) == i \in Standing /\ \A j \in Standing \ {i} : Ahead(i, j)

\* passedBy: Newest is ahead of i just where anything that stands is.
PassedBy(i) == \E n \in Standing : Ahead(n, i)

\* byContent: one row per set of bytes.
Seen(s) == {i \in ScanIds : scan[i].status \in {"accepted", "failed"} /\ scan[i].of = s}

\* (Definitions named *_mutant are planted faults, each the definition that
\* follows it with one mistake.)
Named_mutant(i) == shown = i

\* named: a node, an edge, a claim or the build points at it.
Named(i) == scan[i].named \/ shown = i

\* Whose transaction is open, and whether a write of p's may come between.
Open == {u \in Senders : sender[u] # NoUpload} \cup {r \in Readers : reader[r].pc = "applying"}
Alone(p) == Serial => Open \subseteq {p}

MayHappen(hazard) == hazard \in Hazards /\ events < MaxEvents /\ events' = events + 1

----------------------------------------------------------------------------
(* The upload. *)

SameInventory(s, i) == Built(i) = BuiltAt[s] /\ Inventory[scan[i].of] = Inventory[s]

\* Decide: not held already, and newer than what stands or that picture re-argued.
Taken(s) ==
    /\ \A i \in Seen(s) : scan[i].status # "accepted"
    /\ \A n \in ScanIds : Newest(n) => BuiltAt[s] > Built(n) \/ SameInventory(s, n)

\* The identifier the table gives next.
NextScan(i) == /\ scan[i].status = "unused"
               /\ \A j \in ScanIds : scan[j].status = "unused" => i <= j

\* The unique index, or the row's lock, makes a second upload of the same bytes
\* wait for the first and then decide again.
Sending(s) == \E u \in Senders : sender[u].writes # None /\ scan[sender[u].writes].of = s

\* Record on a submission never taken, or whose failed attempt the graph does
\* not name: a row of its own.
UploadNew(u, s) ==
    /\ sender[u] = NoUpload /\ Alone(u)
    /\ Taken(s) /\ ~Sending(s)
    /\ \A i \in Seen(s) : ~Named(i)
    /\ \E new \in ScanIds, old \in ScanIds \cup {None} :
          /\ NextScan(new)
          /\ IF Seen(s) = {} THEN old = None ELSE old \in Seen(s)
          /\ scan' = [scan EXCEPT ![new] = [status |-> "arriving", of |-> s,
                                            held |-> TRUE, named |-> FALSE]]
          /\ sender' = [sender EXCEPT ![u] = [writes |-> new, replaces |-> old]]
    /\ UNCHANGED <<shown, jobs, reader, events>>

\* retake of a failed scan the graph names: it keeps its identifier.
UploadAgain(u, i) ==
    /\ sender[u] = NoUpload /\ Alone(u)
    /\ scan[i].status = "failed" /\ Named(i)
    /\ Taken(scan[i].of) /\ ~Sending(scan[i].of)
    /\ sender' = [sender EXCEPT ![u] = [writes |-> i, replaces |-> None]]
    /\ UNCHANGED <<scan, shown, jobs, reader, events>>

\* Somebody's uncommitted write holds the row.
Locked(i) == \E u \in Senders : i \in {sender[u].writes, sender[u].replaces}

AddParse_mutant(i) ==
    \E j \in JobIds :
        /\ \A k \in JobIds : status[k] = "absent" => j <= k
        /\ Queue!Submit(j)
        /\ names' = names
        /\ by' = by

\* AddTx or Add of a parse job.
AddParse(i) ==
    \E j \in JobIds :
        /\ \A k \in JobIds : status[k] = "absent" => j <= k
        /\ Queue!Submit(j)
        /\ names' = [names EXCEPT ![j] = i]
        /\ by' = by

\* The row, its documents and its job commit together.
UploadCommits(u) ==
    LET i == sender[u].writes
        old == sender[u].replaces
    IN /\ i # None
       /\ scan' = [k \in ScanIds |->
                     IF k = i THEN [scan[k] EXCEPT !.status = "accepted", !.held = TRUE]
                     ELSE IF k = old THEN [scan[k] EXCEPT !.status = "removed", !.held = FALSE]
                     ELSE scan[k]]
       /\ AddParse(i)
       /\ sender' = [sender EXCEPT ![u] = NoUpload]
       /\ UNCHANGED <<shown, reader, events>>

\* The backlog is full, or the commit is refused.  The identifier is spent.
UploadRollsBack(u) ==
    /\ sender[u] # NoUpload
    /\ MayHappen("rolled back")
    /\ scan' = [i \in ScanIds |->
                  IF i = sender[u].writes /\ scan[i].status = "arriving"
                  THEN [scan[i] EXCEPT !.status = "removed", !.held = FALSE]
                  ELSE scan[i]]
    /\ sender' = [sender EXCEPT ![u] = NoUpload]
    /\ UNCHANGED <<shown, jobs, reader>>

----------------------------------------------------------------------------
(* The reader. *)

Of(r) == names[reader[r].job]
Holds(r) == status[reader[r].job] = "out" /\ by[reader[r].job] = r

Goes(r, pc) == reader' = [reader EXCEPT ![r].pc = pc]
Reads(r, failed) == reader' = [reader EXCEPT ![r].pc = "ending", ![r].failed = failed]

\* A job nobody has, or whose holder is silent: ended, or (a takeover) alive.
Claim(r, j) ==
    /\ reader[r].pc = "idle" /\ Alone(r)
    /\ Queue!HandOut(j)
    /\ \/ status[j] = "waiting" /\ UNCHANGED events
       \/ status[j] = "out" /\ by[j] = Gone /\ UNCHANGED events
       \/ status[j] = "out" /\ by[j] \in Readers /\ MayHappen("takeover")
    /\ by' = [by EXCEPT ![j] = r]
    /\ reader' = [reader EXCEPT ![r] = [Resting EXCEPT !.pc = "looking", !.job = j,
                                                       !.last = handed'[j] = MaxAttempts]]
    /\ UNCHANGED <<scan, shown, names, sender>>

\* A read that ended in an error goes to Settle, which runs the recovery unless
\* the job is known to have gone to another worker.
Fails(r) ==
    \/ reader' = [reader EXCEPT ![r].pc = "recovering", ![r].failed = TRUE]
    \/ ~Holds(r) /\ Reads(r, TRUE)

\* The reads before the parse: the scan, its documents, what stands.
Look(r) ==
    /\ reader[r].pc = "looking"
    /\ LET i == Of(r) IN
       CASE scan[i].status = "removed" -> Reads(r, FALSE)
         [] scan[i].status # "removed" /\ ~scan[i].held -> Fails(r)
         [] scan[i].status # "removed" /\ scan[i].held /\ PassedBy(i) -> Reads(r, FALSE)
         [] OTHER -> Goes(r, "parsing")
    /\ UNCHANGED <<scan, shown, jobs, sender, events>>

\* The document cannot be read, or a statement fails and nothing is written.
ReadFails(r) ==
    /\ reader[r].pc \in {"looking", "parsing", "applying"}
    /\ "read fails" \in Hazards
    /\ Fails(r)
    /\ UNCHANGED <<scan, shown, jobs, sender, events>>

Overtaken_mutant(i) == PassedBy(i)

Overtaken_mutant2(i) == FALSE

\* What the transaction asks again once it has the build's row.
Overtaken(i) == PassedBy(i) \/ shown > i

TakeBuild(r) ==
    /\ reader[r].pc = "parsing" /\ Alone(r)
    /\ \A q \in Readers : reader[q].pc # "applying"
    /\ IF Overtaken(Of(r)) THEN Reads(r, FALSE) ELSE Goes(r, "applying")
    /\ UNCHANGED <<scan, shown, jobs, sender, events>>

\* ApplyWithin, the claims and Made.  A snapshot that opens or closes anything
\* names its scan, which has to be there; one that changes nothing does not,
\* and a build's first opens its root.
Applied(i) ==
    /\ ~Locked(i)
    /\ shown' = i
    /\ \E changes \in BOOLEAN :
          /\ changes \/ shown # None
          /\ changes => scan[i].status # "removed"
          /\ scan' = [scan EXCEPT ![i].status = IF @ = "removed" THEN @ ELSE "accepted",
                                  ![i].named = @ \/ changes]

Apply(r) ==
    /\ reader[r].pc = "applying"
    /\ Applied(Of(r))
    /\ IF Moves THEN Goes(r, "letting go") ELSE Reads(r, FALSE)
    /\ UNCHANGED <<jobs, sender, events>>

\* The commit lands, its answer does not, and the read counts as failed.
ApplyAnswerLost(r) ==
    /\ reader[r].pc = "applying"
    /\ Applied(Of(r))
    /\ MayHappen("answer lost")
    /\ Fails(r)
    /\ UNCHANGED <<jobs, sender>>

\* The scan was removed since, and what the snapshot opens has nothing to name.
ApplyRefused(r) ==
    /\ reader[r].pc = "applying"
    /\ scan[Of(r)].status = "removed"
    /\ Fails(r)
    /\ UNCHANGED <<scan, shown, jobs, sender, events>>

LetGo(r) ==
    /\ reader[r].pc = "letting go" /\ Alone(r)
    /\ ~Locked(Of(r))
    /\ scan' = [scan EXCEPT ![Of(r)].held = FALSE]
    /\ Reads(r, FALSE)
    /\ UNCHANGED <<shown, jobs, sender, events>>

KeepsThem_mutant(r) ==
    /\ reader[r].pc = "letting go"
    /\ Fails(r)
    /\ UNCHANGED <<scan, shown, jobs, sender, events>>

\* A failure to let go is logged, and the read is reported as it was.
KeepsThem(r) ==
    /\ reader[r].pc = "letting go"
    /\ Reads(r, FALSE)
    /\ UNCHANGED <<scan, shown, jobs, sender, events>>

----------------------------------------------------------------------------
(* How a read ends: the recovery, then the job. *)

MarkFailed_mutant(r) ==
    /\ reader[r].pc = "recovering" /\ Alone(r)
    /\ ~Locked(Of(r))
    /\ scan' = [scan EXCEPT ![Of(r)].status = IF @ = "removed" THEN @ ELSE "failed"]
    /\ Goes(r, "ending")
    /\ UNCHANGED <<shown, jobs, sender, events>>

\* MarkFailed, on whatever the job names: a row that is gone is left gone.
MarkFailed(r) ==
    /\ reader[r].pc = "recovering" /\ Alone(r)
    /\ ~Locked(Of(r))
    /\ scan' = [scan EXCEPT ![Of(r)].status = IF @ = "removed" THEN @ ELSE "failed"]
    /\ Goes(r, IF reader[r].last THEN "reinstating" ELSE "ending")
    /\ UNCHANGED <<shown, jobs, sender, events>>

BeingRead_mutant(i) == \E j \in JobIds : names[j] = i /\ status[j] # "failed"

BeingRead(i) == \E j \in JobIds : names[j] = i /\ status[j] \in {"waiting", "out"}

\* reinstate, up to the Add: what stands, whether it is shown, whether it is on
\* its way.
Reinstate(r) ==
    /\ reader[r].pc = "reinstating"
    /\ LET missing == {n \in ScanIds : Newest(n) /\ shown # n /\ ~BeingRead(n)}
       IN IF scan[Of(r)].status = "removed" \/ missing = {}
          THEN Goes(r, "ending")
          ELSE \E n \in missing :
                  reader' = [reader EXCEPT ![r].pc = "adding", ![r].again = n]
    /\ UNCHANGED <<scan, shown, jobs, sender, events>>

ReinstateAdds(r) ==
    /\ reader[r].pc = "adding" /\ Alone(r)
    /\ AddParse(reader[r].again)
    /\ Goes(r, "ending")
    /\ UNCHANGED <<scan, shown, sender, events>>

\* Marking or reinstating fails: it is logged, and what was left of the recovery
\* is not run.
RecoveryFails(r) ==
    /\ reader[r].pc \in {"recovering", "reinstating", "adding"}
    /\ MayHappen("recovery fails")
    /\ Goes(r, "ending")
    /\ UNCHANGED <<scan, shown, jobs, sender>>

\* Succeed or Fail, which write nothing where the job is no longer this worker's.
End(r) ==
    LET j == reader[r].job
    IN /\ reader[r].pc = "ending" /\ Alone(r)
       /\ \/ /\ Holds(r)
             /\ \/ ~reader[r].failed /\ Queue!Finish(j)
                \/ reader[r].failed /\ (Queue!Return(j) \/ Queue!GiveUp({j}))
             /\ by' = [by EXCEPT ![j] = Nobody]
          \/ /\ ~Holds(r)
             /\ UNCHANGED <<status, handed, by>>
       /\ reader' = [reader EXCEPT ![r] = Resting]
       /\ UNCHANGED <<scan, shown, names, sender, events>>

----------------------------------------------------------------------------
(* What befalls a reader, and the queue's own upkeep. *)

LetsGoOf(r) == by' = [j \in JobIds |-> IF by[j] = r THEN Gone ELSE by[j]]

\* The process dies and its claim goes silent.
Crash(r) ==
    /\ reader[r].pc # "idle"
    /\ MayHappen("crash")
    /\ reader' = [reader EXCEPT ![r] = Resting]
    /\ LetsGoOf(r)
    /\ UNCHANGED <<scan, shown, status, handed, names, sender>>

\* A shutdown cancels the read: Settle skips the recovery, and the attempt counts.
Shutdown(r) ==
    /\ reader[r].pc \in {"looking", "parsing", "applying"}
    /\ MayHappen("shutdown")
    /\ Reads(r, TRUE)
    /\ UNCHANGED <<scan, shown, jobs, sender>>

\* Bury: no attempt is left and its holder is silent.
Bury(j) ==
    /\ Queue!GiveUp({j})
    /\ by[j] = Gone /\ Alone(Nobody)
    /\ by' = [by EXCEPT ![j] = Nobody]
    /\ UNCHANGED <<scan, shown, names, sender, reader, events>>

Requeue(j) ==
    /\ Queue!Resubmit(j) /\ Alone(Nobody)
    /\ MayHappen("requeue")
    /\ UNCHANGED <<scan, shown, names, by, sender, reader>>

Upload(u) ==
    \/ \E s \in Submissions : UploadNew(u, s)
    \/ \E i \in ScanIds : UploadAgain(u, i)
    \/ UploadCommits(u)
    \/ UploadRollsBack(u)

Reading(r) ==
    \/ \E j \in JobIds : Claim(r, j)
    \/ Look(r) \/ ReadFails(r) \/ TakeBuild(r)
    \/ Apply(r) \/ ApplyAnswerLost(r) \/ ApplyRefused(r) \/ LetGo(r) \/ KeepsThem(r)
    \/ MarkFailed(r) \/ Reinstate(r) \/ ReinstateAdds(r) \/ RecoveryFails(r) \/ End(r)

Next ==
    \/ \E u \in Senders : Upload(u)
    \/ \E r \in Readers : Reading(r) \/ Crash(r) \/ Shutdown(r)
    \/ \E j \in JobIds : Bury(j) \/ Requeue(j)

Spec == Init /\ [][Next]_vars

\* A replica goes on polling, an upload's statements go on, and every replica
\* buries what is spent.  Nobody has to send anything, or put a job back.
Fairness ==
    /\ \A r \in Readers : WF_vars(Reading(r))
    /\ \A u \in Senders : WF_vars(UploadCommits(u))
    /\ \A j \in JobIds : WF_vars(Bury(j))

FairSpec == Spec /\ Fairness

----------------------------------------------------------------------------
(* What is meant to hold. *)

\* The rows of the graph only ever point at a scan that is there, whatever is
\* re-sent while it is read: a failed attempt that is removed is not one that
\* was applied (retake, named).
RowsNameAScan == \A i \in ScanIds : scan[i].named => scan[i].status \in {"accepted", "failed"}

\* The graph reads scan identifiers as time, so they are applied in order
\* whatever is retried, re-sent, taken over or put back (read, retake).
IdentifiersInOrder == [][shown' # shown => shown' > shown]_vars

\* A picture that still stands is replaced only by one built later, or by the
\* same build re-argued later (Newest, passedBy).
StandingIsNotReplaced ==
    [][shown' # shown /\ shown # None /\ scan[shown].status = "accepted"
          => Ahead(shown', shown)]_vars

\* What a build shows goes forward in build time and in identifiers alike, even
\* where what it showed has been marked failed since (REQ-06).
ForwardOnly ==
    [][shown' # shown => shown = None \/ (shown' > shown /\ Ahead(shown', shown))]_vars

\* A scan the build shows is not marked failed: once the apply commits, nothing
\* that goes wrong is the read's (read, after its transaction; Made).
AppliedStands ==
    [][shown # None /\ scan[shown].status = "accepted"
          => scan'[shown].status = "accepted"]_vars

Quiet ==
    /\ \A u \in Senders : sender[u] = NoUpload
    /\ \A r \in Readers : reader[r].pc = "idle"
    /\ \A j \in JobIds : status[j] \notin {"waiting", "out"}

\* When nothing is on its way, the build shows the newest scan that stands, so a
\* scan set aside for one that then failed was read again (reinstate).
NewestIsShown == Quiet => \A i \in ScanIds : Newest(i) => shown = i

\* Every accepted scan comes to be shown, or is found unreadable, or is passed by
\* a newer one that stands, and again each time that one falls (reinstate).
Answered(i) == shown = i \/ scan[i].status # "accepted" \/ PassedBy(i)
TakenIsAnswered == \A i \in ScanIds : scan[i].status = "accepted" ~> Answered(i)
=============================================================================
