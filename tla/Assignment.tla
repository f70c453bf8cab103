----------------------------- MODULE Assignment -----------------------------
(***************************************************************************)
(* How work nobody holds comes to a team (internal/finding: sweep.go,      *)
(* assignment_rule.go, handback.go), for one product: the rules, tried in  *)
(* order, the sweeps that apply them, and the people who assign by hand    *)
(* beside them.  The daily catch-up, which sweeps what nothing else asked  *)
(* for, is taken at what CatchUp shows of it: it comes again and again.    *)
(*                                                                         *)
(* A sweep is a queued job.  Any replica takes it, two may sweep one       *)
(* product at once, and each of a sweep's statements is on its own: what   *)
(* people do comes between the page a rule reads and the write that places *)
(* it.  The jobs of one product are alike but for the tries they have had, *)
(* so they are counted.  A claim nobody renews waits for whoever takes it  *)
(* next, from the moment it is let go; one in use may be taken over.       *)
(*                                                                         *)
(* What a rule names is data (Matches).  Work is at one visibility, and a  *)
(* team retired is one nobody on reads.  Vulnerability reports, which have *)
(* rules of their own, are left out.                                       *)
(***************************************************************************)
EXTENDS Naturals, FiniteSets

CONSTANTS
    Procs,        \* the sweep loops, one per replica
    Findings,
    Matches,      \* the findings each rule names, by its place in the order
    Team,         \* the team each rule hands them to
    People,
    Batch,        \* assignment.batch
    MaxBacklog,   \* queue.backlog
    MaxAttempts,  \* Options.MaxAttempts of the queue
    MaxEvents     \* bound: what people and scans do, and what goes wrong

Rules == DOMAIN Matches
Teams == {Team[r] : r \in Rules}
Parties == People \cup Teams

\* The holder of work nobody holds.
NoOne == "no one"

ASSUME RulesAssumption ==
    /\ Rules \subseteq Nat \ {0}
    /\ Matches \in [Rules -> SUBSET Findings]
    /\ DOMAIN Team = Rules
    /\ NoOne \notin Parties
    /\ IsFiniteSet(Findings)
ASSUME BoundsAssumption ==
    /\ Batch \in Nat \ {0}
    /\ MaxBacklog \in Nat /\ MaxAttempts \in Nat \ {0}
    /\ MaxEvents \in Nat

VARIABLES
    finding,    \* where each finding is
    holder,     \* assigned_to
    rule,       \* the assignment_rule table
    reading,    \* who reads the product; of a team, whether a member does
    arriving,   \* the scan whose transaction is open, and what it asked
    waiting,    \* the sweeps queued, by the tries each has had
    sw,         \* the sweep loop of each process
    fresh,      \* what came to be without a holder since each sweep began
    events      \* how much happened that nothing schedules (bounded)

work == <<finding, holder, rule, reading, arriving>>
vars == <<work, waiting, sw, fresh, events>>

----------------------------------------------------------------------------
(* The state. *)

NoScan == [of |-> {}, ruled |-> FALSE]

Sweep == [pc : {"idle", "rules", "page", "place", "settle"},
          tries : 0 .. MaxAttempts,  \* of the job it holds; 0 when it was taken over
          todo : SUBSET Rules,       \* the rules yet to be tried
          passed : SUBSET Rules,     \* those whose work was read and written
          seen : Nat,                \* how much the batch has read
          ids : SUBSET Findings,     \* the page
          failed : BOOLEAN]

Resting == [pc |-> "idle", tries |-> 0, todo |-> {}, passed |-> {}, seen |-> 0,
            ids |-> {}, failed |-> FALSE]

\* Every table and every loop holds what its columns and variables can.
TypeOK ==
    /\ finding \in [Findings -> {"absent", "open", "closed"}]
    /\ holder \in [Findings -> Parties \cup {NoOne}]
    /\ rule \in [Rules -> {"unwritten", "in force", "retired"}]
    /\ reading \subseteq Parties
    /\ arriving \in [of : SUBSET Findings, ruled : BOOLEAN]
    /\ waiting \in [0 .. MaxAttempts - 1 -> Nat]
    /\ sw \in [Procs -> Sweep]
    /\ fresh \in [Procs -> SUBSET Findings]
    /\ events \in 0 .. MaxEvents

\* Any findings and rules may be there before this deployment swept at all.
Init ==
    /\ finding \in [Findings -> {"absent", "open"}]
    /\ holder = [f \in Findings |-> NoOne]
    /\ rule \in [Rules -> {"unwritten", "in force"}]
    /\ \A r, q \in Rules : q < r /\ rule[r] = "in force" => rule[q] = "in force"
    /\ reading \in SUBSET Parties
    /\ arriving = NoScan
    /\ waiting = [t \in 0 .. MaxAttempts - 1 |-> 0]
    /\ sw = [p \in Procs |-> Resting]
    /\ fresh = [p \in Procs |-> {}]
    /\ events = 0

----------------------------------------------------------------------------
(* What the reads answer. *)

InForce == {r \in Rules : rule[r] = "in force"}

\* The rule whose turn it is: the first of those yet to be tried.
InTurn(p) == {r \in sw[p].todo : \A q \in sw[p].todo : r <= q}

Unheld == {f \in Findings : finding[f] = "open" /\ holder[f] = NoOne}

Full == Cardinality(UNION {{t} \X (1 .. waiting[t]) : t \in DOMAIN waiting}) >= MaxBacklog

\* A job with t tries behind it goes back to wait, if any is left.
Back(t) == IF t \in 1 .. MaxAttempts - 1 THEN [waiting EXCEPT ![t] = @ + 1] ELSE waiting

\* AddTx of a sweep, where the queue is not full.
Queued == waiting' = [waiting EXCEPT ![0] = @ + 1]

\* fs come to be without a holder.
Freed(fs) == fresh' = [p \in Procs |-> IF sw[p].pc = "idle" THEN {} ELSE fresh[p] \cup fs]

Happens == events < MaxEvents /\ events' = events + 1

----------------------------------------------------------------------------
(* What people and scans do. *)

\* A scan's transaction opens a finding, and asks whether a rule is in force.
ScanOpens(f) ==
    /\ arriving = NoScan
    /\ finding[f] = "absent"
    /\ arriving' = [of |-> {f}, ruled |-> InForce # {}]
    /\ Happens
    /\ UNCHANGED <<sw, finding, holder, rule, reading, waiting, fresh>>

\* Its commit, with the sweep Arrived queues unless the queue is full.
ScanCommits ==
    /\ arriving # NoScan
    /\ finding' = [f \in Findings |-> IF f \in arriving.of THEN "open" ELSE finding[f]]
    /\ IF arriving.ruled /\ ~Full THEN Queued ELSE UNCHANGED waiting
    /\ Freed(arriving.of)
    /\ arriving' = NoScan
    /\ UNCHANGED <<holder, rule, reading, sw, events>>

Close(f) ==
    /\ finding[f] = "open"
    /\ finding' = [finding EXCEPT ![f] = "closed"]
    /\ Happens
    /\ UNCHANGED <<sw, holder, rule, reading, arriving, waiting, fresh>>

\* Assign: to somebody who reads it, or back to nobody.
Assign(f, x) ==
    /\ finding[f] = "open"
    /\ x \in reading \cup {NoOne}
    /\ holder[f] # x
    /\ holder' = [holder EXCEPT ![f] = x]
    /\ IF x = NoOne THEN Freed({f}) ELSE UNCHANGED fresh
    /\ Happens
    /\ UNCHANGED <<sw, finding, rule, reading, arriving, waiting>>

\* The rule at the end of the list and its sweep, together or not at all.
AddRule(r) ==
    /\ rule[r] = "unwritten"
    /\ \A q \in Rules : q > r => rule[q] = "unwritten"
    /\ ~Full
    /\ Queued
    /\ rule' = [rule EXCEPT ![r] = "in force"]
    /\ Happens
    /\ UNCHANGED <<sw, finding, holder, reading, arriving, fresh>>

RetireRule(r) ==
    /\ rule[r] = "in force"
    /\ rule' = [rule EXCEPT ![r] = "retired"]
    /\ Happens
    /\ UNCHANGED <<sw, finding, holder, reading, arriving, waiting, fresh>>

\* A write that takes reading away, and HandBackUnread within it.
Narrow(x) ==
    LET left == {f \in Findings : finding[f] = "open" /\ holder[f] = x} IN
    /\ x \in reading
    /\ reading' = reading \ {x}
    /\ holder' = [f \in Findings |-> IF f \in left THEN NoOne ELSE holder[f]]
    /\ Freed(left)
    /\ Happens
    /\ UNCHANGED <<sw, finding, rule, arriving, waiting>>

Widen(x) ==
    /\ x \in Parties \ reading
    /\ reading' = reading \cup {x}
    /\ Happens
    /\ UNCHANGED <<sw, finding, holder, rule, arriving, waiting, fresh>>

----------------------------------------------------------------------------
(* The sweep. *)

Does(p, s) == sw' = [sw EXCEPT ![p] = s]
Ends(p, failed) ==
    Does(p, [Resting EXCEPT !.pc = "settle", !.tries = sw[p].tries, !.failed = failed])
Rests(p) == Does(p, Resting) /\ fresh' = [fresh EXCEPT ![p] = {}]

Takes(tries) == [Resting EXCEPT !.pc = "rules", !.tries = tries]

\* Claim of a sweep that waits.
Claim(p, t) ==
    /\ sw[p].pc = "idle"
    /\ waiting[t] > 0
    /\ waiting' = [waiting EXCEPT ![t] = @ - 1]
    /\ Does(p, Takes(t + 1))
    /\ UNCHANGED <<work, fresh, events>>

\* (Definitions named *_mutant are planted faults: each is the definition that
\* follows it with one mistake, and shows which property notices.)
\* This one takes over a job whose tries are spent.
TakeOver_mutant(p, q) ==
    /\ sw[p].pc = "idle"
    /\ sw[q].tries > 0
    /\ Happens
    /\ sw' = [sw EXCEPT ![p] = Takes(sw[q].tries + 1), ![q].tries = 0]
    /\ UNCHANGED <<work, waiting, fresh>>

\* Claim of one whose holder is alive and late to renew it.
TakeOver(p, q) ==
    /\ sw[p].pc = "idle"
    /\ sw[q].tries \in 1 .. MaxAttempts - 1
    /\ Happens
    /\ sw' = [sw EXCEPT ![p] = Takes(sw[q].tries + 1), ![q].tries = 0]
    /\ UNCHANGED <<work, waiting, fresh>>

ReadRules(p) ==
    /\ sw[p].pc = "rules"
    /\ Does(p, [sw[p] EXCEPT !.pc = "page", !.todo = InForce])
    /\ UNCHANGED <<work, waiting, fresh, events>>

Turn(p) == sw[p].pc = "page" /\ sw[p].todo # {} /\ sw[p].seen < Batch

\* A rule whose team nobody on reads the product places nothing.
SkipRule(p) ==
    /\ Turn(p)
    /\ \E r \in InTurn(p) :
          /\ Team[r] \notin reading
          /\ Does(p, [sw[p] EXCEPT !.todo = @ \ {r}])
    /\ UNCHANGED <<work, waiting, fresh, events>>

\* (Reads what is held too.)
Page_mutant(r, room) ==
    LET all == {f \in Matches[r] : finding[f] = "open"} IN
    {ids \in SUBSET all : /\ Cardinality(ids) <= room
                          /\ ids = all \/ Cardinality(ids) = room}

\* The pages a rule may be given: as much as there is room for, in no order.
Page(r, room) ==
    LET all == Matches[r] \cap Unheld IN
    {ids \in SUBSET all : /\ Cardinality(ids) <= room
                          /\ ids = all \/ Cardinality(ids) = room}

\* holdableBy, and the page read.
ReadPage(p) ==
    /\ Turn(p)
    /\ \E r \in InTurn(p) :
          /\ Team[r] \in reading
          /\ \E ids \in Page(r, Batch - sw[p].seen) :
                Does(p, IF ids = {}
                        THEN [sw[p] EXCEPT !.todo = @ \ {r}, !.passed = @ \cup {r}]
                        ELSE [sw[p] EXCEPT !.pc = "place", !.ids = ids])
    /\ UNCHANGED <<work, waiting, fresh, events>>

\* (Does not ask again.)
Placed_mutant(ids, x) == [f \in Findings |-> IF f \in ids THEN x ELSE holder[f]]

\* The write by identifier, which asks again that nobody holds it.
Placed(ids, x) == [f \in Findings |-> IF f \in ids /\ holder[f] = NoOne THEN x ELSE holder[f]]

\* (Counts what was written.)
Read_mutant(p) == {f \in sw[p].ids : holder[f] = NoOne}

\* What a page counts for.
Read(p) == sw[p].ids

Place(p) ==
    /\ sw[p].pc = "place"
    /\ \E r \in InTurn(p) :
          /\ holder' = Placed(sw[p].ids, Team[r])
          /\ Does(p, [sw[p] EXCEPT !.pc = "page", !.todo = @ \ {r}, !.passed = @ \cup {r},
                                   !.seen = @ + Cardinality(Read(p)), !.ids = {}])
    /\ UNCHANGED <<finding, rule, reading, arriving, waiting, fresh, events>>

\* The batch is full, and the rest is queued before this sweep is settled; a
\* full queue is this sweep's failure.
QueueRest(p) ==
    /\ sw[p].pc = "page"
    /\ sw[p].seen >= Batch
    /\ IF Full THEN UNCHANGED waiting ELSE Queued
    /\ Ends(p, Full)
    /\ UNCHANGED <<work, fresh, events>>

NothingLeft(p) ==
    /\ sw[p].pc = "page"
    /\ sw[p].todo = {} /\ sw[p].seen < Batch
    /\ Ends(p, FALSE)
    /\ UNCHANGED <<work, waiting, fresh, events>>

\* A statement fails.
SweepFails(p) ==
    /\ sw[p].pc \in {"rules", "page", "place"}
    /\ Happens
    /\ Ends(p, TRUE)
    /\ UNCHANGED <<work, waiting, fresh>>

\* Settle: done, back to wait, or failed for good, by whoever holds the claim.
Settle(p) ==
    /\ sw[p].pc = "settle"
    /\ waiting' = IF sw[p].failed THEN Back(sw[p].tries) ELSE waiting
    /\ Rests(p)
    /\ UNCHANGED <<work, events>>

\* The ending is not written, and nobody renews the claim any more.
SettleFails(p) ==
    /\ sw[p].pc = "settle"
    /\ Happens
    /\ waiting' = Back(sw[p].tries)
    /\ Rests(p)
    /\ UNCHANGED work

\* A process ends, and another starts under another name.
Crash(p) ==
    /\ Happens
    /\ sw[p].pc # "idle"
    /\ waiting' = Back(sw[p].tries)
    /\ Rests(p)
    /\ UNCHANGED work

\* The daily sweep of a ruled product.  A full queue leaves it for another day.
CatchUp ==
    /\ InForce # {}
    /\ ~Full
    /\ Queued
    /\ UNCHANGED <<work, sw, fresh, events>>

----------------------------------------------------------------------------
OnFinding(f) == ScanOpens(f) \/ Close(f) \/ \E x \in Parties \cup {NoOne} : Assign(f, x)
OnRule(r) == AddRule(r) \/ RetireRule(r)
OnReader(x) == Narrow(x) \/ Widen(x)

Sweeps(p) ==
    \/ \E t \in 0 .. MaxAttempts - 1 : Claim(p, t)
    \/ ReadRules(p) \/ SkipRule(p) \/ ReadPage(p) \/ Place(p)
    \/ QueueRest(p) \/ NothingLeft(p) \/ Settle(p)

Fails(p) ==
    \/ SweepFails(p) \/ SettleFails(p) \/ Crash(p)
    \/ \E q \in Procs : TakeOver(p, q)

Next ==
    \/ \E f \in Findings : OnFinding(f)
    \/ \E r \in Rules : OnRule(r)
    \/ \E x \in Parties : OnReader(x)
    \/ ScanCommits
    \/ \E p \in Procs : Sweeps(p) \/ Fails(p)
    \/ CatchUp

\* Loops on tickers, an open transaction, and the days.
Fairness ==
    /\ \A p \in Procs : WF_vars(Sweeps(p))
    /\ WF_vars(ScanCommits)
    /\ WF_vars(CatchUp)

Spec == Init /\ [][Next]_vars /\ Fairness

----------------------------------------------------------------------------
(* Properties. *)

\* A sweep never takes work out of anybody's hands, whoever took it up between
\* the page it read and what it writes (ApplyRules: a human assignment wins).
RuleTakesNothing ==
    [][sw' # sw => \A f \in Findings : holder[f] # NoOne => holder'[f] = holder[f]]_vars

\* First match wins: a sweep places work by a rule only where no earlier rule it
\* tried names it, but for work that came to be without a holder as it ran.
FirstMatchWins ==
    [][\A p \in Procs, f \in Findings :
          /\ sw[p].pc = "place" /\ sw'[p] # sw[p]
          /\ holder[f] = NoOne /\ holder'[f] # NoOne
          => \/ f \in fresh[p]
             \/ \A r \in sw[p].passed : f \notin Matches[r]]_vars

CanBePlaced(f) ==
    /\ f \in Unheld
    /\ \E r \in InForce : f \in Matches[r] /\ Team[r] \in reading

\* Work a rule places is placed in the end, though the queue was full when it
\* came, its rule was written beside it, its sweep was cut short or a replica died.
WorkIsPlaced == \A f \in Findings : CanBePlaced(f) ~> ~CanBePlaced(f)

\* A team holds work only while a member reads it (handback.go).  It does not:
\* its last reader may go, with what it holds handed back, between the page a
\* rule read for it and the write.  No run checks this.
HeldIsRead == \A f \in Findings : finding[f] = "open" => holder[f] \in reading \cup {NoOne}
=============================================================================
