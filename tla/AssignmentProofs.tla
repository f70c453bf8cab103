--------------------------- MODULE AssignmentProofs ---------------------------
(***************************************************************************)
(* What holds of Assignment for any number of replicas, findings, rules    *)
(* and people, any batch and any backlog.  The inductive invariant says    *)
(* what a sweep knows between its statements: of the work the rules it has *)
(* passed name, and of the page it read, nothing is without a holder but   *)
(* what came to be so since the sweep began.                               *)
(***************************************************************************)
EXTENDS Assignment, FiniteSetTheorems, TLAPS

USE RulesAssumption, BoundsAssumption

----------------------------------------------------------------------------
(* Types. *)

\* The parts of TypeOK, so that a step proves each from what it needs.
WorkType ==
    /\ finding \in [Findings -> {"absent", "open", "closed"}]
    /\ holder \in [Findings -> Parties \cup {NoOne}]
    /\ rule \in [Rules -> {"unwritten", "in force", "retired"}]
    /\ reading \subseteq Parties
    /\ arriving \in [of : SUBSET Findings, ruled : BOOLEAN]
WaitingType == waiting \in [0 .. MaxAttempts - 1 -> Nat]
SweepType == sw \in [Procs -> Sweep]
FreshType == fresh \in [Procs -> SUBSET Findings]
EventsType == events \in 0 .. MaxEvents

LEMMA TypeParts ==
    TypeOK <=> WorkType /\ WaitingType /\ SweepType /\ FreshType /\ EventsType
BY DEF TypeOK, WorkType, WaitingType, SweepType, FreshType, EventsType

LEMMA PageSize ==
    ASSUME NEW ids \in SUBSET Findings
    PROVE  IsFiniteSet(ids) /\ Cardinality(ids) \in Nat
BY FS_Subset, FS_CardinalityType

LEMMA TeamTypes == \A r \in Rules : Team[r] \in Parties /\ Team[r] # NoOne
BY DEF Parties, Teams

LEMMA RestingType == Resting \in Sweep
BY DEF Resting, Sweep

LEMMA RestTypes ==
    ASSUME NEW n \in 0 .. MaxAttempts, NEW b \in BOOLEAN
    PROVE  /\ Resting \in Sweep
           /\ Takes(n) \in Sweep
           /\ [Resting EXCEPT !.pc = "settle", !.tries = n, !.failed = b] \in Sweep
<1>1. /\ Resting.pc = "idle" /\ Resting.tries = 0 /\ Resting.seen = 0
      /\ Resting \in Sweep
    BY DEF Resting, Sweep
<1>2. Takes(n) \in Sweep
    BY <1>1 DEF Takes, Sweep
<1> QED BY <1>1, <1>2 DEF Sweep

LEMMA RuleTypes ==
    ASSUME NEW s \in Sweep, NEW todo \in SUBSET Rules, NEW passed \in SUBSET Rules,
           NEW ids \in SUBSET Findings, NEW n \in Nat
    PROVE  /\ [s EXCEPT !.pc = "page", !.todo = todo] \in Sweep
           /\ [s EXCEPT !.todo = todo] \in Sweep
           /\ [s EXCEPT !.todo = todo, !.passed = passed] \in Sweep
           /\ [s EXCEPT !.pc = "place", !.ids = ids] \in Sweep
           /\ [s EXCEPT !.pc = "page", !.todo = todo, !.passed = passed,
                        !.seen = n, !.ids = ids] \in Sweep
           /\ [s EXCEPT !.tries = 0] \in Sweep
<1>1. [s EXCEPT !.pc = "page", !.todo = todo] \in Sweep
    BY DEF Sweep
<1>2. [s EXCEPT !.todo = todo] \in Sweep /\ [s EXCEPT !.todo = todo, !.passed = passed] \in Sweep
    BY DEF Sweep
<1>3. [s EXCEPT !.pc = "place", !.ids = ids] \in Sweep
    BY DEF Sweep
<1>4. [s EXCEPT !.pc = "page", !.todo = todo, !.passed = passed,
                !.seen = n, !.ids = ids] \in Sweep
    BY DEF Sweep
<1>5. [s EXCEPT !.tries = 0] \in Sweep
    BY DEF Sweep
<1> QED BY <1>1, <1>2, <1>3, <1>4, <1>5

LEMMA SweepStep ==
    ASSUME WorkType, WaitingType, SweepType, [Next]_vars
    PROVE  SweepType'
<1> USE DEF SweepType, Does
<1>1. ASSUME NEW p \in Procs, NEW t \in 0 .. MaxAttempts - 1, Claim(p, t) PROVE SweepType'
    <2>1. t + 1 \in 0 .. MaxAttempts
        OBVIOUS
    <2>2. Takes(t + 1) \in Sweep
        BY <2>1, RestTypes
    <2> QED BY <1>1, <2>2 DEF Claim
<1>2. ASSUME NEW p \in Procs, ReadRules(p) PROVE SweepType'
    <2>1. InForce \in SUBSET Rules /\ sw[p] \in Sweep
        BY DEF InForce
    <2>2. [sw[p] EXCEPT !.pc = "page", !.todo = InForce] \in Sweep
        BY <2>1, RuleTypes
    <2> QED BY <1>2, <2>2 DEF ReadRules
<1>3. ASSUME NEW p \in Procs, SkipRule(p) PROVE SweepType'
    <2>1. PICK r \in InTurn(p) : sw' = [sw EXCEPT ![p] = [sw[p] EXCEPT !.todo = @ \ {r}]]
        BY <1>3 DEF SkipRule
    <2>2. sw[p] \in Sweep /\ sw[p].todo \in SUBSET Rules
        BY DEF Sweep
    <2>3. [sw[p] EXCEPT !.todo = sw[p].todo \ {r}] \in Sweep
        BY <2>2, RuleTypes
    <2> QED BY <2>1, <2>3
<1>4. ASSUME NEW p \in Procs, ReadPage(p) PROVE SweepType'
    <2>0. PICK r \in InTurn(p) : \E ids \in Page(r, Batch - sw[p].seen) :
              sw' = [sw EXCEPT ![p] =
                        IF ids = {}
                        THEN [sw[p] EXCEPT !.todo = @ \ {r}, !.passed = @ \cup {r}]
                        ELSE [sw[p] EXCEPT !.pc = "place", !.ids = ids]]
        BY <1>4 DEF ReadPage
    <2>1. PICK ids \in Page(r, Batch - sw[p].seen) :
              sw' = [sw EXCEPT ![p] =
                        IF ids = {}
                        THEN [sw[p] EXCEPT !.todo = @ \ {r}, !.passed = @ \cup {r}]
                        ELSE [sw[p] EXCEPT !.pc = "place", !.ids = ids]]
        BY <2>0
    <2>2. /\ sw[p] \in Sweep
          /\ sw[p].todo \ {r} \in SUBSET Rules
          /\ sw[p].passed \cup {r} \in SUBSET Rules
        BY DEF Sweep, InTurn
    <2>3. ids \in SUBSET Findings
        BY DEF Page, Unheld
    <2>4. [sw[p] EXCEPT !.pc = "place", !.ids = ids] \in Sweep
        BY <2>2, <2>3, RuleTypes
    <2>5. [sw[p] EXCEPT !.todo = sw[p].todo \ {r}, !.passed = sw[p].passed \cup {r}] \in Sweep
        BY <2>2, RuleTypes
    <2> QED BY <2>1, <2>4, <2>5
<1>5. ASSUME NEW p \in Procs, Place(p) PROVE SweepType'
    <2>1. PICK r \in InTurn(p) :
              sw' = [sw EXCEPT ![p] =
                        [sw[p] EXCEPT !.pc = "page", !.todo = @ \ {r}, !.passed = @ \cup {r},
                                      !.seen = @ + Cardinality(Read(p)), !.ids = {}]]
        BY <1>5 DEF Place
    <2>2. /\ sw[p] \in Sweep
          /\ sw[p].todo \ {r} \in SUBSET Rules
          /\ sw[p].passed \cup {r} \in SUBSET Rules
          /\ sw[p].ids \in SUBSET Findings /\ sw[p].seen \in Nat
        BY DEF Sweep, InTurn
    <2>3. sw[p].seen + Cardinality(Read(p)) \in Nat
        BY <2>2, PageSize DEF Read
    <2>4. [sw[p] EXCEPT !.pc = "page", !.todo = sw[p].todo \ {r},
                        !.passed = sw[p].passed \cup {r},
                        !.seen = sw[p].seen + Cardinality(Read(p)), !.ids = {}] \in Sweep
        BY <2>2, <2>3, RuleTypes
    <2> QED BY <2>1, <2>4
<1>6. ASSUME NEW p \in Procs, NEW b, b \in BOOLEAN, Ends(p, b) PROVE SweepType'
    <2>1. sw[p].tries \in 0 .. MaxAttempts
        BY DEF Sweep
    <2>2. [Resting EXCEPT !.pc = "settle", !.tries = sw[p].tries, !.failed = b] \in Sweep
        BY <1>6, <2>1, RestTypes
    <2> QED BY <1>6, <2>2 DEF Ends
<1>7. ASSUME NEW p \in Procs, QueueRest(p) \/ NothingLeft(p) \/ SweepFails(p) PROVE SweepType'
    <2>1. Full \in BOOLEAN
        BY DEF Full
    <2>2. Ends(p, Full) \/ Ends(p, FALSE) \/ Ends(p, TRUE)
        BY <1>7 DEF QueueRest, NothingLeft, SweepFails
    <2> QED BY <1>6, <2>1, <2>2
<1>8. ASSUME NEW p \in Procs, Settle(p) \/ SettleFails(p) \/ Crash(p) PROVE SweepType'
    <2>1. sw' = [sw EXCEPT ![p] = Resting]
        BY <1>8 DEF Settle, SettleFails, Crash, Rests
    <2> QED BY <2>1, RestingType
<1>9. ASSUME NEW p \in Procs, NEW q \in Procs, TakeOver(p, q) PROVE SweepType'
    <2>1. sw[q].tries + 1 \in 0 .. MaxAttempts
        BY <1>9 DEF TakeOver
    <2>2. Takes(sw[q].tries + 1) \in Sweep
        BY <2>1, RestTypes
    <2> DEFINE s == [sw EXCEPT ![p] = Takes(sw[q].tries + 1)]
    <2>3. s \in [Procs -> Sweep]
        BY <2>2
    <2>4. s[q] \in Sweep
        BY <2>3
    <2>5. [s[q] EXCEPT !.tries = 0] \in Sweep
        BY <2>4, RuleTypes
    <2>6. sw' = [s EXCEPT ![q] = [s[q] EXCEPT !.tries = 0]]
        BY <1>9 DEF TakeOver
    <2> HIDE DEF s
    <2> QED BY <2>3, <2>5, <2>6
<1>10. CASE \/ UNCHANGED vars \/ ScanCommits \/ CatchUp
            \/ \E f \in Findings : OnFinding(f)
            \/ \E r \in Rules : OnRule(r)
            \/ \E x \in Parties : OnReader(x)
    BY <1>10 DEF vars, ScanCommits, CatchUp, OnFinding, ScanOpens, Close, Assign,
                 OnRule, AddRule, RetireRule, OnReader, Narrow, Widen
<1> QED BY <1>1, <1>2, <1>3, <1>4, <1>5, <1>7, <1>8, <1>9, <1>10 DEF Next, Sweeps, Fails

\* What else a step writes, by who takes it.
LEMMA WorkStep ==
    ASSUME WorkType, SweepType, [Next]_vars
    PROVE  WorkType'
<1> USE DEF WorkType
<1>1. ASSUME NEW f \in Findings, ScanOpens(f) \/ Close(f) PROVE WorkType'
    <2>1. CASE ScanOpens(f)
        <3>1. arriving' = [of |-> {f}, ruled |-> InForce # {}]
            BY <2>1 DEF ScanOpens
        <3>2. {f} \in SUBSET Findings /\ (InForce # {}) \in BOOLEAN
            OBVIOUS
        <3>3. arriving' \in [of : SUBSET Findings, ruled : BOOLEAN]
            BY <3>1, <3>2
        <3> QED BY <2>1, <3>3 DEF ScanOpens
    <2>2. CASE Close(f)
        BY <2>2 DEF Close
    <2> QED BY <1>1, <2>1, <2>2
<1>2. ASSUME NEW f \in Findings, NEW x \in Parties \cup {NoOne}, Assign(f, x) PROVE WorkType'
    BY <1>2 DEF Assign
<1>3. ASSUME NEW r \in Rules, AddRule(r) \/ RetireRule(r) PROVE WorkType'
    BY <1>3 DEF AddRule, RetireRule
<1>4. ASSUME NEW x \in Parties, Narrow(x) PROVE WorkType'
    BY <1>4 DEF Narrow
<1>5. ASSUME NEW x \in Parties, Widen(x) PROVE WorkType'
    BY <1>5 DEF Widen
<1>6. CASE ScanCommits
    BY <1>6 DEF ScanCommits, NoScan
<1>7. ASSUME NEW p \in Procs, Place(p) PROVE WorkType'
    <2>1. PICK r \in InTurn(p) : holder' = Placed(sw[p].ids, Team[r])
        BY <1>7 DEF Place
    <2>2. r \in Rules
        BY DEF InTurn, SweepType, Sweep
    <2>3. holder' \in [Findings -> Parties \cup {NoOne}]
        BY <2>1, <2>2, TeamTypes DEF Placed
    <2> QED BY <1>7, <2>3 DEF Place
<1>8. CASE UNCHANGED work
    BY <1>8 DEF work
<1>9. ASSUME NEW p \in Procs, Sweeps(p) \/ Fails(p) PROVE Place(p) \/ UNCHANGED work
    BY <1>9 DEF Sweeps, Claim, ReadRules, SkipRule, ReadPage, QueueRest, NothingLeft, Settle,
                Fails, SweepFails, SettleFails, Crash, TakeOver
<1>10. CatchUp \/ UNCHANGED vars => UNCHANGED work
    BY DEF CatchUp, vars, work
<1> QED BY <1>1, <1>2, <1>3, <1>4, <1>5, <1>6, <1>7, <1>8, <1>9, <1>10
        DEF Next, OnFinding, OnRule, OnReader

LEMMA BackTypes ==
    ASSUME WaitingType, NEW t \in Nat
    PROVE  Back(t) \in [0 .. MaxAttempts - 1 -> Nat]
<1>1. CASE t \in 1 .. MaxAttempts - 1
    <2>1. t \in 0 .. MaxAttempts - 1 /\ waiting[t] + 1 \in Nat
        BY <1>1 DEF WaitingType
    <2> QED BY <1>1, <2>1 DEF Back, WaitingType
<1>2. CASE t \notin 1 .. MaxAttempts - 1
    BY <1>2 DEF Back, WaitingType
<1> QED BY <1>1, <1>2

LEMMA WaitingStep ==
    ASSUME WaitingType, SweepType, [Next]_vars
    PROVE  WaitingType'
<1>1. CASE UNCHANGED waiting
    BY <1>1 DEF WaitingType
<1>2. CASE Queued
    <2>1. 0 \in 0 .. MaxAttempts - 1 /\ waiting[0] + 1 \in Nat
        BY DEF WaitingType
    <2> QED BY <1>2, <2>1 DEF Queued, WaitingType
<1>3. ASSUME NEW p \in Procs, waiting' = Back(sw[p].tries) PROVE WaitingType'
    <2>1. sw[p].tries \in Nat
        BY DEF SweepType, Sweep
    <2> QED BY <1>3, <2>1, BackTypes DEF WaitingType
<1>4. ASSUME NEW p \in Procs, NEW t \in 0 .. MaxAttempts - 1, Claim(p, t) PROVE WaitingType'
    <2>1. waiting[t] \in Nat /\ waiting[t] > 0 /\ waiting' = [waiting EXCEPT ![t] = @ - 1]
        BY <1>4 DEF Claim, WaitingType
    <2>2. waiting[t] - 1 \in Nat
        BY <2>1
    <2> QED BY <2>1, <2>2 DEF WaitingType
<1>5. ASSUME NEW p \in Procs, Sweeps(p) \/ Fails(p)
      PROVE  \/ UNCHANGED waiting \/ Queued \/ waiting' = Back(sw[p].tries)
             \/ \E t \in 0 .. MaxAttempts - 1 : Claim(p, t)
    BY <1>5 DEF Sweeps, ReadRules, SkipRule, ReadPage, Place, QueueRest, NothingLeft, Settle,
                Fails, SweepFails, SettleFails, Crash, TakeOver
<1>6. ASSUME \/ UNCHANGED vars \/ ScanCommits \/ CatchUp
             \/ \E f \in Findings : OnFinding(f)
             \/ \E r \in Rules : OnRule(r)
             \/ \E x \in Parties : OnReader(x)
      PROVE  UNCHANGED waiting \/ Queued
    BY <1>6 DEF vars, ScanCommits, CatchUp, OnFinding, ScanOpens, Close, Assign,
                OnRule, AddRule, RetireRule, OnReader, Narrow, Widen
<1> QED BY <1>1, <1>2, <1>3, <1>4, <1>5, <1>6 DEF Next

\* What a sweep may meet of what came to be without a holder only grows, until
\* it rests.
LEMMA FreedTypes ==
    ASSUME FreshType, NEW fs \in SUBSET Findings, Freed(fs)
    PROVE  FreshType'
BY DEF Freed, FreshType

LEMMA FreshStep ==
    ASSUME WorkType, FreshType, [Next]_vars
    PROVE  FreshType'
<1>1. CASE UNCHANGED fresh
    BY <1>1 DEF FreshType
<1>2. ASSUME NEW p \in Procs, Rests(p) PROVE FreshType'
    BY <1>2 DEF Rests, FreshType
<1>3. ASSUME NEW f \in Findings, NEW x \in Parties \cup {NoOne}, Assign(f, x) PROVE FreshType'
    BY <1>1, <1>3, FreedTypes DEF Assign
<1>4. ASSUME NEW x \in Parties, Narrow(x) PROVE FreshType'
    <2>1. {f \in Findings : finding[f] = "open" /\ holder[f] = x} \in SUBSET Findings
        OBVIOUS
    <2> QED BY <1>4, <2>1, FreedTypes DEF Narrow
<1>5. CASE ScanCommits
    BY <1>5, FreedTypes DEF ScanCommits, WorkType
<1>6. ASSUME NEW p \in Procs, Sweeps(p) \/ Fails(p) PROVE UNCHANGED fresh \/ Rests(p)
    BY <1>6 DEF Sweeps, Claim, ReadRules, SkipRule, ReadPage, Place, QueueRest, NothingLeft,
                Settle, Fails, SweepFails, SettleFails, Crash, TakeOver
<1>7. ASSUME NEW f \in Findings, ScanOpens(f) \/ Close(f) PROVE UNCHANGED fresh
    BY <1>7 DEF ScanOpens, Close
<1>8. ASSUME \/ UNCHANGED vars \/ CatchUp
             \/ \E r \in Rules : OnRule(r)
             \/ \E x \in Parties : Widen(x)
      PROVE  UNCHANGED fresh
    BY <1>8 DEF vars, CatchUp, OnRule, AddRule, RetireRule, Widen
<1> QED BY <1>1, <1>2, <1>3, <1>4, <1>5, <1>6, <1>7, <1>8 DEF Next, OnFinding, OnReader

LEMMA EventsStep ==
    ASSUME EventsType, [Next]_vars
    PROVE  EventsType'
<1>1. UNCHANGED events \/ Happens
    BY DEF Next, vars, ScanCommits, CatchUp, OnFinding, ScanOpens, Close, Assign, OnRule, AddRule,
           RetireRule, OnReader, Narrow, Widen, Sweeps, Claim, ReadRules, SkipRule, ReadPage,
           Place, QueueRest, NothingLeft, Settle, Fails, SweepFails, SettleFails, Crash, TakeOver
<1> QED BY <1>1 DEF Happens, EventsType

LEMMA TypeInit == Init => TypeOK
<1> SUFFICES ASSUME Init PROVE TypeOK
    OBVIOUS
<1>1. WorkType
    BY DEF Init, WorkType, NoScan
<1>2. WaitingType
    BY DEF Init, WaitingType
<1>3. SweepType
    BY RestingType DEF Init, SweepType
<1>4. FreshType
    BY DEF Init, FreshType
<1>5. EventsType
    <2>1. events = 0
        BY DEF Init
    <2> QED BY <2>1 DEF EventsType
<1> QED BY <1>1, <1>2, <1>3, <1>4, <1>5, TypeParts

LEMMA TypeStep == TypeOK /\ [Next]_vars => TypeOK'
<1> SUFFICES ASSUME TypeOK, [Next]_vars PROVE TypeOK'
    OBVIOUS
<1>1. WorkType /\ WaitingType /\ SweepType /\ FreshType /\ EventsType
    BY TypeParts
<1>2. WorkType' /\ WaitingType' /\ SweepType' /\ FreshType' /\ EventsType'
    BY <1>1, WorkStep, WaitingStep, SweepStep, FreshStep, EventsStep
<1> QED BY <1>2 DEF TypeOK, WorkType, WaitingType, SweepType, FreshType, EventsType

\* Every table and every loop holds what it can, for any number of replicas.
THEOREM TypesHold == Spec => []TypeOK
BY TypeInit, TypeStep, PTL DEF Spec

----------------------------------------------------------------------------
(* In nobody's hands. *)

\* A sweep never takes work out of anybody's hands, whoever took it up between
\* the page it read and what it writes, for any number of sweeps at once.
THEOREM SweepsTakeNothing == Spec => RuleTakesNothing
<1>1. TypeOK /\ [Next]_vars =>
          [sw' # sw => \A f \in Findings : holder[f] # NoOne => holder'[f] = holder[f]]_vars
    <2> SUFFICES ASSUME TypeOK, Next, sw' # sw, NEW f \in Findings, holder[f] # NoOne
                 PROVE  holder'[f] = holder[f]
        BY DEF vars, work
    <2>1. ASSUME NEW p \in Procs, Place(p) PROVE holder'[f] = holder[f]
        BY <2>1 DEF Place, Placed
    <2>2. ASSUME NEW p \in Procs, Sweeps(p) \/ Fails(p) PROVE Place(p) \/ UNCHANGED holder
        BY <2>2 DEF Sweeps, Claim, ReadRules, SkipRule, ReadPage, QueueRest, NothingLeft, Settle,
                    Fails, SweepFails, SettleFails, Crash, TakeOver, work
    <2>3. ~ \/ ScanCommits \/ CatchUp
            \/ \E g \in Findings : OnFinding(g)
            \/ \E r \in Rules : OnRule(r)
            \/ \E x \in Parties : OnReader(x)
        BY DEF ScanCommits, CatchUp, OnFinding, ScanOpens, Close, Assign,
               OnRule, AddRule, RetireRule, OnReader, Narrow, Widen
    <2> QED BY <2>1, <2>2, <2>3 DEF Next
<1> QED BY <1>1, TypesHold, PTL DEF Spec, RuleTakesNothing

----------------------------------------------------------------------------
(* First match wins. *)

\* Nothing of f is without a holder but what came to be so as p swept.
Met(p, f) == f \in Unheld => f \in fresh[p]

\* The work the rules a sweep has passed name was met, while there is room.
PassedMet(p) ==
    sw[p].pc \in {"page", "place"} /\ sw[p].seen < Batch =>
        \A r \in sw[p].passed : \A f \in Matches[r] : Met(p, f)

\* Nothing of the page is named by a rule it has passed.
PageIsLeft(p) ==
    sw[p].pc = "place" =>
        \A f \in sw[p].ids : f \in fresh[p] \/ \A r \in sw[p].passed : f \notin Matches[r]

\* A page that did not fill the batch holds all the rule names.
PageIsAll(p) ==
    sw[p].pc = "place" /\ sw[p].seen + Cardinality(sw[p].ids) < Batch =>
        \A r \in InTurn(p) : \A f \in Matches[r] : f \in sw[p].ids \/ Met(p, f)

\* It begins with none passed.
NonePassed(p) == sw[p].pc = "rules" => sw[p].passed = {}

Orderly(p) == NonePassed(p) /\ PassedMet(p) /\ PageIsLeft(p) /\ PageIsAll(p)

OrderInv == \A p \in Procs : Orderly(p)

\* What other steps free is fresh to every sweep in progress.
LEMMA UnheldGrows ==
    ASSUME TypeOK, Next, NEW p \in Procs, sw[p].pc # "idle", sw'[p].pc # "idle"
    PROVE  /\ fresh[p] \subseteq fresh'[p]
           /\ Unheld' \subseteq Unheld \cup fresh'[p]
<1> USE DEF TypeOK
<1>1. ASSUME NEW fs, Freed(fs) PROVE fresh'[p] = fresh[p] \cup fs
    BY <1>1 DEF Freed
<1>2. ASSUME NEW f \in Findings, ScanOpens(f) \/ Close(f)
      PROVE  fresh' = fresh /\ Unheld' \subseteq Unheld
    BY <1>2 DEF ScanOpens, Close, Unheld
<1>3. ASSUME NEW f \in Findings, NEW x \in Parties \cup {NoOne}, Assign(f, x)
      PROVE  fresh[p] \subseteq fresh'[p] /\ Unheld' \subseteq Unheld \cup fresh'[p]
    <2>1. CASE x = NoOne
        <3>1. fresh'[p] = fresh[p] \cup {f}
            BY <1>1, <1>3, <2>1 DEF Assign
        <3>2. Unheld' \subseteq Unheld \cup {f}
            BY <1>3, <2>1 DEF Assign, Unheld
        <3> QED BY <3>1, <3>2
    <2>2. CASE x # NoOne
        BY <1>3, <2>2 DEF Assign, Unheld
    <2> QED BY <2>1, <2>2
<1>4. ASSUME NEW x \in Parties, Narrow(x)
      PROVE  fresh[p] \subseteq fresh'[p] /\ Unheld' \subseteq Unheld \cup fresh'[p]
    <2> DEFINE left == {f \in Findings : finding[f] = "open" /\ holder[f] = x}
    <2>1. fresh'[p] = fresh[p] \cup left
        BY <1>1, <1>4 DEF Narrow
    <2>2. Unheld' \subseteq Unheld \cup left
        BY <1>4 DEF Narrow, Unheld
    <2> HIDE DEF left
    <2> QED BY <2>1, <2>2
<1>5. CASE ScanCommits
    <2>1. fresh'[p] = fresh[p] \cup arriving.of
        BY <1>1, <1>5 DEF ScanCommits
    <2>2. Unheld' \subseteq Unheld \cup arriving.of
        BY <1>5 DEF ScanCommits, Unheld
    <2> QED BY <2>1, <2>2
<1>6. ASSUME NEW q \in Procs, Place(q)
      PROVE  fresh' = fresh /\ Unheld' \subseteq Unheld
    <2>1. PICK r \in InTurn(q) : holder' = Placed(sw[q].ids, Team[r])
        BY <1>6 DEF Place
    <2> QED BY <1>6, <2>1 DEF Place, Placed, Unheld
<1>7. ASSUME NEW q \in Procs, Rests(q) PROVE fresh'[p] = fresh[p]
    <2>1. q # p
        BY <1>7 DEF Rests, Does, Resting
    <2> QED BY <1>7, <2>1 DEF Rests
<1>8. ASSUME UNCHANGED work PROVE Unheld' = Unheld
    BY <1>8 DEF work, Unheld
<1>9. ASSUME NEW q \in Procs, Sweeps(q) \/ Fails(q)
      PROVE  Place(q) \/ (UNCHANGED work /\ (UNCHANGED fresh \/ Rests(q)))
    BY <1>9 DEF Sweeps, Claim, ReadRules, SkipRule, ReadPage, QueueRest, NothingLeft, Settle,
                Fails, SweepFails, SettleFails, Crash, TakeOver
<1>10. ASSUME CatchUp \/ (\E r \in Rules : OnRule(r)) \/ (\E x \in Parties : Widen(x))
       PROVE  UNCHANGED fresh /\ Unheld' = Unheld
    BY <1>10 DEF CatchUp, OnRule, AddRule, RetireRule, Widen, Unheld, work
<1> QED BY <1>2, <1>3, <1>4, <1>5, <1>6, <1>7, <1>8, <1>9, <1>10 DEF Next, OnFinding, OnReader

\* So what a sweep has met stays met.
LEMMA MetStays ==
    ASSUME TypeOK, Next, NEW p \in Procs, sw[p].pc # "idle", sw'[p].pc # "idle",
           NEW f, Met(p, f)
    PROVE  Met(p, f)'
BY UnheldGrows DEF Met

\* A sweep that stays where it is stays orderly, whatever others do.
LEMMA OthersStep ==
    ASSUME TypeOK, Next, NEW p \in Procs, Orderly(p),
           sw'[p].pc = sw[p].pc, sw'[p].todo = sw[p].todo, sw'[p].passed = sw[p].passed,
           sw'[p].seen = sw[p].seen, sw'[p].ids = sw[p].ids
    PROVE  Orderly(p)'
<1>1. CASE sw[p].pc \notin {"page", "place"}
    BY <1>1 DEF Orderly, NonePassed, PassedMet, PageIsLeft, PageIsAll
<1>2. CASE sw[p].pc \in {"page", "place"}
    <2>1. \A f : Met(p, f) => Met(p, f)'
        BY <1>2, MetStays
    <2>2. fresh[p] \subseteq fresh'[p]
        BY <1>2, UnheldGrows
    <2>3. InTurn(p)' = InTurn(p)
        BY DEF InTurn
    <2>4. PassedMet(p)'
        BY <2>1 DEF Orderly, PassedMet
    <2>5. PageIsLeft(p)'
        BY <2>2 DEF Orderly, PageIsLeft
    <2>6. PageIsAll(p)'
        BY <2>1, <2>3 DEF Orderly, PageIsAll
    <2> QED BY <1>2, <2>4, <2>5, <2>6 DEF Orderly, NonePassed
<1> QED BY <1>1, <1>2

\* A sweep that is not among the rules has nothing to answer for.
LEMMA OutsideStep ==
    ASSUME NEW p \in Procs, sw'[p].pc \notin {"page", "place"}, sw'[p].passed = {}
    PROVE  Orderly(p)'
BY DEF Orderly, NonePassed, PassedMet, PageIsLeft, PageIsAll

\* Where a sweep's record is changed, the fields that are not named stay.
LEMMA AtThePage ==
    ASSUME NEW x \in Sweep, NEW todo
    PROVE  /\ [x EXCEPT !.pc = "page", !.todo = todo].pc = "page"
           /\ [x EXCEPT !.pc = "page", !.todo = todo].passed = x.passed
BY DEF Sweep

LEMMA TodoAlone ==
    ASSUME NEW x \in Sweep, NEW todo
    PROVE  /\ [x EXCEPT !.todo = todo].pc = x.pc
           /\ [x EXCEPT !.todo = todo].passed = x.passed
           /\ [x EXCEPT !.todo = todo].seen = x.seen
BY DEF Sweep

LEMMA ReadRulesStep ==
    ASSUME TypeOK, NEW p \in Procs, Orderly(p), ReadRules(p)
    PROVE  Orderly(p)'
<1>0. sw[p].passed = {}
    BY DEF ReadRules, Orderly, NonePassed
<1>1. sw'[p].pc = "page" /\ sw'[p].passed = {}
    <2>1. sw \in [Procs -> Sweep]
        BY DEF TypeOK
    <2>2. sw'[p] = [sw[p] EXCEPT !.pc = "page", !.todo = InForce]
        BY <2>1 DEF ReadRules, Does
    <2> QED BY <1>0, <2>1, <2>2, AtThePage
<1> QED BY <1>1 DEF Orderly, NonePassed, PassedMet, PageIsLeft, PageIsAll

LEMMA SkipStep ==
    ASSUME TypeOK, NEW p \in Procs, Orderly(p), SkipRule(p)
    PROVE  Orderly(p)'
<1>1. PICK r \in InTurn(p) : sw' = [sw EXCEPT ![p] = [sw[p] EXCEPT !.todo = @ \ {r}]]
    BY DEF SkipRule, Does
<1>2. sw'[p] = [sw[p] EXCEPT !.todo = @ \ {r}]
    BY <1>1 DEF TypeOK
<1>3. /\ sw'[p].pc = sw[p].pc /\ sw[p].pc = "page"
      /\ sw'[p].passed = sw[p].passed /\ sw'[p].seen = sw[p].seen
    <2>1. sw[p] \in Sweep
        BY DEF TypeOK
    <2>2. sw[p].pc = "page"
        BY DEF SkipRule, Turn
    <2> QED BY <1>2, <2>1, <2>2, TodoAlone
<1>4. Unheld' = Unheld /\ fresh' = fresh
    BY DEF SkipRule, work, Unheld
<1> QED BY <1>3, <1>4 DEF Orderly, NonePassed, PassedMet, PageIsLeft, PageIsAll, Met

LEMMA OneInTurn ==
    ASSUME TypeOK, NEW p \in Procs, NEW r \in InTurn(p), NEW q \in InTurn(p)
    PROVE  q = r /\ r \in Rules
<1>1. r \in Nat /\ q \in Nat /\ r \in Rules
    BY DEF TypeOK, Sweep, InTurn
<1>2. r <= q /\ q <= r
    BY DEF InTurn
<1> QED BY <1>1, <1>2

\* A page that leaves the batch room holds everything the rule may be given.
LEMMA PageHolds ==
    ASSUME NEW r, NEW room \in Nat, NEW ids \in Page(r, room), Cardinality(ids) < room
    PROVE  ids = Matches[r] \cap Unheld
<1>1. Cardinality(ids) # room
    <2>1. CASE Cardinality(ids) \in Nat
        BY <2>1
    <2>2. ids \in SUBSET Findings
        BY DEF Page, Unheld
    <2> QED BY <2>1, <2>2, PageSize
<1> QED BY <1>1 DEF Page

\* What each of a sweep's statements leaves in its variables.
LEMMA FieldsOf ==
    ASSUME NEW s \in Sweep, NEW r, NEW ids, NEW n
    PROVE  LET t == [s EXCEPT !.todo = s.todo \ {r}, !.passed = s.passed \cup {r}]
               u == [s EXCEPT !.pc = "place", !.ids = ids]
               v == [s EXCEPT !.pc = "page", !.todo = s.todo \ {r},
                              !.passed = s.passed \cup {r}, !.seen = n, !.ids = {}]
           IN  /\ t.pc = s.pc /\ t.passed = s.passed \cup {r}
               /\ u.pc = "place" /\ u.passed = s.passed /\ u.ids = ids
               /\ u.seen = s.seen /\ u.todo = s.todo
               /\ v.pc = "page" /\ v.passed = s.passed \cup {r} /\ v.seen = n
BY DEF Sweep

LEMMA ReadPageStep ==
    ASSUME TypeOK, NEW p \in Procs, Orderly(p), ReadPage(p)
    PROVE  Orderly(p)'
<1>1. PICK r \in InTurn(p) : \E ids \in Page(r, Batch - sw[p].seen) :
          sw' = [sw EXCEPT ![p] =
                    IF ids = {}
                    THEN [sw[p] EXCEPT !.todo = @ \ {r}, !.passed = @ \cup {r}]
                    ELSE [sw[p] EXCEPT !.pc = "place", !.ids = ids]]
    BY DEF ReadPage, Does
<1>2. PICK ids \in Page(r, Batch - sw[p].seen) :
          sw' = [sw EXCEPT ![p] =
                    IF ids = {}
                    THEN [sw[p] EXCEPT !.todo = @ \ {r}, !.passed = @ \cup {r}]
                    ELSE [sw[p] EXCEPT !.pc = "place", !.ids = ids]]
    BY <1>1
<1>3. /\ sw[p].pc = "page" /\ sw[p].seen \in Nat /\ sw[p].seen < Batch
      /\ sw[p].passed \in SUBSET Rules
      /\ Unheld' = Unheld /\ fresh' = fresh
    BY DEF ReadPage, Turn, TypeOK, Sweep, work, Unheld
<1>4. \A q \in sw[p].passed : \A f \in Matches[q] : Met(p, f)
    BY <1>3 DEF Orderly, PassedMet
<1>5. Batch - sw[p].seen \in Nat /\ 0 < Batch - sw[p].seen
    BY <1>3
<1>6. CASE ids = {}
    <2>1. sw'[p] = [sw[p] EXCEPT !.todo = @ \ {r}, !.passed = @ \cup {r}]
        BY <1>2, <1>6 DEF TypeOK
    <2>2. sw'[p].pc = "page" /\ sw'[p].passed = sw[p].passed \cup {r}
        <3>1. sw[p] \in Sweep
            BY DEF TypeOK
        <3> QED BY <1>3, <2>1, <3>1, FieldsOf
    <2>3. Cardinality(ids) = 0
        BY <1>6, FS_EmptySet
    <2>4. Matches[r] \cap Unheld = {}
        BY <1>5, <1>6, <2>3, PageHolds
    <2>5. \A q \in sw'[p].passed : \A f \in Matches[q] : f \in Unheld' => f \in fresh'[p]
        BY <1>3, <1>4, <2>2, <2>4 DEF Met
    <2> QED BY <2>2, <2>5 DEF Orderly, NonePassed, PassedMet, PageIsLeft, PageIsAll, Met
<1>7. CASE ids # {}
    <2>1. sw'[p] = [sw[p] EXCEPT !.pc = "place", !.ids = ids]
        BY <1>2, <1>7 DEF TypeOK
    <2>2. /\ sw'[p].pc = "place" /\ sw'[p].passed = sw[p].passed /\ sw'[p].ids = ids
          /\ sw'[p].seen = sw[p].seen /\ sw'[p].todo = sw[p].todo
        <3>1. sw[p] \in Sweep
            BY DEF TypeOK
        <3> QED BY <2>1, <3>1, FieldsOf
    <2>3. PassedMet(p)'
        BY <1>3, <1>4, <2>2 DEF PassedMet, Met
    <2>4. ids \subseteq Unheld
        BY DEF Page
    <2>5. PageIsLeft(p)'
        <3> SUFFICES ASSUME NEW f \in ids, NEW q \in sw[p].passed, f \in Matches[q]
                     PROVE  f \in fresh'[p]
            BY <2>2 DEF PageIsLeft
        <3> QED BY <1>3, <1>4, <2>4 DEF Met
    <2>6. PageIsAll(p)'
        <3> SUFFICES ASSUME sw[p].seen + Cardinality(ids) < Batch,
                            NEW q \in InTurn(p), NEW f \in Matches[q], f \in Unheld
                     PROVE  f \in ids
            BY <1>3, <2>2 DEF PageIsAll, InTurn, Met
        <3>1. Cardinality(ids) \in Nat
            BY PageSize DEF Page, Unheld
        <3>2. Cardinality(ids) < Batch - sw[p].seen
            BY <1>3, <3>1
        <3>3. ids = Matches[r] \cap Unheld
            BY <1>5, <3>2, PageHolds
        <3>4. q = r
            BY OneInTurn
        <3> QED BY <3>3, <3>4
    <2> QED BY <2>2, <2>3, <2>5, <2>6 DEF Orderly, NonePassed
<1> QED BY <1>6, <1>7

LEMMA PlaceStep ==
    ASSUME TypeOK, Next, NEW p \in Procs, Orderly(p), Place(p)
    PROVE  Orderly(p)'
<1>1. PICK r \in InTurn(p) :
          /\ holder' = Placed(sw[p].ids, Team[r])
          /\ sw' = [sw EXCEPT ![p] =
                       [sw[p] EXCEPT !.pc = "page", !.todo = @ \ {r}, !.passed = @ \cup {r},
                                     !.seen = @ + Cardinality(Read(p)), !.ids = {}]]
    BY DEF Place, Does
<1>2. /\ sw[p].pc = "place" /\ sw[p].seen \in Nat
      /\ sw[p].ids \in SUBSET Findings
    BY DEF Place, TypeOK, Sweep
<1>3. /\ sw'[p].pc = "page" /\ sw'[p].passed = sw[p].passed \cup {r}
      /\ sw'[p].seen = sw[p].seen + Cardinality(sw[p].ids)
    <2>1. sw[p] \in Sweep
        BY DEF TypeOK
    <2>2. sw'[p] = [sw[p] EXCEPT !.pc = "page", !.todo = sw[p].todo \ {r},
                                 !.passed = sw[p].passed \cup {r},
                                 !.seen = sw[p].seen + Cardinality(sw[p].ids), !.ids = {}]
        BY <1>1 DEF TypeOK, Read
    <2> QED BY <2>1, <2>2, FieldsOf
<1>4. Cardinality(sw[p].ids) \in Nat
    BY <1>2, PageSize
<1>5. \A f : Met(p, f) => Met(p, f)'
    BY <1>2, <1>3, MetStays
<1>6. ASSUME NEW f \in sw[p].ids PROVE f \notin Unheld'
    <2>1. Team[r] # NoOne
        BY OneInTurn, TeamTypes
    <2>2. holder'[f] = IF holder[f] = NoOne THEN Team[r] ELSE holder[f]
        BY <1>1, <1>2 DEF Placed
    <2> QED BY <2>1, <2>2 DEF Unheld
<1>7. PassedMet(p)'
    <2> SUFFICES ASSUME sw[p].seen + Cardinality(sw[p].ids) < Batch,
                        NEW q \in sw[p].passed \cup {r}, NEW f \in Matches[q]
                 PROVE  Met(p, f)'
        BY <1>3 DEF PassedMet
    <2>1. CASE q \in sw[p].passed
        <3>1. sw[p].seen < Batch
            BY <1>2, <1>4
        <3>2. Met(p, f)
            BY <1>2, <2>1, <3>1 DEF Orderly, PassedMet
        <3> QED BY <1>5, <3>2
    <2>2. CASE q = r
        <3>1. f \in sw[p].ids \/ Met(p, f)
            BY <1>2, <2>2 DEF Orderly, PageIsAll
        <3> QED BY <1>5, <1>6, <3>1 DEF Met
    <2> QED BY <2>1, <2>2
<1> QED BY <1>3, <1>7 DEF Orderly, NonePassed, PageIsLeft, PageIsAll

\* Any step leaves a sweep orderly: one of its own, or one of another's.
LEMMA OwnStep ==
    ASSUME TypeOK, Next, NEW p \in Procs, Orderly(p), Sweeps(p) \/ Fails(p)
    PROVE  Orderly(p)'
<1>1. CASE \/ \E t \in 0 .. MaxAttempts - 1 : Claim(p, t)
           \/ QueueRest(p) \/ NothingLeft(p) \/ Settle(p)
           \/ SweepFails(p) \/ SettleFails(p) \/ Crash(p)
    <2>1. ASSUME NEW b, Ends(p, b) PROVE Orderly(p)'
        <3>1. sw'[p] = [Resting EXCEPT !.pc = "settle", !.tries = sw[p].tries, !.failed = b]
            BY <2>1 DEF Ends, Does, TypeOK
        <3>2. sw'[p].pc = "settle" /\ sw'[p].passed = {}
            BY <3>1 DEF Resting
        <3> QED BY <3>2, OutsideStep
    <2>2. ASSUME Rests(p) PROVE Orderly(p)'
        <3>1. sw'[p] = Resting
            BY <2>2 DEF Rests, Does, TypeOK
        <3>2. sw'[p].pc = "idle" /\ sw'[p].passed = {}
            BY <3>1 DEF Resting
        <3> QED BY <3>2, OutsideStep
    <2>3. ASSUME NEW n, Does(p, Takes(n)) PROVE Orderly(p)'
        <3>1. sw'[p] = [Resting EXCEPT !.pc = "rules", !.tries = n]
            BY <2>3 DEF Does, Takes, TypeOK
        <3>2. sw'[p].pc = "rules" /\ sw'[p].passed = {}
            BY <3>1 DEF Resting
        <3> QED BY <3>2, OutsideStep
    <2> QED BY <1>1, <2>1, <2>2, <2>3
            DEF Claim, QueueRest, NothingLeft, Settle, SweepFails, SettleFails, Crash
<1>2. ASSUME NEW q \in Procs, TakeOver(p, q) PROVE Orderly(p)'
    <2>1. sw'[p].pc = "rules" /\ sw'[p].passed = {}
        BY <1>2 DEF TypeOK, TakeOver, Takes, Resting
    <2> QED BY <2>1, OutsideStep
<1> QED BY <1>1, <1>2, ReadRulesStep, SkipStep, ReadPageStep, PlaceStep DEF Sweeps, Fails

LEMMA OthersLeave ==
    ASSUME TypeOK, NEW p \in Procs, NEW q \in Procs \ {p}, Sweeps(q) \/ Fails(q)
    PROVE  /\ sw'[p].pc = sw[p].pc /\ sw'[p].todo = sw[p].todo
           /\ sw'[p].passed = sw[p].passed
           /\ sw'[p].seen = sw[p].seen /\ sw'[p].ids = sw[p].ids
<1>1. ASSUME NEW s, Does(q, s) PROVE sw'[p] = sw[p]
    BY <1>1 DEF Does, TypeOK
<1>2. ASSUME ~ \E r \in Procs : TakeOver(q, r) PROVE \E s : Does(q, s)
    <2>1. CASE Sweeps(q)
        BY <2>1 DEF Sweeps, Claim, ReadRules, SkipRule, ReadPage, Place, QueueRest, NothingLeft,
                    Settle, Ends, Rests
    <2>2. CASE Fails(q)
        BY <1>2, <2>2 DEF Fails, SweepFails, SettleFails, Crash, Ends, Rests
    <2> QED BY <2>1, <2>2
<1>3. ASSUME NEW r \in Procs, TakeOver(q, r)
      PROVE  /\ sw'[p].pc = sw[p].pc /\ sw'[p].todo = sw[p].todo
             /\ sw'[p].passed = sw[p].passed
             /\ sw'[p].seen = sw[p].seen /\ sw'[p].ids = sw[p].ids
    <2>1. sw'[p] = sw[p] \/ sw'[p] = [sw[p] EXCEPT !.tries = 0]
        BY <1>3 DEF TakeOver, TypeOK
    <2>2. sw[p] \in Sweep
        BY DEF TypeOK
    <2>3. CASE sw'[p] = [sw[p] EXCEPT !.tries = 0]
        BY <2>2, <2>3 DEF Sweep
    <2> QED BY <2>1, <2>3
<1> QED BY <1>1, <1>2, <1>3

LEMMA OrderStep == TypeOK /\ OrderInv /\ [Next]_vars => OrderInv'
<1> SUFFICES ASSUME TypeOK, OrderInv, [Next]_vars, NEW p \in Procs PROVE Orderly(p)'
    BY DEF OrderInv
<1>0. Orderly(p)
    BY DEF OrderInv
<1>1. CASE UNCHANGED vars
    BY <1>0, <1>1 DEF vars, work, Orderly, NonePassed, PassedMet, PageIsLeft, PageIsAll,
                      Met, InTurn, Unheld
<1>2. ASSUME Next, Sweeps(p) \/ Fails(p) PROVE Orderly(p)'
    BY <1>0, <1>2, OwnStep
<1>3. ASSUME Next, NEW q \in Procs \ {p}, Sweeps(q) \/ Fails(q) PROVE Orderly(p)'
    BY <1>0, <1>3, OthersLeave, OthersStep
<1>4. ASSUME Next, UNCHANGED sw PROVE Orderly(p)'
    BY <1>0, <1>4, OthersStep
<1>5. ASSUME \/ ScanCommits \/ CatchUp
             \/ \E f \in Findings : OnFinding(f)
             \/ \E r \in Rules : OnRule(r)
             \/ \E x \in Parties : OnReader(x)
      PROVE  UNCHANGED sw
    BY <1>5 DEF ScanCommits, CatchUp, OnFinding, ScanOpens, Close, Assign,
                OnRule, AddRule, RetireRule, OnReader, Narrow, Widen
<1> QED BY <1>1, <1>2, <1>3, <1>4, <1>5 DEF Next

LEMMA OrderInit == Init => OrderInv
<1> SUFFICES ASSUME Init, NEW p \in Procs PROVE Orderly(p)
    BY DEF OrderInv
<1>1. sw[p].pc = "idle"
    BY DEF Init, Resting
<1> QED BY <1>1 DEF Orderly, NonePassed, PassedMet, PageIsLeft, PageIsAll

\* What a sweep knows between its statements, for any number of replicas.
THEOREM OrderHolds == Spec => [](TypeOK /\ OrderInv)
<1>1. Init => TypeOK /\ OrderInv
    BY TypeInit, OrderInit
<1>2. TypeOK /\ OrderInv /\ [Next]_vars => (TypeOK /\ OrderInv)'
    BY TypeStep, OrderStep
<1> QED BY <1>1, <1>2, PTL DEF Spec

\* First match wins: a sweep places work by a rule only where no earlier rule it
\* tried names it, but for work that came to be without a holder as it ran, for
\* any number of sweeps, rules and findings and any batch (ApplyRules).
THEOREM EarlierRulesWin == Spec => FirstMatchWins
<1> DEFINE Wins ==
        \A p \in Procs, f \in Findings :
            /\ sw[p].pc = "place" /\ sw'[p] # sw[p]
            /\ holder[f] = NoOne /\ holder'[f] # NoOne
            => \/ f \in fresh[p]
               \/ \A r \in sw[p].passed : f \notin Matches[r]
<1>1. TypeOK /\ OrderInv /\ [Next]_vars => [Wins]_vars
    <2> SUFFICES ASSUME TypeOK, OrderInv, Next, NEW p \in Procs, NEW f \in Findings,
                        sw[p].pc = "place", sw'[p] # sw[p], holder[f] = NoOne, holder'[f] # NoOne
                 PROVE  f \in fresh[p] \/ \A r \in sw[p].passed : f \notin Matches[r]
        BY DEF vars, work
    <2>1. ASSUME NEW q \in Procs, Place(q) PROVE q = p /\ f \in sw[p].ids
        <3>1. PICK r \in InTurn(q) : holder' = Placed(sw[q].ids, Team[r])
            BY <2>1 DEF Place
        <3>2. q = p
            BY <2>1 DEF Place, Does, TypeOK
        <3> QED BY <3>1, <3>2 DEF Placed
    <2>2. ASSUME NEW q \in Procs, Sweeps(q) \/ Fails(q) PROVE Place(q) \/ UNCHANGED holder
        BY <2>2 DEF Sweeps, Claim, ReadRules, SkipRule, ReadPage, QueueRest, NothingLeft, Settle,
                    Fails, SweepFails, SettleFails, Crash, TakeOver, work
    <2>3. ~ \/ ScanCommits \/ CatchUp
            \/ \E g \in Findings : OnFinding(g)
            \/ \E r \in Rules : OnRule(r)
            \/ \E x \in Parties : OnReader(x)
        BY DEF ScanCommits, CatchUp, OnFinding, ScanOpens, Close, Assign,
               OnRule, AddRule, RetireRule, OnReader, Narrow, Widen
    <2>4. f \in sw[p].ids
        BY <2>1, <2>2, <2>3 DEF Next
    <2> QED BY <2>4 DEF OrderInv, Orderly, PageIsLeft
<1> QED BY <1>1, OrderHolds, PTL DEF Spec, FirstMatchWins
=============================================================================
