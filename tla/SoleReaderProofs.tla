--------------------------- MODULE SoleReaderProofs ---------------------------
(***************************************************************************)
(* What holds of Ingest where one replica reads on SQLite, its process     *)
(* lives, what its recoveries write is written and a commit is answered:   *)
(* a scan the build shows stays accepted, what is shown only goes forward, *)
(* and whenever nothing is on its way the newest scan that stands is the   *)
(* one shown.  Reads fail, uploads roll back and jobs are put back as they *)
(* may, for any submissions and uploads and any number of attempts.  Each  *)
(* of the hazards left out breaks all three, those of a recovery that is   *)
(* not run together with a job that is put back.                           *)
(***************************************************************************)
EXTENDS IngestProofs, FiniteSetTheorems, WellFoundedInduction

Undisturbed ==
    /\ \A r, q \in Readers : r = q
    /\ Serial
    /\ Hazards \cap {"recovery fails", "crash", "shutdown", "answer lost"} = {}

----------------------------------------------------------------------------
(* The invariant.  First what a reader has and what its job says. *)

\* A reader at work holds its job, knows whether it is the last try, and is in
\* the recovery only after a failed read, in its second half only after the last.
AtItsJob ==
    \A r \in Readers : reader[r].pc # "idle" =>
        /\ Holds(r)
        /\ reader[r].last <=> handed[reader[r].job] = MaxAttempts
        /\ reader[r].pc \in {"recovering", "reinstating", "adding"} => reader[r].failed
        /\ reader[r].pc \in {"reinstating", "adding"} => reader[r].last

\* A job that is out is the reader's.
OutIsHeld ==
    \A j \in JobIds : status[j] = "out" =>
        \E r \in Readers : reader[r].pc # "idle" /\ reader[r].job = j

\* May come to be read, now or after it is put back.
Unspent(j) == status[j] \in {"waiting", "out", "failed"}

JobsApart ==
    /\ \A j, k \in JobIds : Unspent(j) /\ Unspent(k) /\ names[j] = names[k] => j = k
    /\ \A j \in JobIds : status[j] # "absent" => scan[names[j]].status \notin {"unused", "arriving"}
    /\ \A j \in JobIds : status[j] = "failed" => scan[names[j]].status \in {"failed", "removed"}

\* Identifiers are given in order.
InSequence == \A i, j \in ScanIds : i <= j /\ ~Used(i) => ~Used(j)

\* An upload that is open wrote the last row there is, is newer than all that
\* stands, and would remove an earlier try at the same submission.
OpenUpload(u) ==
    LET i == sender[u].writes
        old == sender[u].replaces
    IN IF i = None THEN old = None
       ELSE /\ scan[i].status = "arriving"
            /\ \A k \in ScanIds : k > i => ~Used(k)
            /\ \A n \in Standing : Ahead(i, n)
            /\ old # None => /\ scan[old].status = "failed" /\ ~Named(old)
                             /\ scan[old].of = scan[i].of /\ old < i

\* What is shown stands, and what the graph names stands and is not ahead of it.
\* Of two that stand the later sent is ahead, unless the first has been shown.
ShownLeads ==
    /\ shown # None => shown \in Standing
    /\ \A i \in ScanIds : scan[i].named =>
          shown # None /\ i \in Standing /\ (i = shown \/ Ahead(shown, i))
    /\ \A i \in Standing : shown # None /\ shown > i => Ahead(shown, i)
    /\ \A i, k \in Standing : k < i =>
          Ahead(i, k) \/ (shown # None /\ (k = shown \/ Ahead(shown, k)))

\* A read that has not written.
Unread(r) ==
    \/ reader[r].pc \in {"looking", "parsing", "applying", "recovering", "reinstating", "adding"}
    \/ reader[r].pc = "ending" /\ reader[r].failed

\* Nothing that may yet be read is of a scan the graph has.
JobsFresh == \A j \in JobIds : status[j] \in {"waiting", "failed"} => ~Named(names[j])

ReaderFresh(r) ==
    /\ Unread(r) => ~Named(Of(r))
    /\ reader[r].pc = "adding" =>
          /\ reader[r].again \in Standing /\ ~Named(reader[r].again)
          /\ \A j \in JobIds : status[j] # "absent" /\ names[j] = reader[r].again => ~Unspent(j)

\* What a reader knows of its scan.
ReaderKnows(r) ==
    /\ \/ reader[r].pc \in {"reinstating", "adding"}
       \/ reader[r].pc = "ending" /\ reader[r].failed
       => scan[Of(r)].status \in {"failed", "removed"}
    /\ reader[r].pc = "parsing" /\ scan[Of(r)].status = "removed" => PassedBy(Of(r))
    /\ reader[r].pc = "applying" => scan[Of(r)].status # "removed"
    /\ reader[r].pc = "ending" /\ ~reader[r].failed =>
          Of(r) = shown \/ Of(r) \notin Standing \/ PassedBy(Of(r))
    /\ reader[r].pc = "letting go" => Of(r) = shown

\* A job of r's whose read will be tried, now or again.
Trying(r) ==
    \/ reader[r].pc \in {"looking", "parsing", "applying", "recovering"}
    \/ reader[r].pc = "ending" /\ reader[r].failed /\ ~reader[r].last

\* A failed scan ahead of m that will be tried again: m waits for its outcome.
Retried(j, m) ==
    /\ status[j] \in {"waiting", "out"}
    /\ scan[names[j]].status = "failed" /\ names[j] > m /\ Ahead(names[j], m)
    /\ \A r \in Readers : reader[r].pc # "idle" /\ reader[r].job = j => Trying(r)

OnItsWay(m) ==
    \/ shown = m
    \/ BeingRead(m)
    \/ \E j \in JobIds : Retried(j, m)
    \/ \E r \in Readers : reader[r].pc = "reinstating" /\ scan[Of(r)].status # "removed"
    \/ \E r \in Readers : reader[r].pc = "adding" /\ reader[r].again = m

NewestOnItsWay == \A m \in ScanIds : Newest(m) => OnItsWay(m)

Tables == JobsApart /\ InSequence /\ ShownLeads /\ JobsFresh

SoleInv ==
    /\ TakingTurns /\ InTurn
    /\ AtItsJob /\ OutIsHeld
    /\ Tables
    /\ \A u \in Senders : OpenUpload(u)
    /\ \A r \in Readers : ReaderFresh(r) /\ ReaderKnows(r)
    /\ NewestOnItsWay

----------------------------------------------------------------------------
(* The order of the scans that were sent. *)

LEMMA InvTypes ==
    ASSUME SoleInv
    PROVE  /\ SentInv /\ Types /\ Sent
           /\ scan \in [ScanIds -> Scan] /\ shown \in ScanIds \cup {None}
           /\ status \in [JobIds -> Statuses] /\ names \in [JobIds -> ScanIds \cup {None}]
           /\ handed \in [JobIds -> 0 .. MaxAttempts]
           /\ sender \in [Senders -> Sender] /\ reader \in [Readers -> Reader]
           /\ ScanIds \subseteq Nat /\ None \notin ScanIds
BY DEF SoleInv, TakingTurns, SentInv, Types, TypeOK, Statuses, ScanIds, None

LEMMA Numbers ==
    ASSUME SoleInv
    PROVE  /\ shown \in Nat /\ (shown # None => shown \in ScanIds)
           /\ \A i \in ScanIds : i \in Nat /\ i # None
<1>1. ScanIds \subseteq Nat \ {0}
  BY DEF ScanIds
<1>2. shown \in ScanIds \cup {0}
  BY InvTypes DEF None
<1> QED
  BY <1>1, <1>2 DEF None

LEMMA Above ==
    \A a, b, m \in Nat : a > b => a # None /\ (b > m => a > m /\ a # m /\ ~(m > a))
BY DEF None

LEMMA StandingUsed ==
    ASSUME NEW i \in Standing
    PROVE  i \in ScanIds /\ Used(i)
BY DEF Standing, Used

LEMMA AheadOrders ==
    ASSUME Sent, NEW i \in ScanIds, NEW k \in ScanIds, Used(i), Used(k)
    PROVE  /\ Built(i) \in Nat
           /\ ~Ahead(i, i)
           /\ ~(Ahead(i, k) /\ Ahead(k, i))
           /\ i # k => Ahead(i, k) \/ Ahead(k, i)
<1>1. i \in Nat /\ k \in Nat
  BY DEF ScanIds
<1>2. Built(i) \in Nat /\ Built(k) \in Nat
  BY SubmissionsAssumption DEF Sent, Built
<1> QED
  BY <1>1, <1>2 DEF Ahead

LEMMA AheadCarries ==
    ASSUME Sent, NEW i \in ScanIds, NEW k \in ScanIds, NEW n \in ScanIds,
           Used(i), Used(k), Used(n), Ahead(i, k), Ahead(k, n)
    PROVE  Ahead(i, n)
<1>1. i \in Nat /\ k \in Nat /\ n \in Nat
  BY DEF ScanIds
<1>2. Built(i) \in Nat /\ Built(k) \in Nat /\ Built(n) \in Nat
  BY AheadOrders
<1> QED
  BY <1>1, <1>2 DEF Ahead

\* A step changes nothing of how two sent scans compare.
LEMMA AheadStays ==
    ASSUME SentInv, [Next]_vars, NEW i \in ScanIds, NEW k \in ScanIds, Used(i), Used(k)
    PROVE  Ahead(i, k)' <=> Ahead(i, k)
<1>1. scan'[i].of = scan[i].of /\ scan'[k].of = scan[k].of
  BY SentStays
<1> QED
  BY <1>1 DEF Ahead, Built

\* A step that leaves each row's status, submission and mark as they were, and
\* what is shown.
SameRows ==
    /\ UNCHANGED shown
    /\ \A i \in ScanIds : /\ scan'[i].status = scan[i].status /\ scan'[i].of = scan[i].of
                          /\ scan'[i].named = scan[i].named

LEMMA SameAnswers ==
    ASSUME SameRows
    PROVE  /\ Standing' = Standing
           /\ \A i \in ScanIds : Used(i)' = Used(i) /\ Named(i)' = Named(i)
           /\ \A i, k \in ScanIds : Ahead(i, k)' = Ahead(i, k)
           /\ \A i \in ScanIds : PassedBy(i)' = PassedBy(i) /\ Newest(i)' = Newest(i)
<1>1. Standing' = Standing
  BY DEF SameRows, Standing
<1>2. \A i \in ScanIds : Used(i)' = Used(i) /\ Named(i)' = Named(i)
  BY DEF SameRows, Used, Named
<1>3. \A i, k \in ScanIds : Ahead(i, k)' = Ahead(i, k)
  BY DEF SameRows, Ahead, Built
<1>4. Standing \subseteq ScanIds
  BY DEF Standing
<1>5. \A i \in ScanIds : PassedBy(i)' = PassedBy(i)
  BY <1>1, <1>3, <1>4 DEF PassedBy
<1>6. \A i \in ScanIds : Newest(i)' = Newest(i)
  BY <1>1, <1>3, <1>4 DEF Newest
<1> QED
  BY <1>1, <1>2, <1>3, <1>5, <1>6

----------------------------------------------------------------------------
(* What a step does to a reader. *)

\* r goes on with its job.
GoesOn(r, pc, failed) ==
    /\ reader'[r].pc = pc /\ reader'[r].failed = failed
    /\ reader'[r].job = reader[r].job /\ reader'[r].last = reader[r].last

LEMMA GoesEffect ==
    ASSUME Types, NEW r \in Readers, NEW pc, Goes(r, pc)
    PROVE  GoesOn(r, pc, reader[r].failed) /\ reader'[r].again = reader[r].again
<1>1. reader[r] \in Reader /\ reader \in [Readers -> Reader]
  BY DEF Types, TypeOK
<1>2. reader'[r] = [reader[r] EXCEPT !.pc = pc]
  BY <1>1 DEF Goes
<1> QED
  BY <1>1, <1>2 DEF GoesOn, Reader

LEMMA ReadsEffect ==
    ASSUME Types, NEW r \in Readers, NEW failed, Reads(r, failed)
    PROVE  GoesOn(r, "ending", failed)
<1>1. reader[r] \in Reader /\ reader \in [Readers -> Reader]
  BY DEF Types, TypeOK
<1>2. reader'[r] = [reader[r] EXCEPT !.pc = "ending", !.failed = failed]
  BY <1>1 DEF Reads
<1> QED
  BY <1>1, <1>2 DEF GoesOn, Reader

LEMMA FailsEffect ==
    ASSUME Types, NEW r \in Readers, Fails(r), Holds(r)
    PROVE  GoesOn(r, "recovering", TRUE)
<1>1. reader[r] \in Reader /\ reader \in [Readers -> Reader]
  BY DEF Types, TypeOK
<1>2. reader'[r] = [reader[r] EXCEPT !.pc = "recovering", !.failed = TRUE]
  BY <1>1 DEF Fails
<1> QED
  BY <1>1, <1>2 DEF GoesOn, Reader

----------------------------------------------------------------------------
(* Steps that turn the reader and write no table. *)

\* What was proved of every instance carries over.
LEMMA KeptBelow ==
    ASSUME SoleInv, Undisturbed, [Next]_vars
    PROVE  TakingTurns' /\ InTurn'
<1>1. OrderInv /\ Serial
  BY InvTypes DEF SoleInv, OrderInv, Undisturbed
<1> QED
  BY <1>1, TakingTurnsNext, OrderNext DEF SoleInv, OrderInv

LEMMA KeptRows ==
    ASSUME SoleInv, SameRows
    PROVE  InSequence' /\ ShownLeads'
<1>1. InSequence'
  BY SameAnswers DEF SoleInv, Tables, InSequence
<1>2. ShownLeads'
  <2>1. Standing \subseteq ScanIds
    BY DEF Standing
  <2>2. \A i \in ScanIds : scan'[i].named = scan[i].named
    BY DEF SameRows
  <2>3. UNCHANGED shown /\ (shown # None => shown \in ScanIds)
    BY InvTypes DEF SameRows
  <2> QED
    BY <2>1, <2>2, <2>3, SameAnswers DEF SoleInv, Tables, ShownLeads
<1> QED
  BY <1>1, <1>2

LEMMA KeptTablesHere ==
    ASSUME SoleInv, SameRows, UNCHANGED jobs
    PROVE  Tables'
<1>0. Types
  BY InvTypes
<1>1. \A j \in JobIds : status[j] # "absent" => names[j] \in ScanIds
  BY <1>0 DEF Types, TypeOK
<1>2. UNCHANGED <<status, names>>
  BY DEF jobs
<1>3. JobsApart'
  BY <1>1, <1>2 DEF SoleInv, Tables, JobsApart, Unspent, SameRows
<1>4. JobsFresh'
  BY <1>1, <1>2, SameAnswers DEF SoleInv, Tables, JobsFresh
<1> QED
  BY <1>3, <1>4, KeptRows DEF Tables

LEMMA KeptUploads ==
    ASSUME SoleInv, SameRows, UNCHANGED sender, NEW u \in Senders
    PROVE  OpenUpload(u)'
<1>1. OpenUpload(u)
  BY DEF SoleInv
<1>2. sender[u].writes \in ScanIds \cup {None} /\ sender[u].replaces \in ScanIds \cup {None}
  BY InvTypes DEF Sender
<1>3. Standing \subseteq ScanIds
  BY DEF Standing
<1> QED
  BY <1>1, <1>2, <1>3, SameAnswers DEF OpenUpload, SameRows

\* The reader turns, and nothing else does.
LEMMA TurnKeeps ==
    ASSUME SoleInv, Undisturbed, [Next]_vars, SameRows, UNCHANGED <<jobs, sender>>,
           NEW r \in Readers, reader[r].pc # "idle",
           NEW pc, NEW failed, GoesOn(r, pc, failed), pc # "idle",
           pc \in {"recovering", "reinstating", "adding"} => failed,
           pc \in {"reinstating", "adding"} => reader[r].last,
           ReaderFresh(r)', ReaderKnows(r)',
           \A m \in ScanIds : Newest(m) /\ OnItsWay(m) => OnItsWay(m)'
    PROVE  SoleInv'
<1>1. \A q \in Readers : q = r
  BY DEF Undisturbed
<1>2. Holds(r) /\ (reader[r].last <=> handed[reader[r].job] = MaxAttempts)
  BY DEF SoleInv, AtItsJob
<1>3. AtItsJob'
  BY <1>1, <1>2 DEF AtItsJob, GoesOn, Holds, jobs
<1>4. OutIsHeld'
  <2>1. ASSUME NEW j \in JobIds, status[j] = "out"
        PROVE  reader[r].job = j
    BY <1>1, <2>1 DEF SoleInv, OutIsHeld
  <2> QED
    BY <2>1 DEF OutIsHeld, GoesOn, jobs
<1>5. NewestOnItsWay'
  BY SameAnswers DEF SoleInv, NewestOnItsWay
<1> QED
  BY <1>1, <1>3, <1>4, <1>5, KeptBelow, KeptTablesHere, KeptUploads DEF SoleInv

\* A reader goes on, and what waited for its read or stood in line waits still.
LEMMA WayKept ==
    ASSUME SoleInv, Undisturbed, SameRows, UNCHANGED jobs,
           NEW r \in Readers, reader[r].pc \notin {"idle", "adding"},
           NEW pc, NEW failed, GoesOn(r, pc, failed),
           NEW m \in ScanIds, OnItsWay(m),
           reader[r].pc = "reinstating" /\ scan[Of(r)].status # "removed"
             => shown = m \/ BeingRead(m),
           Trying(r) /\ scan[Of(r)].status = "failed" /\ Ahead(Of(r), m) /\ Of(r) > m
             => Trying(r)'
    PROVE  OnItsWay(m)'
<1>1. \A q \in Readers : q = r
  BY DEF Undisturbed
<1>2. UNCHANGED <<status, names>>
  BY DEF jobs
<1>3. CASE shown = m
  BY <1>3 DEF OnItsWay, SameRows
<1>4. CASE BeingRead(m)
  BY <1>2, <1>4 DEF OnItsWay, BeingRead
<1>5. CASE \E j \in JobIds : Retried(j, m)
  <2>1. PICK j \in JobIds : Retried(j, m)
    BY <1>5
  <2>2. PICK k \in ScanIds : k = names[j]
    BY <2>1, InvTypes DEF Retried, Types, TypeOK
  <2>3. /\ status[j] \in {"waiting", "out"}
        /\ scan[k].status = "failed" /\ k > m /\ Ahead(k, m)
        /\ reader[r].job = j => Trying(r)
    BY <2>1, <2>2 DEF Retried
  <2>4. scan'[k].status = "failed" /\ Ahead(k, m)'
    BY <2>3, SameAnswers DEF SameRows
  <2>5. reader[r].job = j => Of(r) = k
    BY <2>2 DEF Of
  <2>6. reader'[r].job = j => Trying(r)'
    BY <2>3, <2>5 DEF GoesOn
  <2>7. Retried(j, m)'
    BY <1>1, <1>2, <2>2, <2>3, <2>4, <2>6 DEF Retried
  <2> QED
    BY <2>7 DEF OnItsWay
<1> QED
  BY <1>1, <1>3, <1>4, <1>5 DEF OnItsWay

\* The newest is one, and ahead of what is passed.
LEMMA NewestLeads ==
    ASSUME SoleInv, NEW m \in ScanIds, Newest(m)
    PROVE  /\ m \in Standing /\ Used(m)
           /\ \A n \in ScanIds : Newest(n) => n = m
           /\ \A i \in ScanIds : Used(i) /\ PassedBy(i) => ~Ahead(i, m)
           /\ ~PassedBy(m)
           /\ shown # None /\ shown # m => m > shown
           /\ scan[m].named => shown = m
<1>0. Sent /\ m \in Standing /\ Used(m) /\ \A n \in Standing \ {m} : Ahead(m, n)
  BY InvTypes, StandingUsed DEF Newest
<1>1. \A n \in Standing : n \in ScanIds /\ Used(n)
  BY StandingUsed
<1>2. \A n \in Standing : n # m => ~Ahead(n, m)
  BY <1>0, <1>1, AheadOrders
<1>3. \A n \in ScanIds : Newest(n) => n = m
  BY <1>0, <1>2 DEF Newest
<1>4. ASSUME NEW i \in ScanIds, Used(i), PassedBy(i), Ahead(i, m)
      PROVE  FALSE
  <2>1. PICK n \in Standing : Ahead(n, i)
    BY <1>4 DEF PassedBy
  <2>2. Ahead(n, m)
    BY <1>0, <1>1, <1>4, <2>1, AheadCarries
  <2>3. CASE n = m
    BY <1>0, <2>2, <2>3, AheadOrders
  <2>4. CASE n # m
    BY <1>2, <2>2, <2>4
  <2> QED
    BY <2>3, <2>4
<1>7. ~PassedBy(m)
  BY <1>0, <1>1, <1>2, AheadOrders DEF PassedBy
<1>5. ASSUME shown # None
      PROVE  /\ shown # m => m > shown
             /\ scan[m].named => shown = m
  <2>1. shown \in Standing /\ (shown # m => ~Ahead(shown, m))
    BY <1>2, <1>5 DEF SoleInv, Tables, ShownLeads
  <2>2. shown \in Nat /\ m \in Nat
    BY <1>0, <1>1, <2>1, InvTypes
  <2>3. shown > m => Ahead(shown, m)
    BY <1>0, <1>5 DEF SoleInv, Tables, ShownLeads
  <2>4. scan[m].named => m = shown \/ Ahead(shown, m)
    BY DEF SoleInv, Tables, ShownLeads
  <2> QED
    BY <2>1, <2>2, <2>3, <2>4
<1>6. scan[m].named => shown # None
  BY DEF SoleInv, Tables, ShownLeads
<1> QED
  BY <1>0, <1>3, <1>4, <1>5, <1>6, <1>7

\* A read that goes on to its write, or fails, or ends with nothing to do.
LEMMA ReadKeeps ==
    ASSUME SoleInv, Undisturbed, [Next]_vars, SameRows, UNCHANGED <<jobs, sender>>,
           NEW r \in Readers, reader[r].pc \in {"looking", "parsing", "applying", "letting go"},
           NEW pc \in {"parsing", "applying", "ending", "recovering"}, NEW failed \in BOOLEAN,
           GoesOn(r, pc, failed),
           pc = "recovering" => failed, pc = "ending" => ~failed,
           reader[r].pc = "letting go" => pc = "ending",
           pc \in {"parsing", "applying"} => scan[Of(r)].status # "removed",
           pc = "ending" => \/ scan[Of(r)].status = "removed"
                            \/ Overtaken(Of(r)) \/ Of(r) = shown
    PROVE  SoleInv'
<1>1. Of(r) \in ScanIds /\ Used(Of(r)) /\ Of(r)' = Of(r)
  <2>1. Of(r)' = Of(r)
    BY DEF GoesOn, Of, jobs
  <2> QED
    BY <2>1, InvTypes, AtWork DEF Sent, Of
<1>2. ReaderFresh(r)'
  <2>1. pc # "ending" => ~Named(Of(r))
    BY DEF SoleInv, ReaderFresh, Unread
  <2> QED
    BY <1>1, <2>1, SameAnswers DEF ReaderFresh, Unread, GoesOn
<1>3. Overtaken(Of(r)) /\ Of(r) \in Standing => PassedBy(Of(r))
  <2> SUFFICES ASSUME shown > Of(r), Of(r) \in Standing PROVE PassedBy(Of(r))
    BY DEF Overtaken
  <2>1. shown # None
    <3>1. shown \in Nat /\ Of(r) \in Nat
      BY <1>1, Numbers
    <3> QED
      BY <3>1, Above
  <2>2. shown \in Standing /\ Ahead(shown, Of(r))
    BY <2>1 DEF SoleInv, Tables, ShownLeads
  <2> QED
    BY <2>2 DEF PassedBy
<1>4. ReaderKnows(r)'
  <2>1. Of(r) \in Standing => scan[Of(r)].status # "removed"
    BY DEF Standing
  <2>2. pc = "ending" => Of(r) = shown \/ Of(r) \notin Standing \/ PassedBy(Of(r))
    BY <1>3, <2>1
  <2> QED
    BY <1>1, <2>2, SameAnswers DEF ReaderKnows, GoesOn, SameRows
<1>5. ASSUME NEW m \in ScanIds, Newest(m), OnItsWay(m)
      PROVE  OnItsWay(m)'
  <2>1. ASSUME scan[Of(r)].status = "failed", Ahead(Of(r), m), Of(r) > m
        PROVE  Trying(r)'
    <3>1. ~PassedBy(Of(r))
      BY <1>1, <1>5, <2>1, NewestLeads
    <3>2. Of(r) # shown
      BY <1>1, <2>1, InvTypes DEF SoleInv, Tables, ShownLeads, Standing
    <3>3. ~(shown > Of(r))
      <4> SUFFICES ASSUME shown > Of(r) PROVE FALSE
        OBVIOUS
      <4>1. shown \in Nat /\ m \in Nat /\ Of(r) \in Nat
        BY <1>1, Numbers
      <4>2. shown # None /\ shown # m /\ ~(m > shown)
        BY <2>1, <4>1, Above
      <4> QED
        BY <1>5, <4>2, NewestLeads
    <3>4. pc # "ending"
      BY <2>1, <3>1, <3>2, <3>3 DEF Overtaken
    <3> QED
      BY <3>4 DEF Trying, GoesOn
  <2> QED
    BY <1>5, <2>1, WayKept
<1> QED
  BY <1>2, <1>4, <1>5, TurnKeeps

LEMMA ReaderActs ==
    ASSUME SoleInv, Undisturbed, [Next]_vars, NEW r \in Readers,
           \/ Look(r) \/ ReadFails(r) \/ TakeBuild(r) \/ LetGo(r) \/ KeepsThem(r)
    PROVE  SoleInv'
<1>0. Types /\ reader[r] \in Reader
  BY InvTypes
<1>1. reader[r].pc # "idle" => Holds(r)
  BY DEF SoleInv, AtItsJob
<1>2. CASE Look(r)
  <2>1. SameRows /\ UNCHANGED <<jobs, sender>> /\ reader[r].pc = "looking"
    BY <1>2 DEF Look, SameRows
  <2> DEFINE i == Of(r)
  <2>2. CASE scan[i].status = "removed"
    <3>1. Reads(r, FALSE)
      BY <1>2, <2>2 DEF Look
    <3> QED
      BY <1>0, <2>1, <2>2, <3>1, ReadsEffect, ReadKeeps
  <2>3. CASE scan[i].status # "removed" /\ ~scan[i].held
    <3>1. Fails(r)
      BY <1>2, <2>3 DEF Look
    <3> QED
      BY <1>0, <1>1, <2>1, <3>1, FailsEffect, ReadKeeps
  <2>4. CASE scan[i].status # "removed" /\ scan[i].held /\ PassedBy(i)
    <3>1. Reads(r, FALSE)
      BY <1>2, <2>4 DEF Look
    <3> QED
      BY <1>0, <2>1, <2>4, <3>1, ReadsEffect, ReadKeeps DEF Overtaken
  <2>5. CASE scan[i].status # "removed" /\ scan[i].held /\ ~PassedBy(i)
    <3>1. Goes(r, "parsing")
      BY <1>2, <2>5 DEF Look
    <3>2. reader[r].failed \in BOOLEAN
      BY <1>0 DEF Reader
    <3> QED
      BY <1>0, <2>1, <2>5, <3>1, <3>2, GoesEffect, ReadKeeps
  <2>6. scan[i].held \in BOOLEAN
    BY <2>1, InvTypes, AtWork DEF Scan
  <2> QED
    BY <2>2, <2>3, <2>4, <2>5, <2>6
<1>3. CASE ReadFails(r)
  BY <1>0, <1>1, <1>3, FailsEffect, ReadKeeps DEF ReadFails, SameRows
<1>4. CASE TakeBuild(r)
  <2>1. SameRows /\ UNCHANGED <<jobs, sender>> /\ reader[r].pc = "parsing"
    BY <1>4 DEF TakeBuild, SameRows
  <2>2. CASE Overtaken(Of(r))
    <3>1. Reads(r, FALSE)
      BY <1>4, <2>2 DEF TakeBuild
    <3> QED
      BY <1>0, <2>1, <2>2, <3>1, ReadsEffect, ReadKeeps
  <2>3. CASE ~Overtaken(Of(r))
    <3>1. Goes(r, "applying")
      BY <1>4, <2>3 DEF TakeBuild
    <3>2. reader[r].failed \in BOOLEAN
      BY <1>0 DEF Reader
    <3>3. scan[Of(r)].status # "removed"
      BY <2>1, <2>3 DEF SoleInv, ReaderKnows, Overtaken
    <3> QED
      BY <1>0, <2>1, <3>1, <3>2, <3>3, GoesEffect, ReadKeeps
  <2> QED
    BY <2>2, <2>3
<1>5. CASE LetGo(r) \/ KeepsThem(r)
  <2>1. UNCHANGED <<jobs, sender, shown>> /\ reader[r].pc = "letting go" /\ Reads(r, FALSE)
    BY <1>5 DEF LetGo, KeepsThem
  <2>2. SameRows
    <3>1. CASE KeepsThem(r)
      BY <3>1 DEF KeepsThem, SameRows
    <3>2. CASE LetGo(r)
      <4>1. scan' = [scan EXCEPT ![Of(r)].held = FALSE] /\ UNCHANGED shown
        BY <3>2 DEF LetGo
      <4>2. \A i \in ScanIds : scan[i] \in Scan
        BY InvTypes
      <4> QED
        BY <4>1, <4>2, InvTypes DEF SameRows, Scan
    <3> QED
      BY <1>5, <3>1, <3>2
  <2>3. Of(r) = shown
    BY <2>1 DEF SoleInv, ReaderKnows
  <2> QED
    BY <1>0, <2>1, <2>2, <2>3, ReadsEffect, ReadKeeps
<1> QED
  BY <1>2, <1>3, <1>4, <1>5

LEMMA ReinstateActs ==
    ASSUME SoleInv, Undisturbed, [Next]_vars, NEW r \in Readers, Reinstate(r)
    PROVE  SoleInv'
<1>0. Types /\ reader \in [Readers -> Reader] /\ reader[r] \in Reader
  BY InvTypes
<1>1. /\ reader[r].pc = "reinstating" /\ reader[r].failed = TRUE /\ reader[r].last
      /\ UNCHANGED <<scan, shown, jobs, sender>>
  <2>1. reader[r].pc = "reinstating" /\ UNCHANGED <<scan, shown, jobs, sender>>
    BY DEF Reinstate
  <2>2. reader[r].failed /\ reader[r].last /\ reader[r].failed \in BOOLEAN
    BY <1>0, <2>1 DEF SoleInv, AtItsJob, Reader
  <2> QED
    BY <2>1, <2>2
<1>2. SameRows
  BY <1>1 DEF SameRows
<1>3. /\ Of(r) \in ScanIds /\ ~Named(Of(r))
      /\ scan[Of(r)].status \in {"failed", "removed"}
  BY <1>0, <1>1, AtWork DEF SoleInv, ReaderFresh, ReaderKnows, Unread
<1>4. ASSUME NEW pc, GoesOn(r, pc, TRUE)
      PROVE  Of(r)' = Of(r) /\ ~Named(Of(r))' /\ scan'[Of(r)] = scan[Of(r)]
  <2>1. Of(r)' = Of(r)
    BY <1>1, <1>4 DEF GoesOn, Of, jobs
  <2> QED
    BY <1>1, <1>3, <2>1 DEF Named
<1> DEFINE missing == {n \in ScanIds : Newest(n) /\ shown # n /\ ~BeingRead(n)}
<1>5. CASE scan[Of(r)].status = "removed" \/ missing = {}
  <2>1. GoesOn(r, "ending", TRUE)
    BY <1>0, <1>1, <1>5, GoesEffect DEF Reinstate
  <2>2. ReaderFresh(r)' /\ ReaderKnows(r)'
    BY <1>3, <1>4, <2>1 DEF ReaderFresh, ReaderKnows, GoesOn
  <2>3. ASSUME NEW m \in ScanIds, Newest(m), OnItsWay(m)
        PROVE  OnItsWay(m)'
    <3>1. ~Trying(r)
      BY <1>1 DEF Trying
    <3>2. scan[Of(r)].status # "removed" => shown = m \/ BeingRead(m)
      BY <1>5, <2>3
    <3> QED
      BY <1>1, <1>2, <2>1, <2>3, <3>1, <3>2, WayKept
  <2> QED
    BY <1>1, <1>2, <2>1, <2>2, <2>3, TurnKeeps
<1>6. CASE ~(scan[Of(r)].status = "removed" \/ missing = {})
  <2>1. PICK n \in missing : reader' = [reader EXCEPT ![r].pc = "adding", ![r].again = n]
    BY <1>6 DEF Reinstate
  <2>2. /\ n \in ScanIds /\ n \in Standing /\ scan[n].status = "accepted"
        /\ shown # n /\ ~BeingRead(n) /\ ~scan[n].named
        /\ \A m \in ScanIds : Newest(m) => m = n
    <3>1. n \in ScanIds /\ Newest(n) /\ shown # n /\ ~BeingRead(n)
      OBVIOUS
    <3> QED
      BY <3>1, NewestLeads DEF Standing
  <2>3. GoesOn(r, "adding", TRUE) /\ reader'[r].again = n
    <3>1. reader'[r] = [reader[r] EXCEPT !.pc = "adding", !.again = n]
      BY <1>0, <2>1
    <3> QED
      BY <1>0, <1>1, <3>1 DEF GoesOn, Reader
  <2>4. ASSUME NEW j \in JobIds, status[j] # "absent", names[j] = n, Unspent(j)
        PROVE  FALSE
    <3>1. status[j] = "failed"
      BY <2>2, <2>4 DEF Unspent, BeingRead
    <3>2. scan[n].status \in {"failed", "removed"}
      BY <2>4, <3>1 DEF SoleInv, Tables, JobsApart
    <3> QED
      BY <2>2, <3>2
  <2>5. ReaderFresh(r)'
    <3>1. n \in Standing' /\ ~Named(n)'
      BY <1>1, <2>2 DEF Standing, Named
    <3>2. \A j \in JobIds : status'[j] # "absent" /\ names'[j] = n => ~Unspent(j)'
      BY <1>1, <2>4 DEF Unspent, jobs
    <3> QED
      BY <1>4, <2>3, <3>1, <3>2 DEF ReaderFresh, GoesOn
  <2>6. ReaderKnows(r)'
    BY <1>3, <1>4, <2>3 DEF ReaderKnows, GoesOn
  <2>7. \A m \in ScanIds : Newest(m) /\ OnItsWay(m) => OnItsWay(m)'
    BY <2>2, <2>3 DEF OnItsWay, GoesOn
  <2> QED
    BY <1>1, <1>2, <2>3, <2>5, <2>6, <2>7, TurnKeeps
<1> QED
  BY <1>5, <1>6

----------------------------------------------------------------------------
(* Of the scans that stand, if any do, one is the newest. *)

LEMMA SomeNewest ==
    ASSUME Sent, Standing # {}
    PROVE  \E n \in ScanIds : Newest(n)
<1> DEFINE AheadOf(i) == {k \in Standing : Ahead(k, i)}
           T == {AheadOf(i) : i \in Standing}
<1>1. Standing \subseteq ScanIds /\ IsFiniteSet(ScanIds)
  BY BoundsAssumption, FS_Interval DEF Standing, ScanIds
<1>2. T \subseteq FiniteSubsetsOf(ScanIds) /\ T # {}
  <2>1. \A i \in Standing : AheadOf(i) \in SUBSET ScanIds
    BY <1>1
  <2>2. \A i \in Standing : IsFiniteSet(AheadOf(i))
    BY <1>1, <2>1, FS_Subset
  <2> QED
    BY <2>1, <2>2 DEF FiniteSubsetsOf
<1>3. PICK x \in T : \A y \in T : ~(<<y, x>> \in StrictSubsetOrdering(ScanIds))
  <2> HIDE DEF T
  <2> QED
    BY <1>2, FS_StrictSubsetOrderingWellFounded, WFMin
<1>4. PICK i \in Standing : x = AheadOf(i)
  OBVIOUS
<1>5. ASSUME NEW k \in Standing, Ahead(k, i)
      PROVE  FALSE
  <2>0. \A n \in Standing : n \in ScanIds /\ Used(n)
    BY StandingUsed
  <2>1. AheadOf(k) \subseteq x
    BY <1>4, <1>5, <2>0, AheadCarries
  <2>2. k \in x /\ k \notin AheadOf(k)
    BY <1>4, <1>5, <2>0, AheadOrders
  <2>3. AheadOf(k) \in T /\ AheadOf(k) \in SUBSET ScanIds /\ x \in SUBSET ScanIds
    BY <1>1, <1>4
  <2> QED
    BY <1>3, <2>1, <2>2, <2>3 DEF StrictSubsetOrdering
<1>6. \A k \in Standing \ {i} : Ahead(i, k)
  BY <1>5, StandingUsed, AheadOrders
<1> QED
  BY <1>1, <1>6 DEF Newest

----------------------------------------------------------------------------
(* Steps of the jobs. *)

\* What is left to show of a step that writes no row.
LEMMA JobsTurn ==
    ASSUME SoleInv, Undisturbed, [Next]_vars, SameRows, UNCHANGED sender,
           AtItsJob', OutIsHeld', JobsApart', JobsFresh',
           NEW r \in Readers, ReaderFresh(r)', ReaderKnows(r)',
           \A m \in ScanIds : Newest(m) /\ OnItsWay(m) => OnItsWay(m)'
    PROVE  SoleInv'
<1>1. \A q \in Readers : q = r
  BY DEF Undisturbed
<1>2. Tables'
  BY KeptRows DEF Tables
<1>3. NewestOnItsWay'
  BY SameAnswers DEF SoleInv, NewestOnItsWay
<1> QED
  BY <1>1, <1>2, <1>3, KeptBelow, KeptUploads DEF SoleInv

LEMMA ClaimActs ==
    ASSUME SoleInv, Undisturbed, [Next]_vars,
           NEW r \in Readers, NEW j \in JobIds, Claim(r, j)
    PROVE  SoleInv'
<1>0. /\ Types /\ reader \in [Readers -> Reader]
      /\ status \in [JobIds -> Statuses] /\ handed \in [JobIds -> 0 .. MaxAttempts]
      /\ by \in [JobIds -> Readers \cup {Nobody, Gone}]
      /\ \A q \in Readers : q = r
  BY InvTypes DEF Undisturbed, Types, TypeOK
<1>1. /\ reader[r].pc = "idle" /\ status[j] \in {"waiting", "out"}
      /\ status' = [status EXCEPT ![j] = "out"]
      /\ handed' = [handed EXCEPT ![j] = @ + 1]
      /\ by' = [by EXCEPT ![j] = r]
      /\ UNCHANGED <<scan, shown, names, sender>>
  BY DEF Claim, Queue!HandOut
<1>2. \A k \in JobIds : status[k] # "out"
  BY <1>0, <1>1 DEF SoleInv, OutIsHeld
<1>3. status[j] = "waiting" /\ names[j] \in ScanIds
  BY <1>0, <1>1, <1>2 DEF Types, TypeOK
<1>4. /\ reader'[r].pc = "looking" /\ reader'[r].job = j
      /\ reader'[r].last <=> handed'[j] = MaxAttempts
  <2>1. reader'[r] = [Resting EXCEPT !.pc = "looking", !.job = j, !.last = handed'[j] = MaxAttempts]
    BY <1>0 DEF Claim
  <2> QED
    BY <2>1 DEF Resting
<1>5. SameRows
  BY <1>1 DEF SameRows
<1>6. AtItsJob'
  BY <1>0, <1>1, <1>4 DEF AtItsJob, Holds
<1>7. OutIsHeld'
  BY <1>0, <1>1, <1>2, <1>4 DEF OutIsHeld
<1>8. JobsApart'
  <2>1. \A k \in JobIds : /\ Unspent(k)' <=> Unspent(k)
                          /\ status'[k] # "absent" => status[k] # "absent"
                          /\ status'[k] = "failed" => status[k] = "failed"
    BY <1>0, <1>1 DEF Unspent
  <2> QED
    BY <1>1, <2>1 DEF SoleInv, Tables, JobsApart
<1>9. ~Named(names[j])
  BY <1>3 DEF SoleInv, Tables, JobsFresh
<1>10. JobsFresh'
  BY <1>0, <1>1 DEF SoleInv, Tables, JobsFresh, Named
<1>11. ReaderFresh(r)' /\ ReaderKnows(r)'
  BY <1>1, <1>4, <1>9 DEF ReaderFresh, ReaderKnows, Of, Named
<1>12. ASSUME NEW m \in ScanIds, OnItsWay(m)
       PROVE  OnItsWay(m)'
  <2>1. CASE shown = m
    BY <1>1, <2>1 DEF OnItsWay
  <2>2. CASE BeingRead(m)
    BY <1>0, <1>1, <2>2 DEF OnItsWay, BeingRead
  <2>3. ASSUME NEW k \in JobIds, Retried(k, m)
        PROVE  OnItsWay(m)'
    <3>1. status'[k] \in {"waiting", "out"}
      BY <1>0, <1>1, <2>3 DEF Retried
    <3>2. Trying(r)'
      BY <1>4 DEF Trying
    <3>3. Ahead(names[k], m)' <=> Ahead(names[k], m)
      BY <1>1 DEF Ahead, Built
    <3> QED
      BY <1>0, <1>1, <2>3, <3>1, <3>2, <3>3 DEF OnItsWay, Retried
  <2> QED
    BY <1>0, <1>1, <1>12, <2>1, <2>2, <2>3 DEF OnItsWay
<1> QED
  BY <1>1, <1>5, <1>6, <1>7, <1>8, <1>10, <1>11, <1>12, JobsTurn

LEMMA EndActs ==
    ASSUME SoleInv, Undisturbed, [Next]_vars, NEW r \in Readers, End(r)
    PROVE  SoleInv'
<1> DEFINE j == reader[r].job
<1>0. /\ Types /\ reader \in [Readers -> Reader]
      /\ status \in [JobIds -> Statuses] /\ handed \in [JobIds -> 0 .. MaxAttempts]
      /\ \A q \in Readers : q = r
  BY InvTypes DEF Undisturbed
<1>1. /\ reader[r].pc = "ending" /\ Holds(r)
      /\ reader' = [reader EXCEPT ![r] = Resting]
      /\ UNCHANGED <<scan, shown, names, sender>>
  BY DEF End, SoleInv, AtItsJob
<1>2. j \in JobIds /\ status[j] = "out" /\ Of(r) \in ScanIds /\ Of(r) = names[j]
  BY <1>0, <1>1, AtWork DEF Holds, Of
<1>3. UNCHANGED handed /\
      \/ ~reader[r].failed /\ status' = [status EXCEPT ![j] = "done"]
      \/ reader[r].failed /\ ~reader[r].last /\ status' = [status EXCEPT ![j] = "waiting"]
      \/ reader[r].failed /\ reader[r].last /\ status' = [status EXCEPT ![j] = "failed"]
  <2>1. reader[r].last <=> handed[j] = MaxAttempts
    BY <1>1 DEF SoleInv, AtItsJob
  <2>2. Queue!Return(j) => ~reader[r].last
    BY <1>0, <1>2, <2>1, BoundsAssumption DEF Queue!Return
  <2>3. Queue!GiveUp({j}) => reader[r].last /\ status' = [status EXCEPT ![j] = "failed"]
    BY <1>0, <2>1 DEF Queue!GiveUp
  <2> QED
    BY <1>1, <2>2, <2>3 DEF End, Queue!Finish, Queue!Return, Queue!GiveUp
<1>4. /\ \A k \in JobIds : k # j => status'[k] = status[k]
      /\ status'[j] \in {"done", "waiting", "failed"}
      /\ status'[j] = "waiting" => reader[r].failed /\ ~reader[r].last
      /\ status'[j] = "failed" => reader[r].failed /\ reader[r].last
      /\ status'[j] = "done" => ~reader[r].failed
  BY <1>0, <1>2, <1>3
<1>5. reader'[r].pc = "idle"
  BY <1>0, <1>1 DEF Resting
<1>6. SameRows
  BY <1>1 DEF SameRows
<1>7. AtItsJob'
  BY <1>0, <1>5 DEF AtItsJob
<1>8. OutIsHeld'
  <2>1. \A k \in JobIds : status[k] = "out" => k = j
    BY <1>0 DEF SoleInv, OutIsHeld
  <2> QED
    BY <1>4, <2>1 DEF OutIsHeld
<1>9. reader[r].failed => scan[Of(r)].status \in {"failed", "removed"} /\ ~Named(Of(r))
  BY <1>1 DEF SoleInv, ReaderKnows, ReaderFresh, Unread
<1>10. JobsApart'
  <2>1. \A k \in JobIds : /\ Unspent(k)' => Unspent(k)
                          /\ status'[k] # "absent" => status[k] # "absent"
                          /\ status'[k] = "failed" => status[k] = "failed" \/ k = j
    BY <1>2, <1>4 DEF Unspent
  <2> QED
    BY <1>1, <1>2, <1>4, <1>9, <2>1 DEF SoleInv, Tables, JobsApart
<1>11. JobsFresh'
  BY <1>1, <1>2, <1>4, <1>9 DEF SoleInv, Tables, JobsFresh, Named
<1>12. ReaderFresh(r)' /\ ReaderKnows(r)'
  BY <1>5 DEF ReaderFresh, ReaderKnows, Unread
<1>13. ASSUME NEW m \in ScanIds, Newest(m), OnItsWay(m)
       PROVE  OnItsWay(m)'
  <2>0. m \in Standing /\ ~PassedBy(m) /\ scan[m].status = "accepted"
    BY <1>13, NewestLeads DEF Standing
  <2>1. CASE shown = m
    BY <1>1, <2>1 DEF OnItsWay
  <2>2. CASE BeingRead(m)
    <3>1. PICK k \in JobIds : names[k] = m /\ status[k] \in {"waiting", "out"}
      BY <2>2 DEF BeingRead
    <3>2. CASE k # j
      BY <1>1, <1>4, <3>1, <3>2 DEF OnItsWay, BeingRead
    <3>3. CASE k = j
      <4>1. Of(r) = m /\ ~reader[r].failed
        BY <1>2, <1>9, <2>0, <3>1, <3>3
      <4>2. shown = m
        BY <1>1, <2>0, <4>1 DEF SoleInv, ReaderKnows
      <4> QED
        BY <2>1, <4>2
    <3> QED
      BY <3>2, <3>3
  <2>3. ASSUME NEW k \in JobIds, Retried(k, m)
        PROVE  OnItsWay(m)'
    <3>1. k = j => reader[r].failed /\ ~reader[r].last
      BY <1>1, <2>3 DEF Retried, Trying
    <3>2. status'[k] \in {"waiting", "out"}
      BY <1>4, <2>3, <3>1 DEF Retried
    <3>3. Ahead(names[k], m)' <=> Ahead(names[k], m)
      BY <1>1 DEF Ahead, Built
    <3> QED
      BY <1>0, <1>1, <1>5, <2>3, <3>2, <3>3 DEF OnItsWay, Retried
  <2> QED
    BY <1>0, <1>1, <1>13, <2>1, <2>2, <2>3 DEF OnItsWay
<1> QED
  BY <1>1, <1>6, <1>7, <1>8, <1>10, <1>11, <1>12, <1>13, JobsTurn

\* j is a new job of i.
AddedFor(i, j) ==
    /\ status[j] = "absent" /\ status'[j] = "waiting" /\ names'[j] = i
    /\ \A k \in JobIds \ {j} : status'[k] = status[k] /\ names'[k] = names[k]
    /\ UNCHANGED <<handed, by>>

LEMMA AddEffect ==
    ASSUME Types, NEW i \in ScanIds, AddParse(i)
    PROVE  \E j \in JobIds : AddedFor(i, j)
<1>1. status \in [JobIds -> Statuses] /\ names \in [JobIds -> ScanIds \cup {None}]
  BY DEF Types, TypeOK, Statuses
<1>2. PICK j \in JobIds : /\ status[j] = "absent" /\ status' = [status EXCEPT ![j] = "waiting"]
                          /\ names' = [names EXCEPT ![j] = i] /\ UNCHANGED <<handed, by>>
  BY DEF AddParse, Queue!Submit
<1> QED
  BY <1>1, <1>2 DEF AddedFor

\* The new job's scan stands, nothing names it, and no other job will read it.
LEMMA AddedTables ==
    ASSUME SoleInv, NEW i \in ScanIds, NEW j \in JobIds, AddedFor(i, j),
           \A k \in JobIds : status[k] # "absent" /\ names[k] = i => ~Unspent(k),
           scan'[i].status = "accepted", ~Named(i)',
           \A k \in JobIds, s \in ScanIds : status[k] # "absent" /\ names[k] = s =>
              /\ scan'[s].status \in {scan[s].status, "removed"}
              /\ Named(s)' <=> Named(s)
    PROVE  JobsApart' /\ JobsFresh'
<1>1. \A k \in JobIds \ {j} : /\ Unspent(k)' <=> Unspent(k)
                              /\ status'[k] = status[k] /\ names'[k] = names[k]
  BY DEF AddedFor, Unspent
<1>2. status'[j] = "waiting" /\ names'[j] = i
  BY DEF AddedFor
<1>3. \A k \in JobIds \ {j} : Unspent(k)' => names'[k] # i
  BY <1>1 DEF Unspent
<1>4. JobsApart'
  <2>1. ASSUME NEW a \in JobIds, NEW b \in JobIds, Unspent(a)', Unspent(b)', names'[a] = names'[b]
        PROVE  a = b
    <3>1. CASE a # j /\ b # j
      BY <1>1, <2>1, <3>1 DEF SoleInv, Tables, JobsApart
    <3>2. CASE a = j \/ b = j
      BY <1>2, <1>3, <2>1, <3>2
    <3> QED
      BY <3>1, <3>2
  <2>2. ASSUME NEW a \in JobIds, status'[a] # "absent"
        PROVE  /\ scan'[names'[a]].status \notin {"unused", "arriving"}
               /\ status'[a] = "failed" => scan'[names'[a]].status \in {"failed", "removed"}
    <3>1. CASE a = j
      BY <1>2, <3>1
    <3>2. CASE a # j
      <4>1. status[a] # "absent" /\ status'[a] = status[a] /\ names'[a] = names[a]
        BY <1>1, <2>2, <3>2
      <4>2. PICK s \in ScanIds : s = names[a]
        BY <4>1, InvTypes DEF Types, TypeOK
      <4>3. scan'[s].status \in {scan[s].status, "removed"}
        BY <4>1, <4>2
      <4> QED
        BY <4>1, <4>2, <4>3 DEF SoleInv, Tables, JobsApart
    <3> QED
      BY <3>1, <3>2
  <2> QED
    BY <2>1, <2>2 DEF JobsApart
<1>5. JobsFresh'
  <2> SUFFICES ASSUME NEW a \in JobIds, status'[a] \in {"waiting", "failed"}
               PROVE  ~Named(names[a])'
    BY DEF JobsFresh
  <2>1. CASE a = j
    BY <1>2, <2>1 DEF Named
  <2>2. CASE a # j
    <3>1. ~Named(names[a]) /\ status[a] # "absent" /\ names'[a] = names[a]
      BY <1>1, <2>2 DEF SoleInv, Tables, JobsFresh
    <3>2. PICK s \in ScanIds : s = names[a]
      BY <3>1, InvTypes DEF Types, TypeOK
    <3>3. ~Named(s)'
      BY <3>1, <3>2
    <3> QED
      BY <3>1, <3>2, <3>3 DEF Named
  <2> QED
    BY <2>1, <2>2
<1> QED
  BY <1>4, <1>5

\* The reader that is at work is left its job, and goes on or stays.
LEMMA AddedHeld ==
    ASSUME SoleInv, Undisturbed, NEW i, NEW j \in JobIds, AddedFor(i, j),
           NEW r \in Readers,
           \/ reader'[r] = reader[r]
           \/ reader[r].pc # "idle" /\ GoesOn(r, "ending", TRUE)
    PROVE  /\ AtItsJob' /\ OutIsHeld'
           /\ reader[r].pc # "idle" => Of(r)' = Of(r)
<1>1. /\ \A q \in Readers : q = r
      /\ reader'[r].job = reader[r].job /\ reader'[r].last = reader[r].last
      /\ reader'[r].pc = "idle" <=> reader[r].pc = "idle"
  BY DEF Undisturbed, GoesOn
<1>2. reader[r].pc # "idle" => reader[r].job \in JobIds /\ reader[r].job # j
  BY InvTypes, AtWork DEF AddedFor
<1>3. AtItsJob'
  BY <1>1, <1>2 DEF SoleInv, AtItsJob, AddedFor, Holds, GoesOn
<1>4. OutIsHeld'
  BY <1>1 DEF SoleInv, OutIsHeld, AddedFor
<1>5. reader[r].pc # "idle" => Of(r)' = Of(r)
  BY <1>1, <1>2 DEF Of, AddedFor
<1> QED
  BY <1>3, <1>4, <1>5

LEMMA ReinstateAddsActs ==
    ASSUME SoleInv, Undisturbed, [Next]_vars, NEW r \in Readers, ReinstateAdds(r)
    PROVE  SoleInv'
<1> DEFINE n == reader[r].again
<1>0. Types /\ reader[r] \in Reader /\ \A q \in Readers : q = r
  BY InvTypes DEF Undisturbed
<1>1. /\ reader[r].pc = "adding" /\ n \in ScanIds /\ AddParse(n) /\ Goes(r, "ending")
      /\ UNCHANGED <<scan, shown, sender>>
  BY <1>0 DEF ReinstateAdds, Types, Reread
<1>2. PICK j \in JobIds : AddedFor(n, j)
  BY <1>0, <1>1, AddEffect
<1>3. GoesOn(r, "ending", TRUE)
  <2>1. reader[r].failed = TRUE
    BY <1>0, <1>1 DEF SoleInv, AtItsJob, Reader
  <2> QED
    BY <1>0, <1>1, <2>1, GoesEffect
<1>4. AtItsJob' /\ OutIsHeld' /\ Of(r)' = Of(r)
  BY <1>1, <1>2, <1>3, AddedHeld
<1>5. /\ n \in Standing /\ ~Named(n)
      /\ \A k \in JobIds : status[k] # "absent" /\ names[k] = n => ~Unspent(k)
      /\ ~Named(Of(r)) /\ scan[Of(r)].status \in {"failed", "removed"}
  BY <1>1 DEF SoleInv, ReaderFresh, ReaderKnows, Unread
<1>6. JobsApart' /\ JobsFresh'
  <2>1. \A i \in ScanIds : Named(i)' <=> Named(i)
    BY <1>1 DEF Named
  <2>2. PICK i \in ScanIds : i = n
    BY <1>1
  <2>3. /\ scan'[i].status = "accepted" /\ ~Named(i)' /\ AddedFor(i, j)
        /\ \A k \in JobIds : status[k] # "absent" /\ names[k] = i => ~Unspent(k)
    BY <1>1, <1>2, <1>5, <2>1, <2>2 DEF Standing
  <2> QED
    BY <1>1, <2>1, <2>3, AddedTables
<1>7. ReaderFresh(r)' /\ ReaderKnows(r)'
  BY <1>1, <1>3, <1>4, <1>5 DEF ReaderFresh, ReaderKnows, GoesOn, Named
<1>8. ASSUME NEW m \in ScanIds, Newest(m), OnItsWay(m)
      PROVE  OnItsWay(m)'
  <2>1. CASE shown = m
    BY <1>1, <2>1 DEF OnItsWay
  <2>2. CASE BeingRead(m) \/ n = m
    BY <1>2, <2>2 DEF OnItsWay, BeingRead, AddedFor
  <2>3. ASSUME NEW k \in JobIds, Retried(k, m)
        PROVE  OnItsWay(m)'
    <3>1. reader[r].job # k
      BY <1>1, <2>3 DEF Retried, Trying
    <3>2. k # j
      BY <1>2, <2>3 DEF Retried, AddedFor
    <3>3. Ahead(names[k], m)' <=> Ahead(names[k], m)
      <4>1. names'[k] = names[k]
        BY <1>2, <3>2 DEF AddedFor
      <4> QED
        BY <1>1, <4>1 DEF Ahead, Built
    <3> QED
      BY <1>0, <1>1, <1>2, <1>3, <2>3, <3>1, <3>2, <3>3 DEF OnItsWay, Retried, AddedFor, GoesOn
  <2> QED
    BY <1>0, <1>1, <1>8, <2>1, <2>2, <2>3 DEF OnItsWay
<1>9. SameRows
  BY <1>1 DEF SameRows
<1> QED
  BY <1>1, <1>4, <1>6, <1>7, <1>8, <1>9, JobsTurn

LEMMA RequeueActs ==
    ASSUME SoleInv, Undisturbed, [Next]_vars, NEW j \in JobIds, Requeue(j)
    PROVE  SoleInv'
<1>0. /\ status \in [JobIds -> Statuses] /\ handed \in [JobIds -> 0 .. MaxAttempts]
  BY InvTypes
<1>1. /\ status[j] = "failed" /\ status' = [status EXCEPT ![j] = "waiting"]
      /\ \A k \in JobIds : k # j => handed'[k] = handed[k]
      /\ UNCHANGED <<scan, shown, names, by, sender, reader>>
  BY <1>0 DEF Requeue, Queue!Resubmit
<1>2. SameRows
  BY <1>1 DEF SameRows
<1>3. \A k \in JobIds : /\ k # j => status'[k] = status[k]
                        /\ status'[k] \in {"waiting", "out"} <=>
                              status[k] \in {"waiting", "out"} \/ k = j
                        /\ status'[k] = "out" <=> status[k] = "out"
                        /\ status'[k] \in {"waiting", "failed"} <=> status[k] \in {"waiting", "failed"}
                        /\ Unspent(k)' <=> Unspent(k)
                        /\ status'[k] # "absent" <=> status[k] # "absent"
                        /\ status'[k] = "failed" => status[k] = "failed"
  BY <1>0, <1>1 DEF Unspent
<1>4. AtItsJob' /\ OutIsHeld'
  <2>1. \A r \in Readers : reader[r].pc # "idle" => reader[r].job \in JobIds /\ reader[r].job # j
    BY <1>1, InvTypes, AtWork DEF SoleInv, AtItsJob, Holds
  <2> QED
    BY <1>1, <1>3, <2>1 DEF SoleInv, AtItsJob, OutIsHeld, Holds
<1>5. JobsApart' /\ JobsFresh'
  BY <1>1, <1>3 DEF SoleInv, Tables, JobsApart, JobsFresh, Named
<1>6. ASSUME NEW r \in Readers
      PROVE  ReaderFresh(r)' /\ ReaderKnows(r)'
  <2>1. Of(r)' = Of(r) /\ PassedBy(Of(r))' = PassedBy(Of(r)) /\ Standing' = Standing
    BY <1>1 DEF Of, PassedBy, Standing, Ahead, Built
  <2>2. ReaderFresh(r)'
    BY <1>1, <1>3, <2>1 DEF SoleInv, ReaderFresh, Unread, Named
  <2>3. ReaderKnows(r)'
    BY <1>1, <2>1 DEF SoleInv, ReaderKnows
  <2> QED
    BY <2>2, <2>3
<1>7. ASSUME NEW m \in ScanIds, OnItsWay(m)
      PROVE  OnItsWay(m)'
  <2>1. BeingRead(m) => BeingRead(m)'
    BY <1>1, <1>3 DEF BeingRead
  <2>2. \A r \in Readers : Trying(r)' = Trying(r) /\ Of(r)' = Of(r)
    BY <1>1 DEF Trying, Of
  <2>3. \A k \in JobIds : Retried(k, m) => Retried(k, m)'
    BY <1>1, <1>3, <2>2 DEF Retried, Ahead, Built
  <2> QED
    BY <1>1, <1>7, <2>1, <2>2, <2>3 DEF OnItsWay
<1>8. CASE Readers = {}
  <2>1. NewestOnItsWay' /\ Tables'
    BY <1>2, <1>5, <1>7, SameAnswers, KeptRows DEF SoleInv, NewestOnItsWay, Tables
  <2> QED
    BY <1>1, <1>2, <1>4, <1>8, <2>1, KeptBelow, KeptUploads DEF SoleInv
<1>9. CASE Readers # {}
  <2>1. PICK r \in Readers : TRUE
    BY <1>9
  <2> QED
    BY <1>1, <1>2, <1>4, <1>5, <1>6, <1>7, <2>1, JobsTurn
<1> QED
  BY <1>8, <1>9

----------------------------------------------------------------------------
(* Steps of an upload.  What no job can name yet may come and go. *)

Known(i) == scan[i].status \in {"accepted", "failed", "removed"}

QuietRows ==
    /\ UNCHANGED <<shown, jobs, reader>>
    /\ \A i \in ScanIds :
          /\ scan'[i].named = scan[i].named
          /\ Known(i) => scan'[i].status = scan[i].status /\ scan'[i].of = scan[i].of
          /\ ~Known(i) => scan'[i].status \notin {"accepted", "failed"}

LEMMA QuietAnswers ==
    ASSUME QuietRows
    PROVE  /\ Standing' = Standing
           /\ \A i \in ScanIds : Named(i)' = Named(i)
           /\ \A i, k \in ScanIds : Known(i) /\ Known(k) => Ahead(i, k)' = Ahead(i, k)
           /\ \A i \in ScanIds : Newest(i)' = Newest(i)
           /\ \A i \in ScanIds : Known(i) => PassedBy(i)' = PassedBy(i)
<1>1. \A i \in ScanIds : scan'[i].status = "accepted" <=> scan[i].status = "accepted"
  BY DEF QuietRows, Known
<1>2. Standing' = Standing /\ \A i \in Standing : i \in ScanIds /\ Known(i)
  BY <1>1 DEF Standing, Known
<1>3. \A i \in ScanIds : Named(i)' = Named(i)
  BY DEF QuietRows, Named
<1>4. \A i, k \in ScanIds : Known(i) /\ Known(k) => Ahead(i, k)' = Ahead(i, k)
  BY DEF QuietRows, Ahead, Built
<1>5. \A i \in ScanIds : Newest(i)' = Newest(i)
  BY <1>2, <1>4 DEF Newest
<1>6. \A i \in ScanIds : Known(i) => PassedBy(i)' = PassedBy(i)
  BY <1>2, <1>4 DEF PassedBy
<1> QED
  BY <1>2, <1>3, <1>4, <1>5, <1>6

\* What a job names has been sent and is not on its way.
LEMMA JobsName ==
    ASSUME SoleInv, NEW j \in JobIds, status[j] # "absent"
    PROVE  names[j] \in ScanIds /\ Known(names[j])
<1>1. names[j] \in ScanIds
  BY InvTypes DEF Types, TypeOK
<1>2. scan[names[j]].status \notin {"unused", "arriving"}
  BY DEF SoleInv, Tables, JobsApart
<1> QED
  BY <1>1, <1>2, InvTypes DEF Known, Scan

LEMMA ReaderNames ==
    ASSUME SoleInv, NEW r \in Readers, reader[r].pc # "idle"
    PROVE  Of(r) \in ScanIds /\ Known(Of(r))
BY InvTypes, AtWork, JobsName DEF Of

LEMMA QuietKeeps ==
    ASSUME SoleInv, Undisturbed, [Next]_vars, QuietRows,
           InSequence', \A u \in Senders : OpenUpload(u)'
    PROVE  SoleInv'
<1>1. UNCHANGED <<shown, reader, status, handed, names, by>>
  BY DEF QuietRows, jobs
<1>2. \A i \in ScanIds : Known(i) => scan'[i].status = scan[i].status
  BY DEF QuietRows
<1>3. AtItsJob' /\ OutIsHeld'
  BY <1>1 DEF SoleInv, AtItsJob, OutIsHeld, Holds
<1>4. JobsApart'
  <2>1. ASSUME NEW j \in JobIds, status[j] # "absent"
        PROVE  scan'[names[j]].status = scan[names[j]].status
    BY <1>2, <2>1, JobsName
  <2> QED
    BY <1>1, <2>1 DEF SoleInv, Tables, JobsApart, Unspent
<1>5. JobsFresh'
  <2> SUFFICES ASSUME NEW j \in JobIds, status[j] \in {"waiting", "failed"}
               PROVE  ~Named(names[j])'
    BY <1>1 DEF JobsFresh
  <2>1. PICK i \in ScanIds : i = names[j]
    BY JobsName
  <2>2. ~Named(i)'
    BY <2>1, QuietAnswers DEF SoleInv, Tables, JobsFresh
  <2> QED
    BY <1>1, <2>1, <2>2 DEF Named
<1>6. ShownLeads'
  <2>1. \A i \in Standing : i \in ScanIds /\ Known(i)
    BY DEF Standing, Known
  <2>2. shown # None => shown \in Standing
    BY DEF SoleInv, Tables, ShownLeads
  <2>3. \A i \in ScanIds : scan'[i].named = scan[i].named
    BY DEF QuietRows
  <2> QED
    BY <1>1, <2>1, <2>2, <2>3, QuietAnswers DEF SoleInv, Tables, ShownLeads
<1>7. ASSUME NEW r \in Readers
      PROVE  ReaderFresh(r)' /\ ReaderKnows(r)'
  <2>1. CASE reader[r].pc = "idle"
    BY <1>1, <2>1 DEF ReaderFresh, ReaderKnows, Unread
  <2>2. CASE reader[r].pc # "idle"
    <3>1. PICK i \in ScanIds : i = Of(r) /\ Known(i)
      BY <2>2, ReaderNames
    <3>2. Of(r)' = i /\ Unread(r)' = Unread(r)
      BY <1>1, <3>1 DEF Of, Unread
    <3>3. /\ Named(i)' = Named(i) /\ scan'[i].status = scan[i].status
          /\ PassedBy(i)' = PassedBy(i) /\ Standing' = Standing
      BY <1>2, <3>1, QuietAnswers
    <3>4. ReaderKnows(r)'
      BY <1>1, <3>1, <3>2, <3>3 DEF SoleInv, ReaderKnows
    <3>5. reader[r].pc = "adding" =>
            /\ reader[r].again \in Standing' /\ ~Named(reader[r].again)'
            /\ \A j \in JobIds : status'[j] # "absent" /\ names'[j] = reader[r].again => ~Unspent(j)'
      <4>1. reader[r].pc = "adding" => reader[r].again \in ScanIds
        BY InvTypes DEF Types, Reread
      <4>2. \A k \in ScanIds : scan'[k].named = scan[k].named
        BY DEF QuietRows
      <4>3. reader[r].pc = "adding" => ~Named(reader[r].again)'
        BY <1>1, <4>1, <4>2 DEF SoleInv, ReaderFresh, Named
      <4>4. \A j \in JobIds : Unspent(j)' = Unspent(j)
        BY <1>1 DEF Unspent
      <4> QED
        BY <1>1, <3>3, <4>3, <4>4 DEF SoleInv, ReaderFresh
    <3> QED
      BY <1>1, <3>1, <3>2, <3>3, <3>4, <3>5 DEF SoleInv, ReaderFresh
  <2> QED
    BY <2>1, <2>2
<1>8. NewestOnItsWay'
  <2> SUFFICES ASSUME NEW m \in ScanIds, Newest(m), OnItsWay(m)
               PROVE  OnItsWay(m)'
    BY QuietAnswers DEF SoleInv, NewestOnItsWay
  <2>1. Known(m)
    BY DEF Newest, Standing, Known
  <2>2. BeingRead(m) => BeingRead(m)'
    BY <1>1 DEF BeingRead
  <2>3. ASSUME NEW j \in JobIds, Retried(j, m)
        PROVE  Retried(j, m)'
    <3>1. PICK k \in ScanIds : k = names[j] /\ Known(k)
      BY <2>3, JobsName DEF Retried
    <3>2. scan'[k].status = "failed" /\ Ahead(k, m)'
      BY <1>2, <2>1, <2>3, <3>1, QuietAnswers DEF Retried
    <3>3. \A r \in Readers : Trying(r)' = Trying(r)
      BY <1>1 DEF Trying
    <3> QED
      BY <1>1, <2>3, <3>1, <3>2, <3>3 DEF Retried, Ahead, Built
  <2>4. ASSUME NEW r \in Readers, reader[r].pc = "reinstating", scan[Of(r)].status # "removed"
        PROVE  OnItsWay(m)'
    <3>1. scan'[Of(r)].status # "removed" /\ Of(r)' = Of(r)
      BY <1>1, <1>2, <2>4, ReaderNames DEF Of
    <3> QED
      BY <1>1, <2>4, <3>1 DEF OnItsWay
  <2> QED
    BY <1>1, <2>2, <2>3, <2>4 DEF OnItsWay
<1> QED
  BY <1>3, <1>4, <1>5, <1>6, <1>7, <1>8, KeptBelow DEF SoleInv, Tables

LEMMA UnchangedActs ==
    ASSUME SoleInv, Undisturbed, [Next]_vars, UNCHANGED vars
    PROVE  SoleInv'
<1>1. SameRows /\ UNCHANGED <<shown, jobs, reader, sender, scan>>
  BY DEF SameRows, vars
<1>2. QuietRows
  BY <1>1 DEF QuietRows, Known
<1> QED
  BY <1>1, <1>2, QuietKeeps, KeptRows, KeptUploads

\* Nothing an upload wrote is open.
LEMMA ClosedUpload ==
    ASSUME NEW u \in Senders, sender'[u] = NoUpload
    PROVE  OpenUpload(u)'
BY DEF OpenUpload, NoUpload

LEMMA UploadNewActs ==
    ASSUME SoleInv, Undisturbed, [Next]_vars,
           NEW u \in Senders, NEW s \in Submissions, UploadNew(u, s)
    PROVE  SoleInv'
<1>0. /\ SentInv /\ Sent /\ scan \in [ScanIds -> Scan] /\ sender \in [Senders -> Sender] /\ Serial
      /\ InSequence
  BY InvTypes DEF Undisturbed, SoleInv, Tables
<1>1. /\ sender[u] = NoUpload /\ Alone(u) /\ Taken(s)
      /\ \A i \in Seen(s) : ~Named(i)
      /\ UNCHANGED <<shown, jobs, reader, events>>
  BY DEF UploadNew
<1>2. PICK new \in ScanIds, old \in ScanIds \cup {None} :
        /\ NextScan(new)
        /\ IF Seen(s) = {} THEN old = None ELSE old \in Seen(s)
        /\ scan' = [scan EXCEPT ![new] = [status |-> "arriving", of |-> s,
                                          held |-> TRUE, named |-> FALSE]]
        /\ sender' = [sender EXCEPT ![u] = [writes |-> new, replaces |-> old]]
  BY DEF UploadNew
<1>3. /\ scan'[new].status = "arriving" /\ scan'[new].of = s /\ scan'[new].named = FALSE
      /\ \A i \in ScanIds : i # new => scan'[i] = scan[i]
      /\ scan[new].status = "unused" /\ scan[new].named = FALSE
  <2>1. new \notin Standing
    BY <1>2 DEF NextScan, Standing
  <2>2. scan[new].named \in BOOLEAN
    BY <1>0 DEF Scan
  <2> QED
    BY <1>0, <1>2, <2>1, <2>2 DEF NextScan, SoleInv, Tables, ShownLeads
<1>4. QuietRows
  BY <1>1, <1>3 DEF QuietRows, Known
<1>5. \A k \in ScanIds : k >= new => ~Used(k)
  BY <1>0, <1>3 DEF InSequence, Used
<1>6. \A k \in ScanIds : Used(k)' <=> Used(k) \/ k = new
  BY <1>3 DEF Used
<1>7. InSequence'
  <2> SUFFICES ASSUME NEW i \in ScanIds, NEW j \in ScanIds, i <= j, ~Used(i), i # new
               PROVE  ~Used(j) /\ j # new
    BY <1>6 DEF InSequence
  <2>1. ~Used(j)
    BY <1>0 DEF InSequence
  <2>2. new <= i /\ i \in Nat /\ j \in Nat /\ new \in Nat
    BY <1>2 DEF NextScan, Used, ScanIds
  <2> QED
    BY <2>1, <2>2
<1>8. ASSUME NEW n \in Standing
      PROVE  Ahead(new, n)'
  <2>1. n \in ScanIds /\ Used(n) /\ Known(n)
    BY StandingUsed DEF Standing, Known
  <2>2. PICK top \in ScanIds : Newest(top)
    BY <1>0, SomeNewest
  <2>3. top \in Standing /\ Used(top) /\ Known(top) /\ (n # top => Ahead(top, n))
    BY <2>2, StandingUsed DEF Newest, Standing, Known
  <2>4. Ahead(new, top)'
    <3>1. BuiltAt[s] > Built(top) \/ Built(top) = BuiltAt[s]
      BY <1>1, <2>2 DEF Taken, SameInventory
    <3>2. new > top
      BY <1>5, <2>3 DEF ScanIds
    <3>3. Built(new)' = BuiltAt[s] /\ Built(top)' = Built(top)
      BY <1>3, <2>3 DEF Built, Used
    <3> QED
      BY <3>1, <3>2, <3>3 DEF Ahead
  <2>5. n # top => Ahead(top, n)'
    BY <1>4, <2>1, <2>3, QuietAnswers
  <2>6. Used(new)' /\ Used(n)' /\ Used(top)' /\ Sent'
    BY <1>0, <1>6, <2>1, <2>3, SentNext DEF SentInv
  <2>7. n # top => Ahead(new, n)'
    <3>1. ASSUME NEW a \in ScanIds, NEW b \in ScanIds, NEW c \in ScanIds,
                 Used(a)', Used(b)', Used(c)', Ahead(a, b)', Ahead(b, c)'
          PROVE  Ahead(a, c)'
      <4>1. a \in Nat /\ b \in Nat /\ c \in Nat
        BY DEF ScanIds
      <4>2. Built(a)' \in Nat /\ Built(b)' \in Nat /\ Built(c)' \in Nat
        BY <2>6, <3>1, SubmissionsAssumption DEF Sent, Built
      <4> QED
        BY <3>1, <4>1, <4>2 DEF Ahead
    <3> QED
      BY <2>1, <2>4, <2>5, <2>6, <3>1
  <2> QED
    BY <2>4, <2>7
<1>9. OpenUpload(u)'
  <2>1. sender'[u].writes = new /\ sender'[u].replaces = old
    BY <1>0, <1>2
  <2>2. new # None
    BY <1>0, Numbers
  <2>3. \A k \in ScanIds : k > new => ~Used(k)'
    <3>1. ASSUME NEW k \in ScanIds, k > new
          PROVE  k >= new /\ k # new
      BY <3>1 DEF ScanIds
    <3> QED
      BY <1>5, <1>6, <3>1
  <2>4. ASSUME old # None
        PROVE  /\ scan[old].status = "failed" /\ ~Named(old) /\ scan[old].of = s
               /\ old \in ScanIds /\ old < new /\ old # new
    <3>1. old \in Seen(s) /\ old \in ScanIds
      BY <1>2, <2>4
    <3>2. scan[old].status = "failed" /\ scan[old].of = s /\ ~Named(old)
      BY <1>1, <3>1 DEF Seen, Taken
    <3>3. ~(old >= new)
      BY <1>5, <3>1, <3>2 DEF Used
    <3> QED
      BY <3>1, <3>2, <3>3 DEF ScanIds
  <2>5. old # None => /\ scan'[old].status = "failed" /\ ~Named(old)' /\ scan'[old].of = s
                      /\ old < new
    BY <1>3, <1>4, <2>4, QuietAnswers
  <2>6. Standing' = Standing
    BY <1>4, QuietAnswers
  <2> QED
    BY <1>3, <1>8, <2>1, <2>2, <2>3, <2>5, <2>6 DEF OpenUpload, Used, Named, Standing, Ahead, Built
<1>10. ASSUME NEW v \in Senders, v # u
       PROVE  OpenUpload(v)'
  <2>1. sender[v] = NoUpload
    BY <1>0, <1>1, <1>10 DEF Alone, Open
  <2>2. sender'[v] = NoUpload
    BY <1>0, <1>2, <1>10, <2>1
  <2> QED
    BY <2>2, ClosedUpload
<1> QED
  BY <1>4, <1>7, <1>9, <1>10, QuietKeeps

LEMMA UploadRollsBackActs ==
    ASSUME SoleInv, Undisturbed, [Next]_vars, NEW u \in Senders, UploadRollsBack(u)
    PROVE  SoleInv'
<1>0. /\ scan \in [ScanIds -> Scan] /\ sender \in [Senders -> Sender] /\ OneOpen /\ InSequence
  BY InvTypes DEF SoleInv, Tables, TakingTurns
<1>1. /\ sender[u] # NoUpload /\ UNCHANGED <<shown, jobs, reader>>
      /\ sender' = [sender EXCEPT ![u] = NoUpload]
      /\ scan' = [i \in ScanIds |->
                    IF i = sender[u].writes /\ scan[i].status = "arriving"
                    THEN [scan[i] EXCEPT !.status = "removed", !.held = FALSE]
                    ELSE scan[i]]
  BY DEF UploadRollsBack
<1>2. ASSUME NEW i \in ScanIds
      PROVE  /\ scan'[i].named = scan[i].named /\ scan'[i].of = scan[i].of
             /\ \/ scan'[i].status = scan[i].status
                \/ scan[i].status = "arriving" /\ scan'[i].status = "removed"
  BY <1>0, <1>1 DEF Scan
<1>3. QuietRows
  BY <1>1, <1>2 DEF QuietRows, Known
<1>4. InSequence'
  <2>1. \A i \in ScanIds : Used(i)' <=> Used(i)
    BY <1>2 DEF Used
  <2> QED
    BY <1>0, <2>1 DEF InSequence
<1>5. ASSUME NEW v \in Senders
      PROVE  OpenUpload(v)'
  <2>1. v # u => sender[v] = NoUpload
    BY <1>0, <1>1 DEF OneOpen, Open
  <2>2. sender'[v] = NoUpload
    BY <1>0, <1>1, <2>1
  <2> QED
    BY <2>2, ClosedUpload
<1> QED
  BY <1>3, <1>4, <1>5, QuietKeeps

\* The row that commits becomes the newest, and has its job.
LEMMA UploadCommitsActs ==
    ASSUME SoleInv, Undisturbed, [Next]_vars, NEW u \in Senders, UploadCommits(u)
    PROVE  SoleInv'
<1>0. /\ SentInv /\ Sent /\ Types /\ scan \in [ScanIds -> Scan] /\ sender \in [Senders -> Sender]
      /\ OneOpen /\ sender[u] \in Sender
  BY InvTypes DEF SoleInv, TakingTurns
<1>a. PICK i \in ScanIds, old \in ScanIds \cup {None} :
        i = sender[u].writes /\ old = sender[u].replaces
  BY <1>0 DEF UploadCommits, Sender
<1>b. i # None /\ i \in Nat
  BY Numbers
<1>1. /\ AddParse(i) /\ UNCHANGED <<shown, reader, events>>
      /\ sender' = [sender EXCEPT ![u] = NoUpload]
  BY <1>a DEF UploadCommits
<1>2. /\ scan[i].status = "arriving"
      /\ \A k \in ScanIds : k > i => ~Used(k)
      /\ \A n \in Standing : Ahead(i, n)
      /\ \A k \in ScanIds : k = old => /\ scan[k].status = "failed" /\ ~Named(k)
                                     /\ scan[k].of = scan[i].of /\ k < i
  <2>1. OpenUpload(u)
    BY DEF SoleInv
  <2>2. \A k \in ScanIds : k = old => old # None
    BY Numbers
  <2> QED
    BY <1>a, <1>b, <2>1, <2>2 DEF OpenUpload
<1>3. /\ scan'[i].status = "accepted"
      /\ \A k \in ScanIds : /\ k = old => scan'[k].status = "removed"
                            /\ scan'[k].of = scan[k].of /\ scan'[k].named = scan[k].named
                            /\ k # i /\ k # old => scan'[k].status = scan[k].status
  <2>1. \A k \in ScanIds : scan[k] \in Scan
    BY <1>0
  <2>2. scan' = [k \in ScanIds |->
                   IF k = i THEN [scan[k] EXCEPT !.status = "accepted", !.held = TRUE]
                   ELSE IF k = old THEN [scan[k] EXCEPT !.status = "removed", !.held = FALSE]
                   ELSE scan[k]]
    BY <1>a DEF UploadCommits
  <2> QED
    BY <1>2, <2>1, <2>2 DEF Scan
<1>4. PICK j \in JobIds : AddedFor(i, j)
  BY <1>0, <1>1, AddEffect
<1>5. /\ Standing' = Standing \cup {i} /\ i \notin Standing
      /\ \A n \in Standing : n \in ScanIds /\ Used(n) /\ n # i /\ n # old
      /\ Used(i)
  <2>1. i \notin Standing /\ Used(i)
    BY <1>2 DEF Standing, Used
  <2>2. \A n \in Standing : n \in ScanIds /\ Used(n) /\ n # i /\ n # old
    BY <1>1, <1>2, <2>1, StandingUsed DEF Standing
  <2>3. ASSUME NEW k \in ScanIds
        PROVE  scan'[k].status = "accepted" <=> scan[k].status = "accepted" \/ k = i
    BY <1>1, <1>2, <1>3
  <2> QED
    BY <1>1, <2>1, <2>2, <2>3 DEF Standing
<1>6. /\ \A k \in ScanIds : Named(k)' = Named(k) /\ (Used(k)' <=> Used(k))
      /\ \A k, n \in ScanIds : Ahead(k, n)' = Ahead(k, n)
      /\ \A k \in ScanIds : PassedBy(k) => PassedBy(k)'
  <2>1. \A k \in ScanIds : Named(k)' = Named(k)
    BY <1>1, <1>3 DEF Named
  <2>2. \A k \in ScanIds : Used(k)' <=> Used(k)
    BY <1>1, <1>2, <1>3 DEF Used
  <2>3. \A k, n \in ScanIds : Ahead(k, n)' = Ahead(k, n)
    BY <1>3 DEF Ahead, Built
  <2> QED
    BY <1>1, <1>5, <2>1, <2>2, <2>3 DEF PassedBy
<1>7. ~Named(i)
  <2>1. ~scan[i].named /\ shown # i
    BY <1>b, <1>5 DEF SoleInv, Tables, ShownLeads
  <2> QED
    BY <2>1 DEF Named
<1>8. \A q \in Readers : reader[q].pc # "applying"
  <2>1. sender[u] # NoUpload
    BY <1>a, <1>b DEF NoUpload
  <2>2. u \in Open /\ u \notin Readers
    BY <2>1, NamesAssumption DEF Open
  <2> QED
    BY <1>0, <2>2 DEF OneOpen, Open
<1>9. \A k \in JobIds : status[k] # "absent" => names[k] \in ScanIds /\ names[k] # i
  BY <1>2, JobsName DEF Known
<1>10. JobsApart' /\ JobsFresh'
  <2>2. /\ scan'[i].status = "accepted" /\ ~Named(i)' /\ AddedFor(i, j)
        /\ \A a \in JobIds : status[a] # "absent" /\ names[a] = i => ~Unspent(a)
    BY <1>3, <1>4, <1>6, <1>7, <1>9
  <2>3. \A a \in JobIds, n \in ScanIds : status[a] # "absent" /\ names[a] = n =>
           /\ scan'[n].status \in {scan[n].status, "removed"}
           /\ Named(n)' <=> Named(n)
    <3>1. ASSUME NEW n \in ScanIds, n # i
          PROVE  scan'[n].status \in {scan[n].status, "removed"}
      BY <1>1, <1>3, <3>1
    <3> QED
      BY <1>6, <1>9, <3>1
  <2> QED
    BY <2>2, <2>3, AddedTables
<1>11. InSequence'
  BY <1>6 DEF SoleInv, Tables, InSequence
<1>12. ShownLeads'
  <2>0. ShownLeads
    BY DEF SoleInv, Tables
  <2>1. shown # None => shown \in Standing
    BY <2>0 DEF ShownLeads
  <2>2. \A k \in ScanIds : scan'[k].named =>
           shown # None /\ k \in Standing' /\ (k = shown \/ Ahead(shown, k)')
    <3> SUFFICES ASSUME NEW k \in ScanIds, scan[k].named
                 PROVE  shown # None /\ k \in Standing' /\ (k = shown \/ Ahead(shown, k)')
      BY <1>3
    <3>1. shown # None /\ k \in Standing /\ (k = shown \/ Ahead(shown, k))
      BY <2>0 DEF ShownLeads
    <3>2. PICK s \in ScanIds : s = shown /\ Ahead(s, k)' = Ahead(s, k)
      BY <1>6, <3>1, InvTypes
    <3> QED
      BY <1>1, <1>5, <3>1, <3>2 DEF Ahead, Built
  <2>3. \A k \in Standing' : shown # None /\ shown > k => Ahead(shown, k)'
    <3> SUFFICES ASSUME NEW k \in Standing', shown # None, shown > k
                 PROVE  Ahead(shown, k)'
      OBVIOUS
    <3>1. k # i
      BY <1>2, <1>5, <2>1
    <3>2. k \in Standing /\ k \in ScanIds
      BY <1>5, <3>1
    <3>3. Ahead(shown, k)
      BY <2>0, <3>2 DEF ShownLeads
    <3>4. PICK s \in ScanIds : s = shown /\ Ahead(s, k)' = Ahead(s, k)
      BY <1>6, <3>2, InvTypes
    <3> QED
      BY <1>1, <3>3, <3>4 DEF Ahead, Built
  <2>4. ASSUME NEW a \in Standing', NEW k \in Standing', k < a
        PROVE  Ahead(a, k)' \/ (shown # None /\ (k = shown \/ Ahead(shown, k)'))
    <3>1. CASE a = i
      BY <1>2, <1>5, <1>6, <2>4, <3>1, Numbers
    <3>2. CASE a # i /\ k = i
      <4>1. a \in ScanIds /\ Used(a) /\ a \in Nat /\ k \in Nat
        BY <1>1, <1>5, <3>2, Numbers
      <4> QED
        BY <1>2, <2>4, <3>2, <4>1
    <3>3. CASE a # i /\ k # i
      <4>1. a \in Standing /\ k \in Standing /\ a \in ScanIds /\ k \in ScanIds
        BY <1>5, <3>3
      <4>2. Ahead(a, k) \/ (shown # None /\ (k = shown \/ Ahead(shown, k)))
        BY <2>0, <2>4, <4>1 DEF ShownLeads
      <4>3. Ahead(a, k)' = Ahead(a, k)
        BY <1>6, <4>1
      <4>4. shown # None => \E s \in ScanIds : s = shown /\ Ahead(s, k)' = Ahead(s, k)
        BY <1>6, <4>1, InvTypes
      <4> QED
        BY <1>1, <4>2, <4>3, <4>4 DEF Ahead, Built
    <3> QED
      BY <3>1, <3>2, <3>3
  <2> QED
    BY <1>1, <1>5, <2>1, <2>2, <2>3, <2>4 DEF ShownLeads
<1>13. ASSUME NEW v \in Senders
       PROVE  OpenUpload(v)'
  <2>1. sender'[v] = NoUpload
    <3>1. sender[u] # NoUpload
      BY <1>a, <1>b DEF NoUpload
    <3>2. v # u => sender[v] = NoUpload
      BY <1>0, <3>1 DEF OneOpen, Open
    <3> QED
      BY <1>0, <1>1, <3>2
  <2> QED
    BY <2>1, ClosedUpload
<1>14. ASSUME NEW r \in Readers
       PROVE  /\ AtItsJob' /\ OutIsHeld'
              /\ ReaderFresh(r)' /\ ReaderKnows(r)'
  <2>1. reader'[r] = reader[r]
    BY <1>1
  <2>2. AtItsJob' /\ OutIsHeld' /\ (reader[r].pc # "idle" => Of(r)' = Of(r))
    BY <1>4, <2>1, AddedHeld
  <2>3. CASE reader[r].pc = "idle"
    BY <2>1, <2>2, <2>3 DEF ReaderFresh, ReaderKnows, Unread
  <2>4. CASE reader[r].pc # "idle"
    <3>1. PICK k \in ScanIds : k = Of(r) /\ Of(r)' = k /\ Known(k) /\ k # i
      BY <1>2, <2>2, <2>4, ReaderNames DEF Known
    <3>2. /\ Named(k)' = Named(k)
          /\ scan'[k].status = scan[k].status \/ (k = old /\ scan'[k].status = "removed")
          /\ PassedBy(k) => PassedBy(k)'
          /\ k \notin Standing => k \notin Standing'
      BY <1>1, <1>3, <1>5, <1>6, <3>1
    <3>3. k = old => scan[k].status = "failed" /\ PassedBy(k)'
      <4>1. k = old => scan[k].status = "failed" /\ scan[k].of = scan[i].of /\ k < i
        BY <1>2, <3>1, Numbers
      <4>2. i > k /\ Built(i) = Built(k) => Ahead(i, k)
        BY DEF Ahead
      <4>3. k = old => Ahead(i, k)
        BY <1>1, <3>1, <4>1, <4>2, Numbers DEF Built
      <4> QED
        BY <1>1, <1>5, <1>6, <3>1, <4>1, <4>3 DEF PassedBy
    <3>4. ReaderKnows(r)'
      BY <1>1, <1>8, <2>1, <3>1, <3>2, <3>3 DEF SoleInv, ReaderKnows
    <3>5. ASSUME reader[r].pc = "adding"
          PROVE  /\ reader[r].again \in Standing' /\ ~Named(reader[r].again)'
                 /\ \A a \in JobIds : status'[a] # "absent" /\ names'[a] = reader[r].again
                                        => ~Unspent(a)'
      <4>1. /\ reader[r].again \in Standing /\ ~Named(reader[r].again)
            /\ \A a \in JobIds : status[a] # "absent" /\ names[a] = reader[r].again => ~Unspent(a)
        BY <3>5 DEF SoleInv, ReaderFresh
      <4>2. PICK n \in ScanIds : n = reader[r].again /\ n # i /\ n \in Standing'
        BY <1>5, <4>1
      <4>3. ~Named(reader[r].again)'
        BY <1>1, <1>6, <4>1, <4>2 DEF Named
      <4>4. \A a \in JobIds : status'[a] # "absent" /\ names'[a] = n => ~Unspent(a)'
        BY <1>4, <4>1, <4>2 DEF AddedFor, Unspent
      <4> QED
        BY <4>2, <4>3, <4>4
    <3>6. Unread(r)' = Unread(r)
      BY <2>1 DEF Unread
    <3>7. ReaderFresh(r)'
      BY <2>1, <3>1, <3>2, <3>5, <3>6 DEF SoleInv, ReaderFresh
    <3> QED
      BY <2>2, <3>4, <3>7
  <2> QED
    BY <2>2, <2>3, <2>4
<1>15. NewestOnItsWay'
  <2> SUFFICES ASSUME NEW m \in ScanIds, Newest(m)' PROVE OnItsWay(m)'
    BY DEF NewestOnItsWay
  <2>1. m = i
    <3> SUFFICES ASSUME m # i PROVE FALSE
      OBVIOUS
    <3>1. m \in Standing /\ Ahead(m, i) /\ Ahead(i, m)
      BY <1>1, <1>2, <1>5, <1>6 DEF Newest
    <3> QED
      BY <1>0, <1>1, <1>5, <3>1, AheadOrders
  <2> QED
    BY <1>4, <2>1 DEF OnItsWay, BeingRead, AddedFor
<1>16. CASE Readers = {}
  <2>1. \A k \in JobIds : status[k] # "out"
    BY <1>16 DEF SoleInv, OutIsHeld
  <2>2. AtItsJob' /\ OutIsHeld'
    BY <1>4, <1>16, <2>1 DEF AtItsJob, OutIsHeld, AddedFor
  <2> QED
    BY <1>10, <1>11, <1>12, <1>13, <1>15, <1>16, <2>2, KeptBelow DEF SoleInv, Tables
<1>17. CASE Readers # {}
  BY <1>10, <1>11, <1>12, <1>13, <1>14, <1>15, <1>17, KeptBelow DEF SoleInv, Tables
<1> QED
  BY <1>16, <1>17

----------------------------------------------------------------------------
(* Steps of a reader that write a scan's row. *)

\* The reader that is at work turns, whatever it writes, and no job does.
LEMMA TurnHolds ==
    ASSUME SoleInv, Undisturbed, UNCHANGED jobs, NEW r \in Readers, reader[r].pc # "idle",
           NEW pc, NEW failed, GoesOn(r, pc, failed), pc # "idle",
           pc \in {"recovering", "reinstating", "adding"} => failed,
           pc \in {"reinstating", "adding"} => reader[r].last
    PROVE  AtItsJob' /\ OutIsHeld' /\ Of(r)' = Of(r)
<1>1. \A q \in Readers : q = r
  BY DEF Undisturbed
<1>2. Holds(r) /\ (reader[r].last <=> handed[reader[r].job] = MaxAttempts)
  BY DEF SoleInv, AtItsJob
<1>3. AtItsJob'
  BY <1>1, <1>2 DEF AtItsJob, GoesOn, Holds, jobs
<1>4. OutIsHeld'
  <2>1. ASSUME NEW j \in JobIds, status[j] = "out"
        PROVE  reader[r].job = j
    BY <1>1, <2>1 DEF SoleInv, OutIsHeld
  <2> QED
    BY <2>1 DEF OutIsHeld, GoesOn, jobs
<1>5. Of(r)' = Of(r)
  BY DEF GoesOn, Of, jobs
<1> QED
  BY <1>3, <1>4, <1>5

\* While a transaction of a reader's is open, or may open, no upload's is.
LEMMA NoUploads ==
    ASSUME SoleInv, Undisturbed, UNCHANGED sender, NEW r \in Readers,
           Alone(r) \/ reader[r].pc = "applying", NEW u \in Senders
    PROVE  sender[u] = NoUpload /\ OpenUpload(u)'
<1>1. u # r
  BY NamesAssumption
<1>2. u \in Open => sender[u] = NoUpload
  BY <1>1 DEF Undisturbed, Alone, SoleInv, TakingTurns, OneOpen, Open
<1>3. sender[u] = NoUpload
  BY <1>2 DEF Open
<1> QED
  BY <1>3, ClosedUpload

LEMMA MarkFailedActs ==
    ASSUME SoleInv, Undisturbed, [Next]_vars, NEW r \in Readers, MarkFailed(r)
    PROVE  SoleInv'
<1>0. Types /\ reader[r] \in Reader /\ scan \in [ScanIds -> Scan] /\ \A q \in Readers : q = r
  BY InvTypes DEF Undisturbed
<1>1. /\ reader[r].pc = "recovering" /\ Alone(r) /\ UNCHANGED <<shown, jobs, sender>>
      /\ Goes(r, IF reader[r].last THEN "reinstating" ELSE "ending")
  BY DEF MarkFailed
<1>2. PICK x \in ScanIds : x = Of(r) /\ Known(x) /\ ~Named(x)
  BY <1>1, ReaderNames DEF SoleInv, ReaderFresh, Unread
<1>3. /\ scan'[x].status = IF scan[x].status = "removed" THEN "removed" ELSE "failed"
      /\ scan'[x].of = scan[x].of /\ scan'[x].named = scan[x].named
      /\ \A k \in ScanIds : k # x => scan'[k] = scan[k]
  <2>1. scan' = [scan EXCEPT ![x] = [scan[x] EXCEPT !.status =
                                       IF scan[x].status = "removed" THEN "removed" ELSE "failed"]]
    BY <1>2 DEF MarkFailed
  <2>2. scan[x] \in Scan
    BY <1>0
  <2> QED
    BY <1>0, <2>1, <2>2 DEF Scan
<1> DEFINE pc == IF reader[r].last THEN "reinstating" ELSE "ending"
<1>4. GoesOn(r, pc, TRUE) /\ pc \in {"reinstating", "ending"} /\ (pc = "reinstating" <=> reader[r].last)
  <2>1. reader[r].failed = TRUE
    BY <1>0, <1>1 DEF SoleInv, AtItsJob, Reader
  <2> QED
    BY <1>0, <1>1, <2>1, GoesEffect
<1> HIDE DEF pc
<1>5. AtItsJob' /\ OutIsHeld' /\ Of(r)' = x
  BY <1>1, <1>2, <1>4, TurnHolds
<1>6. \A u \in Senders : OpenUpload(u)'
  BY <1>1, NoUploads
<1>7. shown # x /\ ~scan[x].named /\ scan'[x].status \in {"failed", "removed"} /\ ~Named(x)'
  BY <1>1, <1>2, <1>3 DEF Named
<1>8. ReaderFresh(r)' /\ ReaderKnows(r)'
  BY <1>4, <1>5, <1>7 DEF ReaderFresh, ReaderKnows, GoesOn
<1>9. CASE scan[x].status # "accepted"
  <2>1. scan[x].status \in {"failed", "removed"}
    BY <1>2, <1>9 DEF Known
  <2>2. SameRows
    BY <1>1, <1>3, <2>1 DEF SameRows
  <2>3. ASSUME NEW m \in ScanIds, Newest(m), OnItsWay(m)
        PROVE  OnItsWay(m)'
    <3>1. CASE scan[x].status = "failed" /\ reader[r].last
      BY <1>3, <1>4, <1>5, <3>1 DEF OnItsWay, GoesOn
    <3>2. CASE scan[x].status = "removed" \/ ~reader[r].last
      <4>1. scan[x].status # "failed" \/ Trying(r)'
        BY <1>4, <3>2 DEF Trying, GoesOn
      <4> QED
        BY <1>1, <1>2, <1>4, <2>2, <2>3, <4>1, WayKept
    <3> QED
      BY <2>1, <3>1, <3>2
  <2> QED
    BY <1>1, <1>4, <1>8, <2>2, <2>3, TurnKeeps
<1>10. CASE scan[x].status = "accepted"
  <2>1. scan'[x].status = "failed" /\ x \in Standing
    BY <1>3, <1>10 DEF Standing
  <2>2. Standing' = Standing \ {x} /\ Standing \subseteq ScanIds
    BY <1>3, <2>1 DEF Standing
  <2>3. /\ \A k \in ScanIds : Named(k)' = Named(k) /\ (Used(k)' <=> Used(k))
        /\ \A k, n \in ScanIds : Ahead(k, n)' = Ahead(k, n)
    BY <1>1, <1>3, <1>10, <2>1 DEF Named, Used, Ahead, Built
  <2>4. InSequence'
    BY <2>3 DEF SoleInv, Tables, InSequence
  <2>5. JobsApart' /\ JobsFresh'
    <3>1. UNCHANGED <<status, names>> /\ \A j \in JobIds : Unspent(j)' = Unspent(j)
      BY <1>1 DEF jobs, Unspent
    <3>2. ASSUME NEW j \in JobIds, status[j] # "absent"
          PROVE  /\ scan'[names[j]].status \notin {"unused", "arriving"}
                 /\ status[j] = "failed" => scan'[names[j]].status \in {"failed", "removed"}
                 /\ status[j] \in {"waiting", "failed"} => ~Named(names[j])'
      <4>1. PICK k \in ScanIds : k = names[j]
        BY <3>2, JobsName
      <4>2. scan'[k].status \in {scan[k].status, "failed"} /\ Named(k)' = Named(k)
        BY <1>3, <2>1, <2>3
      <4>3. Named(names[j])' = Named(k)
        BY <3>1, <4>1, <4>2 DEF Named
      <4> QED
        BY <3>2, <4>1, <4>2, <4>3 DEF SoleInv, Tables, JobsApart, JobsFresh
    <3> QED
      BY <3>1, <3>2 DEF SoleInv, Tables, JobsApart, JobsFresh
  <2>6. ShownLeads'
    <3>1. ShownLeads
      BY DEF SoleInv, Tables
    <3>2. shown # None => shown \in Standing' /\ shown \in ScanIds
      BY <1>7, <2>2, <3>1 DEF ShownLeads
    <3>3. \A i \in ScanIds : scan'[i].named => scan[i].named /\ i # x
      BY <1>3, <1>7
    <3> QED
      BY <1>1, <2>2, <2>3, <3>1, <3>2, <3>3 DEF ShownLeads
  <2>7. NewestOnItsWay'
    <3> SUFFICES ASSUME NEW m \in ScanIds, Newest(m)' PROVE OnItsWay(m)'
      BY DEF NewestOnItsWay
    <3>0. m \in Standing /\ m # x /\ \A n \in Standing \ {x, m} : Ahead(m, n)
      BY <2>2, <2>3 DEF Newest
    <3>1. CASE reader[r].last
      BY <1>4, <1>5, <2>1, <3>1 DEF OnItsWay, GoesOn
    <3>2. CASE ~reader[r].last /\ Ahead(m, x)
      <4>1. Newest(m)
        BY <3>0, <3>2 DEF Newest
      <4>2. OnItsWay(m)
        BY <4>1 DEF SoleInv, NewestOnItsWay
      <4>3. BeingRead(m) => BeingRead(m)'
        BY <1>1 DEF BeingRead, jobs
      <4>4. ASSUME NEW j \in JobIds, Retried(j, m)
            PROVE  Retried(j, m)'
        <5>1. PICK k \in ScanIds : k = names[j] /\ scan[k].status = "failed"
          BY <4>4, JobsName DEF Retried
        <5>2. scan'[k].status = "failed" /\ Ahead(k, m)' = Ahead(k, m)
          BY <1>3, <1>10, <2>3, <5>1
        <5>3. Ahead(names[j], m)' = Ahead(k, m)
          BY <1>1, <5>1, <5>2 DEF Ahead, Built, jobs
        <5>4. Trying(r)'
          BY <1>4, <3>2 DEF Trying, GoesOn
        <5> QED
          BY <1>0, <1>1, <4>4, <5>1, <5>2, <5>3, <5>4 DEF Retried, jobs
      <4> QED
        BY <1>0, <1>1, <4>2, <4>3, <4>4 DEF OnItsWay
    <3>3. CASE ~reader[r].last /\ ~Ahead(m, x) /\ x > m
      <4>1. Ahead(x, m)' /\ Trying(r)'
        BY <1>4, <2>1, <2>3, <3>0, <3>3, InvTypes, StandingUsed, AheadOrders DEF Trying, GoesOn
      <4>2. reader[r].job \in JobIds /\ status[reader[r].job] = "out"
        BY <1>0, <1>1, AtWork DEF SoleInv, AtItsJob, Holds
      <4>3. Retried(reader[r].job, m)'
        <5>1. PICK j \in JobIds : j = reader[r].job /\ status'[j] = "out" /\ names'[j] = x
          BY <1>1, <1>2, <4>2 DEF Of, jobs
        <5>2. reader'[r].job = j
          BY <1>4, <5>1 DEF GoesOn
        <5> QED
          BY <1>0, <2>1, <3>3, <4>1, <5>1, <5>2 DEF Retried, Ahead, Built
      <4> QED
        BY <1>4, <4>2, <4>3 DEF OnItsWay, GoesOn
    <3>4. CASE ~Ahead(m, x) /\ ~(x > m)
      <4>1. x < m
        BY <3>0, <3>4 DEF ScanIds
      <4>2. shown # None /\ Ahead(shown, x) /\ shown \in Standing
        BY <1>7, <2>1, <3>0, <3>4, <4>1 DEF SoleInv, Tables, ShownLeads
      <4>3. shown = m
        BY <1>7, <2>1, <3>0, <3>4, <4>2, InvTypes, StandingUsed, AheadCarries
      <4> QED
        BY <1>1, <4>3 DEF OnItsWay
    <3> QED
      BY <3>1, <3>2, <3>3, <3>4
  <2> QED
    BY <1>0, <1>5, <1>6, <1>8, <2>4, <2>5, <2>6, <2>7, KeptBelow DEF SoleInv, Tables
<1> QED
  BY <1>9, <1>10

LEMMA ApplyActs ==
    ASSUME SoleInv, Undisturbed, [Next]_vars, NEW r \in Readers, Apply(r)
    PROVE  SoleInv'
<1>0. /\ Types /\ Sent /\ reader[r] \in Reader /\ scan \in [ScanIds -> Scan]
      /\ \A q \in Readers : q = r
  BY InvTypes DEF Undisturbed
<1>1. reader[r].pc = "applying" /\ Applied(Of(r)) /\ UNCHANGED <<jobs, sender>>
  BY DEF Apply
<1>2. PICK x \in ScanIds : x = Of(r) /\ Known(x) /\ ~Named(x) /\ scan[x].status # "removed" /\ Used(x)
  BY <1>1, ReaderNames DEF SoleInv, ReaderFresh, ReaderKnows, Unread, Known, Used
<1>3. PICK changes \in BOOLEAN :
        scan' = [scan EXCEPT ![x] = [scan[x] EXCEPT !.status = "accepted",
                                                    !.named = scan[x].named \/ changes]]
  <2>1. PICK changes \in BOOLEAN :
          scan' = [scan EXCEPT ![x].status = IF @ = "removed" THEN @ ELSE "accepted",
                               ![x].named = @ \/ changes]
    BY <1>1, <1>2 DEF Applied
  <2>2. scan[x] \in Scan
    BY <1>0
  <2> QED
    BY <1>0, <1>2, <2>1, <2>2 DEF Scan
<1>4. /\ shown' = x /\ scan'[x].status = "accepted" /\ scan'[x].of = scan[x].of
      /\ \A k \in ScanIds : k # x => scan'[k] = scan[k]
  <2>1. scan[x] \in Scan
    BY <1>0
  <2> QED
    BY <1>0, <1>1, <1>2, <1>3, <2>1 DEF Scan, Applied
<1>5. /\ AtItsJob' /\ OutIsHeld' /\ Of(r)' = x
      /\ reader'[r].pc \in {"letting go", "ending"}
      /\ reader'[r].pc = "ending" => ~reader'[r].failed
  <2>1. CASE Moves
    <3>1. GoesOn(r, "letting go", reader[r].failed)
      BY <1>0, <2>1, GoesEffect DEF Apply
    <3> QED
      BY <1>1, <1>2, <3>1, TurnHolds DEF GoesOn
  <2>2. CASE ~Moves
    <3>1. GoesOn(r, "ending", FALSE)
      BY <1>0, <2>2, ReadsEffect DEF Apply
    <3> QED
      BY <1>1, <1>2, <3>1, TurnHolds DEF GoesOn
  <2> QED
    BY <2>1, <2>2
<1>7. \A u \in Senders : OpenUpload(u)'
  BY <1>1, NoUploads
<1>8. /\ Standing' = Standing \cup {x} /\ Standing \subseteq ScanIds
      /\ \A k \in ScanIds : Used(k)' <=> Used(k)
      /\ \A k, n \in ScanIds : Ahead(k, n)' = Ahead(k, n)
  BY <1>2, <1>4 DEF Standing, Used, Ahead, Built
\* Nothing that stands is ahead of it.
<1>9. \A n \in Standing : n # x => Ahead(x, n)
  <2>1. \A n \in Standing : ~Ahead(n, x)
    BY <1>1, <1>2 DEF SoleInv, TakingTurns, Unpassed, PassedBy
  <2> QED
    BY <1>0, <1>2, <2>1, StandingUsed, AheadOrders
<1>10. InSequence'
  BY <1>8 DEF SoleInv, Tables, InSequence
\* Its job is out, and no other names it.
<1>11. ASSUME NEW j \in JobIds, status[j] \in {"waiting", "failed"}
       PROVE  names[j] # x
  <2>1. reader[r].job \in JobIds /\ status[reader[r].job] = "out" /\ names[reader[r].job] = x
    BY <1>0, <1>1, <1>2, AtWork DEF SoleInv, AtItsJob, Holds, Of
  <2> QED
    BY <1>11, <2>1 DEF SoleInv, Tables, JobsApart, Unspent
<1>12. JobsApart' /\ JobsFresh'
  <2>1. UNCHANGED <<status, names>> /\ \A j \in JobIds : Unspent(j)' = Unspent(j)
    BY <1>1 DEF jobs, Unspent
  <2>2. ASSUME NEW j \in JobIds, status[j] # "absent"
        PROVE  /\ scan'[names[j]].status \notin {"unused", "arriving"}
               /\ status[j] = "failed" => scan'[names[j]].status \in {"failed", "removed"}
               /\ status[j] \in {"waiting", "failed"} => ~Named(names[j])'
    <3>1. PICK k \in ScanIds : k = names[j]
      BY <2>2, JobsName
    <3>2. CASE k = x
      BY <1>4, <1>11, <3>1, <3>2
    <3>3. CASE k # x
      <4>1. scan'[k] = scan[k] /\ shown' # k
        BY <1>4, <3>3
      <4>2. status[j] \in {"waiting", "failed"} => ~scan[k].named
        BY <3>1 DEF SoleInv, Tables, JobsFresh, Named
      <4> QED
        BY <2>1, <2>2, <3>1, <4>1, <4>2 DEF SoleInv, Tables, JobsApart, Named
    <3> QED
      BY <3>2, <3>3
  <2> QED
    BY <2>1, <2>2 DEF SoleInv, Tables, JobsApart, JobsFresh
<1>13. ShownLeads'
  <2>1. \A i \in ScanIds : scan'[i].named => i = x \/ i \in Standing
    BY <1>4 DEF SoleInv, Tables, ShownLeads
  <2>2. shown' # None
    BY <1>4, Numbers
  <2>3. \A i \in Standing' : i = x \/ (Ahead(x, i)' /\ i \in ScanIds)
    BY <1>8, <1>9
  <2>4. \A i \in Standing' : i = shown' \/ Ahead(shown, i)'
    BY <1>4, <2>3 DEF Ahead, Built
  <2>5. ~(x > x)
    BY DEF ScanIds
  <2> QED
    BY <1>4, <1>8, <2>1, <2>2, <2>4, <2>5 DEF ShownLeads
<1>14. ReaderFresh(r)' /\ ReaderKnows(r)'
  BY <1>4, <1>5 DEF ReaderFresh, ReaderKnows, Unread
<1>15. NewestOnItsWay'
  <2> SUFFICES ASSUME NEW m \in ScanIds, Newest(m)', m # x PROVE FALSE
    BY <1>4 DEF NewestOnItsWay, OnItsWay
  <2>1. m \in Standing /\ Ahead(m, x)' /\ Ahead(m, x) /\ Ahead(x, m)
    BY <1>8, <1>9 DEF Newest
  <2> QED
    BY <1>0, <1>2, <2>1, StandingUsed, AheadOrders
<1> QED
  BY <1>0, <1>5, <1>7, <1>10, <1>12, <1>13, <1>14, <1>15, KeptBelow DEF SoleInv, Tables

----------------------------------------------------------------------------
(* Every step, and what follows. *)

\* What a second replica, a dead process or a lost answer would do is not done, and
\* what would need one of them cannot be.
LEMMA NotDone ==
    ASSUME SoleInv, Undisturbed
    PROVE  /\ \A u \in Senders, i \in ScanIds : ~UploadAgain(u, i)
           /\ \A r \in Readers : /\ ~ApplyAnswerLost(r) /\ ~ApplyRefused(r) /\ ~RecoveryFails(r)
                                 /\ ~Crash(r) /\ ~Shutdown(r)
           /\ \A j \in JobIds : ~Bury(j)
<1>1. ASSUME NEW u \in Senders, NEW i \in ScanIds, UploadAgain(u, i)
      PROVE  FALSE
  <2>1. scan[i].status = "failed" /\ Named(i)
    BY <1>1 DEF UploadAgain
  <2>2. i \in Standing
    BY <2>1, Numbers DEF SoleInv, Tables, ShownLeads, Named
  <2> QED
    BY <2>1, <2>2 DEF Standing
<1>2. ASSUME NEW r \in Readers, ApplyRefused(r)
      PROVE  FALSE
  BY <1>2 DEF ApplyRefused, SoleInv, ReaderKnows
<1>3. ASSUME NEW r \in Readers,
             ApplyAnswerLost(r) \/ RecoveryFails(r) \/ Crash(r) \/ Shutdown(r)
      PROVE  FALSE
  BY <1>3 DEF ApplyAnswerLost, RecoveryFails, Crash, Shutdown, MayHappen, Undisturbed
<1>4. ASSUME NEW j \in JobIds, Bury(j)
      PROVE  FALSE
  <2>1. status[j] = "out" /\ by[j] = Gone
    BY <1>4 DEF Bury, Queue!GiveUp
  <2>2. PICK r \in Readers : Holds(r) /\ reader[r].job = j
    BY <2>1 DEF SoleInv, OutIsHeld, AtItsJob
  <2> QED
    BY <2>1, <2>2, NamesAssumption DEF Holds
<1> QED
  BY <1>1, <1>2, <1>3, <1>4

LEMMA SoleNext == Undisturbed /\ SoleInv /\ [Next]_vars => SoleInv'
<1> SUFFICES ASSUME Undisturbed, SoleInv, [Next]_vars PROVE SoleInv'
  OBVIOUS
<1>1. CASE UNCHANGED vars
  BY <1>1, UnchangedActs
<1>2. ASSUME NEW u \in Senders, Upload(u)
      PROVE  SoleInv'
  BY <1>2, UploadNewActs, UploadCommitsActs, UploadRollsBackActs, NotDone DEF Upload
<1>3. ASSUME NEW r \in Readers, Reading(r) \/ Crash(r) \/ Shutdown(r)
      PROVE  SoleInv'
  BY <1>3, ClaimActs, ReaderActs, ApplyActs, MarkFailedActs, ReinstateActs, ReinstateAddsActs,
     EndActs, NotDone DEF Reading
<1>4. ASSUME NEW j \in JobIds, Bury(j) \/ Requeue(j)
      PROVE  SoleInv'
  BY <1>4, RequeueActs, NotDone
<1> QED
  BY <1>1, <1>2, <1>3, <1>4 DEF Next

LEMMA SoleInit == Init => SoleInv
<1> SUFFICES ASSUME Init PROVE SoleInv
  OBVIOUS
<1>1. /\ \A i \in ScanIds : scan[i].status = "unused" /\ ~scan[i].named
      /\ \A j \in JobIds : status[j] = "absent"
      /\ \A u \in Senders : sender[u].writes = None /\ sender[u].replaces = None
      /\ \A r \in Readers : reader[r].pc = "idle"
      /\ shown = None
  BY DEF Init, Queue!Init, NoUpload, Resting
<1>2. Standing = {} /\ \A i \in ScanIds : ~Used(i) /\ ~Newest(i)
  BY <1>1 DEF Standing, Used, Newest
<1>3. TakingTurns /\ InTurn
  BY TakingTurnsInit, OrderInit DEF OrderInv
<1>4. AtItsJob /\ OutIsHeld /\ Tables
  BY <1>1, <1>2 DEF AtItsJob, OutIsHeld, Tables, JobsApart, InSequence, ShownLeads, JobsFresh, Unspent
<1>5. \A u \in Senders : OpenUpload(u)
  BY <1>1 DEF OpenUpload
<1>6. \A r \in Readers : ReaderFresh(r) /\ ReaderKnows(r)
  BY <1>1 DEF ReaderFresh, ReaderKnows, Unread
<1>7. NewestOnItsWay
  BY <1>2 DEF NewestOnItsWay
<1> QED
  BY <1>3, <1>4, <1>5, <1>6, <1>7 DEF SoleInv

\* The scan a read makes the build's is later, and ahead of the one it follows.
LEMMA ShownMoves ==
    ASSUME SoleInv, Undisturbed, [Next]_vars, shown' # shown, shown # None
    PROVE  shown' > shown /\ Ahead(shown', shown)
<1>1. PICK r \in Readers : reader[r].pc = "applying" /\ shown' = Of(r)
  BY InvTypes, TurnSteps DEF TakeBuild
<1>2. Of(r) \in ScanIds /\ Used(Of(r)) /\ shown \in Standing
  BY <1>1, ReaderNames DEF SoleInv, Tables, ShownLeads, Known, Used
<1>3. shown <= Of(r) /\ ~Ahead(shown, Of(r))
  BY <1>1, <1>2 DEF SoleInv, InTurn, TakingTurns, Unpassed, PassedBy
<1>4. shown \in Nat /\ Of(r) \in Nat
  BY <1>2, Numbers
<1>5. Ahead(Of(r), shown)
  BY <1>1, <1>2, <1>3, InvTypes, StandingUsed, AheadOrders
<1> QED
  BY <1>1, <1>3, <1>4, <1>5

\* Whatever uploads arrive, roll back or are sent again, whatever reads fail and
\* however often, what a build shows goes forward in build time and in
\* identifiers alike (read, retake, passedBy; REQ-06).
THEOREM ShownGoesForward == Undisturbed /\ Spec => ForwardOnly
<1> SUFFICES ASSUME Undisturbed PROVE Spec => ForwardOnly
  OBVIOUS
<1>1. SoleInv /\ [Next]_vars
        => [shown' # shown => shown = None \/ (shown' > shown /\ Ahead(shown', shown))]_vars
  BY ShownMoves DEF vars
<1>2. SoleInv /\ [Next]_vars => SoleInv'
  BY SoleNext
<1> QED
  BY <1>1, <1>2, SoleInit, PTL DEF Spec, ForwardOnly

\* A scan the build shows is not marked failed, whatever is read again: no job that
\* may still be read names it (read, after its transaction; Made, MarkFailed).
THEOREM WhatIsShownStands == Undisturbed /\ Spec => AppliedStands
<1> SUFFICES ASSUME Undisturbed PROVE Spec => AppliedStands
  OBVIOUS
<1>1. SoleInv /\ SoleInv' /\ [Next]_vars
        => [shown # None /\ scan[shown].status = "accepted"
              => scan'[shown].status = "accepted"]_vars
  <2> SUFFICES ASSUME SoleInv, SoleInv', [Next]_vars, shown # None,
                      scan[shown].status = "accepted"
               PROVE  scan'[shown].status = "accepted"
    BY DEF vars
  <2>1. CASE shown' = shown
    BY <2>1 DEF SoleInv, Tables, ShownLeads, Standing
  <2>2. CASE shown' # shown
    <3>1. CASE UNCHANGED scan
      BY <3>1
    <3>2. ASSUME NEW u \in Senders, Decides(u) \/ UploadCommits(u) \/ UploadRollsBack(u)
          PROVE  UNCHANGED shown
      BY <3>2 DEF Decides, UploadNew, UploadAgain, UploadCommits, UploadRollsBack
    <3>3. ASSUME NEW r \in Readers, Writes(r)
          PROVE  scan'[shown].status = "accepted"
      <4>1. Applied(Of(r))
        BY <2>2, <3>3 DEF Writes, Apply, ApplyAnswerLost, LetGo, MarkFailed
      <4>2. shown' = Of(r) /\ shown \in ScanIds /\ scan \in [ScanIds -> Scan]
        BY <4>1, InvTypes DEF Applied
      <4>3. scan'[shown] = scan[shown]
        BY <2>2, <4>1, <4>2 DEF Applied
      <4> QED
        BY <4>3
    <3> QED
      BY <2>2, <3>1, <3>2, <3>3, RowWriters
  <2> QED
    BY <2>1, <2>2
<1>2. SoleInv /\ [Next]_vars => SoleInv'
  BY SoleNext
<1> QED
  BY <1>1, <1>2, SoleInit, PTL DEF Spec, AppliedStands

\* Whenever no upload is open, no read at work and no job to be read, the build
\* shows the newest scan that stands: what was set aside for a scan that then
\* failed for good has been read again (passedBy, MarkFailed, reinstate).
THEOREM NewestComesToBeShown == Undisturbed /\ Spec => []NewestIsShown
<1> SUFFICES ASSUME Undisturbed PROVE Spec => []NewestIsShown
  OBVIOUS
<1>1. SoleInv => NewestIsShown
  <2> SUFFICES ASSUME SoleInv, Quiet, NEW i \in ScanIds, Newest(i) PROVE shown = i
    BY DEF NewestIsShown
  <2>1. OnItsWay(i)
    BY DEF SoleInv, NewestOnItsWay
  <2> QED
    BY <2>1 DEF OnItsWay, Quiet, BeingRead, Retried
<1>2. SoleInv /\ [Next]_vars => SoleInv'
  BY SoleNext
<1> QED
  BY <1>1, <1>2, SoleInit, PTL DEF Spec
=============================================================================
