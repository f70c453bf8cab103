----------------------------- MODULE IngestProofs -----------------------------
(***************************************************************************)
(* What the runs of Ingest check of the graph's rows and of the order      *)
(* scans are applied in, for every set of submissions, uploads and         *)
(* readers, every number of attempts and every combination of hazards, on  *)
(* engines that serialise transactions and on those that do not.           *)
(***************************************************************************)
EXTENDS Ingest, TLAPS

USE BoundsAssumption, NamesAssumption

----------------------------------------------------------------------------
(* The types, with what they need to be inductive: the job a reader works on *)
(* is there and names a scan, and so does the scan it is about to add again. *)

Worked == \A r \in Readers : reader[r].pc # "idle" => status[reader[r].job] # "absent"
Reread == \A r \in Readers : reader[r].pc = "adding" => reader[r].again \in ScanIds

Types == TypeOK /\ Worked /\ Reread

Statuses == {"absent", "waiting", "out", "done", "failed"}
Pcs == {"idle", "looking", "parsing", "applying", "letting go",
        "recovering", "reinstating", "adding", "ending"}

\* A job that is there stays there, and goes on naming its scan.
JobsKept ==
    \A j \in JobIds : status[j] # "absent" => status'[j] # "absent" /\ names'[j] = names[j]

JobsTyped ==
    /\ status' \in [JobIds -> Statuses]
    /\ handed' \in [JobIds -> 0 .. MaxAttempts]
    /\ names' \in [JobIds -> ScanIds \cup {None}]
    /\ by' \in [JobIds -> Readers \cup {Nobody, Gone}]
    /\ \A j \in JobIds : status'[j] # "absent" => names'[j] \in ScanIds

\* Where a reader at work may go: on with its job, or to rest.
Turns(r) ==
    \E x \in Reader :
       /\ reader' = [reader EXCEPT ![r] = x]
       /\ x.pc # "idle" => x.job \in JobIds /\ status'[x.job] # "absent"
       /\ x.pc = "adding" => x.again \in ScanIds

LEMMA ReaderType ==
    ASSUME NEW x \in Reader, NEW p \in Pcs, NEW f \in BOOLEAN
    PROVE  /\ [x EXCEPT !.pc = p] \in Reader
           /\ [x EXCEPT !.pc = p].pc = p
           /\ [x EXCEPT !.pc = p].job = x.job
           /\ [x EXCEPT !.pc = p, !.failed = f] \in Reader
           /\ [x EXCEPT !.pc = p, !.failed = f].pc = p
           /\ [x EXCEPT !.pc = p, !.failed = f].job = x.job
BY DEF Reader, Pcs

LEMMA AtWork ==
    ASSUME Types, NEW r \in Readers, reader[r].pc # "idle"
    PROVE  /\ reader[r] \in Reader
           /\ reader[r].job \in JobIds
           /\ status[reader[r].job] # "absent"
           /\ Of(r) \in ScanIds
BY DEF Types, TypeOK, Worked, Of

LEMMA GoesTurns ==
    ASSUME Types, NEW r \in Readers, reader[r].pc # "idle", JobsKept,
           NEW p \in Pcs \ {"adding"}, Goes(r, p)
    PROVE  Turns(r)
<1>0. reader[r] \in Reader /\ {"recovering", "ending"} \subseteq Pcs
  BY AtWork DEF Pcs
<1> DEFINE x == [reader[r] EXCEPT !.pc = p]
<1>1. reader' = [reader EXCEPT ![r] = x]
  BY DEF Goes
<1>2. x \in Reader /\ x.pc = p /\ x.job = reader[r].job
  BY <1>0, ReaderType
<1> QED
  BY <1>1, <1>2, AtWork DEF Turns, JobsKept

LEMMA ReadsTurns ==
    ASSUME Types, NEW r \in Readers, reader[r].pc # "idle", JobsKept,
           NEW f \in BOOLEAN, Reads(r, f)
    PROVE  Turns(r)
<1>0. reader[r] \in Reader /\ {"recovering", "ending"} \subseteq Pcs
  BY AtWork DEF Pcs
<1> DEFINE x == [reader[r] EXCEPT !.pc = "ending", !.failed = f]
<1>1. reader' = [reader EXCEPT ![r] = x]
  BY DEF Reads
<1>2. x \in Reader /\ x.pc = "ending" /\ x.job = reader[r].job
  BY <1>0 DEF Reader
<1> QED
  BY <1>1, <1>2, AtWork DEF Turns, JobsKept

LEMMA FailsTurns ==
    ASSUME Types, NEW r \in Readers, reader[r].pc # "idle", JobsKept, Fails(r)
    PROVE  Turns(r)
<1>0. reader[r] \in Reader /\ {"recovering", "ending"} \subseteq Pcs
  BY AtWork DEF Pcs
<1> DEFINE x == [reader[r] EXCEPT !.pc = "recovering", !.failed = TRUE]
<1>1. CASE reader' = [reader EXCEPT ![r] = x]
  <2>1. x \in Reader /\ x.pc = "recovering" /\ x.job = reader[r].job
    BY <1>0, ReaderType
  <2> QED
    BY <1>1, <2>1, AtWork DEF Turns, JobsKept
<1>2. CASE Reads(r, TRUE)
  BY <1>2, ReadsTurns
<1> QED
  BY <1>1, <1>2 DEF Fails

LEMMA RestTurns ==
    ASSUME Types, NEW r \in Readers, reader' = [reader EXCEPT ![r] = Resting]
    PROVE  Turns(r)
<1>1. Resting \in Reader /\ Resting.pc = "idle"
  BY DEF Resting, Reader
<1> QED
  BY <1>1 DEF Turns

\* A step that keeps the jobs' types and turns at most one reader keeps Types.
LEMMA TypesKept ==
    ASSUME Types, JobsTyped, JobsKept,
           scan' \in [ScanIds -> Scan], shown' \in ScanIds \cup {None},
           sender' \in [Senders -> Sender], events' \in 0 .. MaxEvents,
           UNCHANGED reader \/ \E r \in Readers : Turns(r)
    PROVE  Types'
<1>1. CASE UNCHANGED reader
  BY <1>1 DEF Types, TypeOK, Worked, Reread, JobsTyped, JobsKept, Statuses
<1>2. CASE \E r \in Readers : Turns(r)
  <2>1. PICK r \in Readers : Turns(r)
    BY <1>2
  <2>2. PICK x \in Reader :
           /\ reader' = [reader EXCEPT ![r] = x]
           /\ x.pc # "idle" => x.job \in JobIds /\ status'[x.job] # "absent"
           /\ x.pc = "adding" => x.again \in ScanIds
    BY <2>1 DEF Turns
  <2>3. \A q \in Readers : reader'[q] = IF q = r THEN x ELSE reader[q]
    BY <2>2 DEF Types, TypeOK
  <2>4. reader' \in [Readers -> Reader]
    BY <2>2 DEF Types, TypeOK
  <2>5. \A q \in Readers : reader'[q].pc # "idle" =>
            reader'[q].job \in JobIds /\ status'[reader'[q].job] # "absent"
    BY <2>2, <2>3 DEF Types, TypeOK, Worked, JobsKept
  <2>6. Reread'
    BY <2>2, <2>3 DEF Types, Reread
  <2> QED
    BY <2>4, <2>5, <2>6 DEF Types, TypeOK, Worked, JobsTyped, Statuses
<1> QED
  BY <1>1, <1>2

\* What the queue's operations do to the jobs, at the most they are used for here.
LEMMA JobsUnchanged ==
    ASSUME Types, UNCHANGED <<status, handed, names>>, 
           by' \in [JobIds -> Readers \cup {Nobody, Gone}]
    PROVE  JobsTyped /\ JobsKept
BY DEF Types, TypeOK, JobsTyped, JobsKept, Statuses

LEMMA JobsAdded ==
    ASSUME Types, NEW i \in ScanIds, AddParse(i)
    PROVE  JobsTyped /\ JobsKept
BY DEF AddParse, Queue!Submit, Types, TypeOK, JobsTyped, JobsKept, Statuses

LEMMA JobsMoved ==
    ASSUME Types, NEW j \in JobIds,
           \/ Queue!HandOut(j) \/ Queue!Finish(j) \/ Queue!Return(j)
           \/ Queue!GiveUp({j}) \/ Queue!Resubmit(j),
           UNCHANGED names, by' \in [JobIds -> Readers \cup {Nobody, Gone}]
    PROVE  JobsTyped /\ JobsKept
<1>0. status \in [JobIds -> Statuses] /\ handed \in [JobIds -> 0 .. MaxAttempts]
  BY DEF Types, TypeOK, Statuses
<1>1. CASE Queue!HandOut(j)
  <2>1. handed[j] + 1 \in 0 .. MaxAttempts
    BY <1>0, <1>1 DEF Queue!HandOut
  <2>2. handed' \in [JobIds -> 0 .. MaxAttempts]
    BY <1>0, <1>1, <2>1 DEF Queue!HandOut
  <2>3. status' \in [JobIds -> Statuses] /\ \A k \in JobIds : status'[k] = "absent" <=> status[k] = "absent"
    BY <1>0, <1>1 DEF Queue!HandOut, Statuses
  <2> QED
    BY <2>2, <2>3 DEF Types, TypeOK, JobsTyped, JobsKept
<1>2. CASE Queue!Finish(j)
  BY <1>2 DEF Queue!Finish, Types, TypeOK, JobsTyped, JobsKept, Statuses
<1>3. CASE Queue!Return(j)
  BY <1>3 DEF Queue!Return, Types, TypeOK, JobsTyped, JobsKept, Statuses
<1>4. CASE Queue!GiveUp({j})
  BY <1>4 DEF Queue!GiveUp, Types, TypeOK, JobsTyped, JobsKept, Statuses
<1>5. CASE Queue!Resubmit(j)
  <2>1. handed' \in [JobIds -> 0 .. MaxAttempts]
    BY <1>0, <1>5 DEF Queue!Resubmit
  <2>2. status' \in [JobIds -> Statuses] /\ \A k \in JobIds : status'[k] = "absent" <=> status[k] = "absent"
    BY <1>0, <1>5 DEF Queue!Resubmit, Statuses
  <2> QED
    BY <2>1, <2>2 DEF Types, TypeOK, JobsTyped, JobsKept
<1> QED
  BY <1>1, <1>2, <1>3, <1>4, <1>5

LEMMA HappenType ==
    ASSUME Types, NEW h, MayHappen(h)
    PROVE  events' \in 0 .. MaxEvents
<1>1. events \in 0 .. MaxEvents
  BY DEF Types, TypeOK
<1> QED
  BY <1>1 DEF MayHappen


LEMMA KeptJobs ==
    ASSUME Types, UNCHANGED jobs
    PROVE  JobsTyped /\ JobsKept
BY JobsUnchanged DEF jobs, Types, TypeOK

LEMMA KeptTables ==
    ASSUME Types
    PROVE  /\ UNCHANGED scan => scan' \in [ScanIds -> Scan]
           /\ UNCHANGED shown => shown' \in ScanIds \cup {None}
           /\ UNCHANGED sender => sender' \in [Senders -> Sender]
           /\ UNCHANGED events => events' \in 0 .. MaxEvents
BY DEF Types, TypeOK

LEMMA ScanFields ==
    ASSUME NEW s \in Scan
    PROVE  /\ [s EXCEPT !.status = "accepted", !.held = TRUE] \in Scan
           /\ [s EXCEPT !.status = "removed", !.held = FALSE] \in Scan
           /\ [s EXCEPT !.held = FALSE] \in Scan
           /\ [s EXCEPT !.status = IF @ = "removed" THEN @ ELSE "failed"] \in Scan
BY DEF Scan

LEMMA SenderType ==
    /\ NoUpload \in Sender
    /\ \A i \in ScanIds, old \in ScanIds \cup {None} : [writes |-> i, replaces |-> old] \in Sender
BY DEF NoUpload, Sender

\* What an apply leaves: the build's scan, and the row's status and mark.
LEMMA AppliedTypes ==
    ASSUME Types, NEW i \in ScanIds, Applied(i)
    PROVE  scan' \in [ScanIds -> Scan] /\ shown' = i
<1>1. PICK changes \in BOOLEAN :
        scan' = [scan EXCEPT ![i].status = IF @ = "removed" THEN @ ELSE "accepted",
                             ![i].named = @ \/ changes]
  BY DEF Applied
<1>2. scan[i] \in Scan
  BY DEF Types, TypeOK
<1> DEFINE st == IF scan[i].status = "removed" THEN scan[i].status ELSE "accepted"
           x == [[scan[i] EXCEPT !.status = st] EXCEPT !.named = scan[i].named \/ changes]
<1>3. x \in Scan
  BY <1>2 DEF Scan
<1>4. scan' = [scan EXCEPT ![i] = x]
  BY <1>1, <1>2 DEF Types, TypeOK, Scan
<1> QED
  BY <1>3, <1>4 DEF Types, TypeOK, Applied

THEOREM TypesInit == Init => Types
<1> SUFFICES ASSUME Init PROVE Types
  OBVIOUS
<1>1. scan \in [ScanIds -> Scan]
  BY DEF Init, Scan
<1>2. Resting \in Reader /\ Resting.pc = "idle" /\ NoUpload \in Sender
  BY SenderType DEF Resting, Reader
<1>3. reader \in [Readers -> Reader] /\ \A r \in Readers : reader[r].pc = "idle"
  BY <1>2 DEF Init
<1>4. sender \in [Senders -> Sender] /\ shown = None /\ events \in 0 .. MaxEvents
  BY <1>2 DEF Init
<1>5. /\ status \in [JobIds -> {"absent", "waiting", "out", "done", "failed"}]
      /\ handed \in [JobIds -> 0 .. MaxAttempts]
      /\ \A j \in JobIds : status[j] = "absent"
  BY DEF Init, Queue!Init
<1>6. names \in [JobIds -> ScanIds \cup {None}] /\ by \in [JobIds -> Readers \cup {Nobody, Gone}]
  BY DEF Init
<1> QED
  BY <1>1, <1>3, <1>4, <1>5, <1>6 DEF Types, TypeOK, Worked, Reread

LEMMA UploadTypes ==
    ASSUME Types, NEW u \in Senders, Upload(u)
    PROVE  Types'
<1>1. ASSUME NEW s \in Submissions, UploadNew(u, s)
      PROVE  Types'
  <2>1. PICK new \in ScanIds, old \in ScanIds \cup {None} :
          /\ scan' = [scan EXCEPT ![new] = [status |-> "arriving", of |-> s,
                                            held |-> TRUE, named |-> FALSE]]
          /\ sender' = [sender EXCEPT ![u] = [writes |-> new, replaces |-> old]]
    BY <1>1 DEF UploadNew
  <2>2. scan' \in [ScanIds -> Scan] /\ sender' \in [Senders -> Sender]
    BY <2>1, SenderType DEF Types, TypeOK, Scan
  <2>3. UNCHANGED <<shown, jobs, reader, events>>
    BY <1>1 DEF UploadNew
  <2> QED
    BY <2>2, <2>3, KeptJobs, KeptTables, TypesKept
<1>2. ASSUME NEW i \in ScanIds, UploadAgain(u, i)
      PROVE  Types'
  <2>1. sender' \in [Senders -> Sender]
    BY <1>2, SenderType DEF UploadAgain, Types, TypeOK
  <2>2. UNCHANGED <<scan, shown, jobs, reader, events>>
    BY <1>2 DEF UploadAgain
  <2> QED
    BY <2>1, <2>2, KeptJobs, KeptTables, TypesKept
<1>3. CASE UploadCommits(u)
  <2>1. sender[u].writes \in ScanIds
    BY <1>3 DEF UploadCommits, Types, TypeOK, Sender
  <2>2. scan' \in [ScanIds -> Scan]
    BY <1>3, ScanFields DEF UploadCommits, Types, TypeOK
  <2>3. JobsTyped /\ JobsKept
    BY <1>3, <2>1, JobsAdded DEF UploadCommits
  <2>4. sender' \in [Senders -> Sender]
    BY <1>3, SenderType DEF UploadCommits, Types, TypeOK
  <2>5. UNCHANGED <<shown, reader, events>>
    BY <1>3 DEF UploadCommits
  <2> QED
    BY <2>2, <2>3, <2>4, <2>5, KeptTables, TypesKept
<1>4. CASE UploadRollsBack(u)
  <2>1. scan' \in [ScanIds -> Scan]
    BY <1>4, ScanFields DEF UploadRollsBack, Types, TypeOK
  <2>2. sender' \in [Senders -> Sender]
    BY <1>4, SenderType DEF UploadRollsBack, Types, TypeOK
  <2>3. events' \in 0 .. MaxEvents
    BY <1>4, HappenType DEF UploadRollsBack
  <2>4. UNCHANGED <<shown, jobs, reader>>
    BY <1>4 DEF UploadRollsBack
  <2> QED
    BY <2>1, <2>2, <2>3, <2>4, KeptJobs, KeptTables, TypesKept
<1> QED
  BY <1>1, <1>2, <1>3, <1>4 DEF Upload

\* Steps of a reader that write no table: they only turn it.
LEMMA TurnTypes ==
    ASSUME Types, NEW r \in Readers, Turns(r),
           UNCHANGED <<scan, shown, jobs, sender>>, events' \in 0 .. MaxEvents
    PROVE  Types'
BY KeptJobs, KeptTables, TypesKept

LEMMA ClaimTypes ==
    ASSUME Types, NEW r \in Readers, NEW j \in JobIds, Claim(r, j)
    PROVE  Types'
<1>1. by' \in [JobIds -> Readers \cup {Nobody, Gone}]
  BY DEF Claim, Types, TypeOK
<1>2. JobsTyped /\ JobsKept
  BY <1>1, JobsMoved DEF Claim
<1>3. PICK last \in BOOLEAN :
        reader' = [reader EXCEPT ![r] = [Resting EXCEPT !.pc = "looking", !.job = j, !.last = last]]
  BY DEF Claim
<1> DEFINE x == [Resting EXCEPT !.pc = "looking", !.job = j, !.last = last]
<1>4. x \in Reader /\ x.pc = "looking" /\ x.job = j
  BY DEF Resting, Reader
<1>5. status'[j] = "out"
  BY DEF Claim, Queue!HandOut, Types, TypeOK
<1>6. Turns(r)
  BY <1>3, <1>4, <1>5 DEF Turns
<1>7. events' \in 0 .. MaxEvents
  BY HappenType, KeptTables DEF Claim
<1>8. UNCHANGED <<scan, shown, sender>>
  BY DEF Claim
<1> QED
  BY <1>2, <1>6, <1>7, <1>8, KeptTables, TypesKept

\* The steps up to the apply.
LEMMA ReadTypes ==
    ASSUME Types, NEW r \in Readers,
           \/ Look(r) \/ ReadFails(r) \/ TakeBuild(r) \/ ApplyRefused(r)
           \/ KeepsThem(r) \/ Shutdown(r)
    PROVE  Types'
<1>1. /\ reader[r].pc # "idle"
      /\ UNCHANGED <<scan, shown, jobs, sender>>
  BY DEF Look, ReadFails, TakeBuild, ApplyRefused, KeepsThem, Shutdown
<1>2. JobsKept
  BY <1>1, KeptJobs
<1>3. Fails(r) \/ Reads(r, TRUE) \/ Reads(r, FALSE) \/ Goes(r, "parsing") \/ Goes(r, "applying")
  BY DEF Look, ReadFails, TakeBuild, ApplyRefused, KeepsThem, Shutdown
<1>4. {"parsing", "applying"} \subseteq Pcs \ {"adding"}
  BY DEF Pcs
<1>5. Turns(r)
  BY <1>1, <1>2, <1>3, <1>4, GoesTurns, ReadsTurns, FailsTurns
<1>6. events' \in 0 .. MaxEvents
  BY HappenType, KeptTables DEF Look, ReadFails, TakeBuild, ApplyRefused, KeepsThem, Shutdown
<1> QED
  BY <1>1, <1>5, <1>6, TurnTypes

LEMMA ApplyTypes ==
    ASSUME Types, NEW r \in Readers, Apply(r) \/ ApplyAnswerLost(r)
    PROVE  Types'
<1>1. reader[r].pc # "idle" /\ Applied(Of(r)) /\ UNCHANGED <<jobs, sender>>
  BY DEF Apply, ApplyAnswerLost
<1>2. JobsTyped /\ JobsKept
  BY <1>1, KeptJobs
<1>3. scan' \in [ScanIds -> Scan] /\ shown' \in ScanIds
  BY <1>1, AtWork, AppliedTypes
<1>4. Fails(r) \/ Reads(r, FALSE) \/ Goes(r, "letting go")
  BY DEF Apply, ApplyAnswerLost
<1>5. "letting go" \in Pcs \ {"adding"}
  BY DEF Pcs
<1>6. Turns(r)
  BY <1>1, <1>2, <1>4, <1>5, GoesTurns, ReadsTurns, FailsTurns
<1>7. events' \in 0 .. MaxEvents
  BY HappenType, KeptTables DEF Apply, ApplyAnswerLost
<1> QED
  BY <1>1, <1>2, <1>3, <1>6, <1>7, KeptTables, TypesKept

LEMMA RecoveryTypes ==
    ASSUME Types, NEW r \in Readers,
           LetGo(r) \/ MarkFailed(r) \/ Reinstate(r) \/ ReinstateAdds(r) \/ RecoveryFails(r)
    PROVE  Types'
<1>0. {"ending", "reinstating"} \subseteq Pcs \ {"adding"}
  BY DEF Pcs
<1>1. CASE LetGo(r)
  <2>1. scan' \in [ScanIds -> Scan]
    BY <1>1, AtWork, ScanFields DEF LetGo, Types, TypeOK
  <2>2. reader[r].pc # "idle" /\ Reads(r, FALSE) /\ UNCHANGED <<shown, jobs, sender, events>>
    BY <1>1 DEF LetGo
  <2> QED
    BY <2>1, <2>2, ReadsTurns, KeptJobs, KeptTables, TypesKept
<1>2. CASE MarkFailed(r)
  <2>1. scan' \in [ScanIds -> Scan]
    BY <1>2, AtWork, ScanFields DEF MarkFailed, Types, TypeOK
  <2>2. reader[r].pc # "idle" /\ UNCHANGED <<shown, jobs, sender, events>>
    BY <1>2 DEF MarkFailed
  <2>3. Goes(r, "reinstating") \/ Goes(r, "ending")
    BY <1>2 DEF MarkFailed
  <2> QED
    BY <1>0, <2>1, <2>2, <2>3, GoesTurns, KeptJobs, KeptTables, TypesKept
<1>3. CASE Reinstate(r)
  <2>1. reader[r].pc # "idle" /\ UNCHANGED <<scan, shown, jobs, sender, events>>
    BY <1>3 DEF Reinstate
  <2>2. CASE Goes(r, "ending")
    BY <1>0, <2>1, <2>2, GoesTurns, KeptJobs, KeptTables, TurnTypes
  <2>3. ASSUME NEW n \in ScanIds,
               reader' = [reader EXCEPT ![r].pc = "adding", ![r].again = n]
        PROVE  Types'
    <3> DEFINE x == [reader[r] EXCEPT !.pc = "adding", !.again = n]
    <3>1. reader' = [reader EXCEPT ![r] = x]
      BY <2>3
    <3>2. x \in Reader /\ x.pc = "adding" /\ x.job = reader[r].job /\ x.again = n
      BY <2>1, AtWork DEF Reader
    <3>3. JobsKept
      BY <2>1, KeptJobs
    <3>4. Turns(r)
      BY <2>1, <3>1, <3>2, <3>3, AtWork DEF Turns, JobsKept
    <3> QED
      BY <2>1, <3>4, KeptTables, TurnTypes
  <2> QED
    BY <1>3, <2>2, <2>3 DEF Reinstate
<1>4. CASE ReinstateAdds(r)
  <2>1. reader[r].pc = "adding" /\ UNCHANGED <<scan, shown, sender, events>>
    BY <1>4 DEF ReinstateAdds
  <2>2. JobsTyped /\ JobsKept
    BY <1>4, <2>1, JobsAdded DEF ReinstateAdds, Types, Reread
  <2>3. Turns(r)
    BY <1>0, <1>4, <2>1, <2>2, GoesTurns DEF ReinstateAdds
  <2> QED
    BY <2>1, <2>2, <2>3, KeptTables, TypesKept
<1>5. CASE RecoveryFails(r)
  <2>1. reader[r].pc # "idle" /\ Goes(r, "ending") /\ UNCHANGED <<scan, shown, jobs, sender>>
    BY <1>5 DEF RecoveryFails
  <2>2. events' \in 0 .. MaxEvents
    BY <1>5, HappenType DEF RecoveryFails
  <2> QED
    BY <1>0, <2>1, <2>2, GoesTurns, KeptJobs, TurnTypes
<1> QED
  BY <1>1, <1>2, <1>3, <1>4, <1>5

LEMMA EndTypes ==
    ASSUME Types, NEW r \in Readers, End(r)
    PROVE  Types'
<1>1. /\ reader[r].pc # "idle"
      /\ reader' = [reader EXCEPT ![r] = Resting]
      /\ UNCHANGED <<scan, shown, names, sender, events>>
  BY DEF End
<1>2. JobsTyped /\ JobsKept
  <2>1. CASE UNCHANGED <<status, handed, by>>
    BY <1>1, <2>1, JobsUnchanged DEF Types, TypeOK
  <2>2. CASE ~UNCHANGED <<status, handed, by>>
    <3>1. by' \in [JobIds -> Readers \cup {Nobody, Gone}]
      BY <2>2 DEF End, Types, TypeOK
    <3>2. \/ Queue!Finish(reader[r].job) \/ Queue!Return(reader[r].job)
          \/ Queue!GiveUp({reader[r].job})
      BY <2>2 DEF End
    <3> QED
      BY <1>1, <3>1, <3>2, AtWork, JobsMoved
  <2> QED
    BY <2>1, <2>2
<1> QED
  BY <1>1, <1>2, RestTurns, KeptTables, TypesKept

LEMMA UpkeepTypes ==
    ASSUME Types,
           (\E r \in Readers : Crash(r)) \/ (\E j \in JobIds : Bury(j) \/ Requeue(j))
    PROVE  Types'
<1>1. ASSUME NEW r \in Readers, Crash(r)
      PROVE  Types'
  <2>1. by' \in [JobIds -> Readers \cup {Nobody, Gone}]
    BY <1>1 DEF Crash, LetsGoOf, Types, TypeOK
  <2>2. UNCHANGED <<scan, shown, status, handed, names, sender>>
    BY <1>1 DEF Crash
  <2>3. Turns(r)
    BY <1>1, RestTurns DEF Crash
  <2>4. events' \in 0 .. MaxEvents
    BY <1>1, HappenType DEF Crash
  <2> QED
    BY <2>1, <2>2, <2>3, <2>4, JobsUnchanged, KeptTables, TypesKept
<1>2. ASSUME NEW j \in JobIds, Bury(j)
      PROVE  Types'
  <2>1. by' \in [JobIds -> Readers \cup {Nobody, Gone}]
    BY <1>2 DEF Bury, Types, TypeOK
  <2>2. JobsTyped /\ JobsKept
    BY <1>2, <2>1, JobsMoved DEF Bury
  <2> QED
    BY <1>2, <2>2, KeptTables, TypesKept DEF Bury
<1>3. ASSUME NEW j \in JobIds, Requeue(j)
      PROVE  Types'
  <2>1. by' \in [JobIds -> Readers \cup {Nobody, Gone}]
    BY <1>3 DEF Requeue, Types, TypeOK
  <2>2. JobsTyped /\ JobsKept
    BY <1>3, <2>1, JobsMoved DEF Requeue
  <2>3. events' \in 0 .. MaxEvents
    BY <1>3, HappenType DEF Requeue
  <2> QED
    BY <1>3, <2>2, <2>3, KeptTables, TypesKept DEF Requeue
<1> QED
  BY <1>1, <1>2, <1>3

LEMMA TypesNext == Types /\ [Next]_vars => Types'
<1> SUFFICES ASSUME Types, [Next]_vars PROVE Types'
  OBVIOUS
<1>1. CASE UNCHANGED vars
  BY <1>1, KeptJobs, KeptTables, TypesKept DEF vars
<1>2. CASE \E u \in Senders : Upload(u)
  BY <1>2, UploadTypes
<1>3. CASE \E r \in Readers : Reading(r) \/ Crash(r) \/ Shutdown(r)
  BY <1>3, ClaimTypes, ReadTypes, ApplyTypes, RecoveryTypes, EndTypes, UpkeepTypes DEF Reading
<1>4. CASE \E j \in JobIds : Bury(j) \/ Requeue(j)
  BY <1>4, UpkeepTypes
<1> QED
  BY <1>1, <1>2, <1>3, <1>4 DEF Next

\* Every table and every worker keeps its shape, whatever goes wrong.
THEOREM TypeCorrect == Spec => []TypeOK
<1>1. Types => TypeOK
  BY DEF Types
<1> QED
  BY <1>1, TypesInit, TypesNext, PTL DEF Spec

----------------------------------------------------------------------------
(* The jobs.  Each step is one the queue promises, so that what JobQueue is   *)
(* proved to implement is all that is asked of it here.                       *)

\* Uploads, readers, recoveries and operators use the queue as it may be used: a job
\* is handed out, settled, buried or resubmitted only as WorkQueue has it, whatever
\* goes wrong (AddTx, Claim, Settle, Bury, Requeue).
THEOREM JobsAreTheQueues == Spec => Queue!Spec
<1>1. ASSUME Types, Next PROVE Queue!Next \/ UNCHANGED <<status, handed>>
  <2>1. ASSUME NEW i, AddParse(i) PROVE Queue!Next
    BY <2>1 DEF AddParse, Queue!Next
  <2>2. CASE \E u \in Senders : Upload(u)
    BY <2>1, <2>2, Zenon DEF Upload, UploadNew, UploadAgain, UploadCommits, UploadRollsBack, jobs
  <2>3. ASSUME NEW j \in JobIds, Queue!HandOut(j) \/ Queue!Finish(j) \/ Queue!Return(j)
                                 \/ Queue!Resubmit(j) \/ Queue!GiveUp({j})
        PROVE  Queue!Next
    <3>1. {j} \in SUBSET JobIds
      OBVIOUS
    <3> QED
      BY <2>3, <3>1, Zenon DEF Queue!Next
  <2>4. ASSUME NEW r \in Readers, End(r) PROVE Queue!Next \/ UNCHANGED <<status, handed>>
    <3>1. CASE Holds(r)
      <4>1. reader[r].job \in JobIds
        BY <1>1, <2>4, AtWork DEF End
      <4>2. \/ Queue!Finish(reader[r].job) \/ Queue!Return(reader[r].job)
            \/ Queue!GiveUp({reader[r].job})
        BY <2>4, <3>1, Zenon DEF End
      <4> QED
        BY <2>3, <4>1, <4>2
    <3> QED
      BY <2>4, <3>1, Zenon DEF End
  <2>5. ASSUME NEW r \in Readers, Reading(r) \/ Crash(r) \/ Shutdown(r)
        PROVE  Queue!Next \/ UNCHANGED <<status, handed>>
    <3>1. CASE \E j \in JobIds : Claim(r, j)
      BY <2>3, <3>1 DEF Claim
    <3>2. CASE ReinstateAdds(r)
      BY <2>1, <3>2 DEF ReinstateAdds
    <3>3. CASE \/ Look(r) \/ ReadFails(r) \/ TakeBuild(r) \/ Apply(r) \/ ApplyAnswerLost(r)
               \/ ApplyRefused(r) \/ LetGo(r) \/ KeepsThem(r) \/ MarkFailed(r) \/ Reinstate(r)
               \/ RecoveryFails(r) \/ Crash(r) \/ Shutdown(r)
      BY <3>3, Zenon DEF Look, ReadFails, TakeBuild, Apply, ApplyAnswerLost, ApplyRefused, LetGo,
                  KeepsThem, MarkFailed, Reinstate, RecoveryFails, Crash, Shutdown, jobs
    <3> QED
      BY <2>4, <2>5, <3>1, <3>2, <3>3 DEF Reading
  <2>6. CASE \E j \in JobIds : Bury(j) \/ Requeue(j)
    BY <2>3, <2>6 DEF Bury, Requeue
  <2> QED
    BY <1>1, <2>2, <2>5, <2>6 DEF Next
<1>2. Types /\ [Next]_vars => [Queue!Next]_<<status, handed>>
  BY <1>1 DEF vars, jobs
<1>3. Init => Queue!Init
  BY DEF Init
<1> QED
  BY <1>2, <1>3, TypesInit, TypesNext, PTL DEF Spec, Queue!Spec

----------------------------------------------------------------------------
(* The graph's rows and the scans they name.  A re-sent attempt replaces a row *)
(* nothing names, and the lock on that row keeps an apply from naming it before *)
(* the replacement commits.                                                 *)

Unnamed == \A u \in Senders : sender[u].replaces # None => ~scan[sender[u].replaces].named

RowInv == Types /\ Unnamed /\ RowsNameAScan

\* Names aside, and no more to be removed than there was.
LEMMA StaysUnnamed ==
    ASSUME RowInv,
           \A i \in ScanIds : scan'[i].named = scan[i].named,
           \A v \in Senders : sender'[v].replaces \in {None, sender[v].replaces}
    PROVE  Unnamed'
<1>1. \A v \in Senders : sender[v].replaces \in ScanIds \cup {None}
  BY DEF RowInv, Types, TypeOK, Sender
<1> QED
  BY <1>1 DEF RowInv, Unnamed

\* An upload decides and writes its row.
Decides(u) == \/ \E s \in Submissions : UploadNew(u, s)
              \/ \E i \in ScanIds : UploadAgain(u, i)

\* A reader writes the scan table.
Writes(r) == Apply(r) \/ ApplyAnswerLost(r) \/ LetGo(r) \/ MarkFailed(r)

LEMMA WriterFacts ==
    ASSUME NEW r, Writes(r)
    PROVE  /\ reader[r].pc # "idle" /\ UNCHANGED sender
           /\ Applied(Of(r)) \/ LetGo(r) \/ MarkFailed(r)
BY DEF Writes, Apply, ApplyAnswerLost, LetGo, MarkFailed

\* Only these steps write the scan table or an upload's plan.
LEMMA RowWriters ==
    ASSUME [Next]_vars
    PROVE  \/ UNCHANGED <<scan, sender>>
           \/ \E u \in Senders : Decides(u) \/ UploadCommits(u) \/ UploadRollsBack(u)
           \/ \E r \in Readers : Writes(r)
<1>1. CASE UNCHANGED vars
  BY <1>1 DEF vars
<1>2. ASSUME NEW u \in Senders, Upload(u)
      PROVE  Decides(u) \/ UploadCommits(u) \/ UploadRollsBack(u)
  BY <1>2 DEF Upload, Decides
<1>3. ASSUME NEW r \in Readers, Reading(r)
      PROVE  \/ UNCHANGED <<scan, sender>>
             \/ Writes(r)
  BY <1>3 DEF Reading, Writes, Claim, Look, ReadFails, TakeBuild, ApplyRefused, KeepsThem,
              Reinstate, ReinstateAdds, RecoveryFails, End
<1>4. ASSUME NEW r \in Readers, Crash(r) \/ Shutdown(r)
      PROVE  UNCHANGED <<scan, sender>>
  BY <1>4 DEF Crash, Shutdown
<1>5. ASSUME NEW j \in JobIds, Bury(j) \/ Requeue(j)
      PROVE  UNCHANGED <<scan, sender>>
  BY <1>5 DEF Bury, Requeue
<1> QED
  BY <1>1, <1>2, <1>3, <1>4, <1>5 DEF Next

LEMMA UploadRows ==
    ASSUME RowInv, NEW u \in Senders,
           Decides(u) \/ UploadCommits(u) \/ UploadRollsBack(u)
    PROVE  Unnamed' /\ RowsNameAScan'
<1>0. scan \in [ScanIds -> Scan] /\ sender \in [Senders -> Sender]
  BY DEF RowInv, Types, TypeOK
<1>1. ASSUME NEW s \in Submissions, UploadNew(u, s)
      PROVE  Unnamed' /\ RowsNameAScan'
  <2>1. PICK new \in ScanIds, old \in ScanIds \cup {None} :
          /\ IF Seen(s) = {} THEN old = None ELSE old \in Seen(s)
          /\ scan' = [scan EXCEPT ![new] = [status |-> "arriving", of |-> s,
                                            held |-> TRUE, named |-> FALSE]]
          /\ sender' = [sender EXCEPT ![u] = [writes |-> new, replaces |-> old]]
    BY <1>1 DEF UploadNew
  <2>2. old # None => ~scan[old].named
    BY <1>1, <2>1 DEF UploadNew, Seen, Named
  <2>3. \A i \in ScanIds : scan'[i].named => scan[i].named /\ scan'[i] = scan[i]
    BY <1>0, <2>1
  <2>4. Unnamed'
    BY <1>0, <2>1, <2>2, <2>3 DEF RowInv, Unnamed, Sender
  <2> QED
    BY <2>3, <2>4 DEF RowInv, RowsNameAScan
<1>2. ASSUME NEW i \in ScanIds, UploadAgain(u, i)
      PROVE  Unnamed' /\ RowsNameAScan'
  BY <1>0, <1>2 DEF UploadAgain, RowInv, Unnamed, RowsNameAScan
<1>3. CASE UploadCommits(u)
  <2>1. \A k \in ScanIds : scan'[k].named = scan[k].named
    BY <1>0, <1>3 DEF UploadCommits, Scan
  <2>2. \A k \in ScanIds : k = sender[u].replaces => ~scan[k].named
    BY DEF RowInv, Unnamed, ScanIds, None
  <2>3. \A k \in ScanIds : scan'[k].named => scan'[k].status = "accepted" \/ scan'[k] = scan[k]
    BY <1>0, <1>3, <2>1, <2>2 DEF UploadCommits, Scan
  <2>4. \A v \in Senders : sender'[v].replaces \in {None, sender[v].replaces}
    BY <1>0, <1>3 DEF UploadCommits, NoUpload
  <2>5. Unnamed'
    BY <2>1, <2>4, StaysUnnamed
  <2> QED
    BY <2>1, <2>3, <2>5 DEF RowInv, RowsNameAScan
<1>4. CASE UploadRollsBack(u)
  <2>1. \A k \in ScanIds : scan'[k].named = scan[k].named
    BY <1>0, <1>4 DEF UploadRollsBack, Scan
  <2>2. \A k \in ScanIds : scan'[k].named => scan'[k] = scan[k]
    BY <1>0, <1>4, ZenonT(60) DEF UploadRollsBack, Scan, RowInv, RowsNameAScan
  <2>3. Unnamed'
    BY <1>0, <1>4, <2>1 DEF UploadRollsBack, NoUpload, RowInv, Unnamed, Sender
  <2> QED
    BY <2>1, <2>2, <2>3 DEF RowInv, RowsNameAScan
<1> QED
  BY <1>1, <1>2, <1>3, <1>4 DEF Decides

LEMMA ReaderRows ==
    ASSUME RowInv, NEW r \in Readers, Writes(r)
    PROVE  Unnamed' /\ RowsNameAScan'
<1>0. /\ scan \in [ScanIds -> Scan] /\ sender \in [Senders -> Sender]
      /\ Of(r) \in ScanIds
  BY AtWork, WriterFacts DEF RowInv, Types, TypeOK
<1> DEFINE i == Of(r)
<1>1. CASE Applied(i) /\ UNCHANGED sender
  <2>1. PICK changes \in BOOLEAN :
          /\ changes => scan[i].status # "removed"
          /\ scan' = [scan EXCEPT ![i].status = IF @ = "removed" THEN @ ELSE "accepted",
                                  ![i].named = @ \/ changes]
    BY <1>1 DEF Applied
  <2> DEFINE st == IF scan[i].status = "removed" THEN scan[i].status ELSE "accepted"
             x == [[scan[i] EXCEPT !.status = st] EXCEPT !.named = scan[i].named \/ changes]
  <2>2. scan' = [scan EXCEPT ![i] = x]
    BY <1>0, <2>1 DEF Scan
  <2>3. x.status = st /\ (x.named => scan[i].named \/ changes)
    BY <1>0 DEF Scan
  <2>4. scan'[i] = x /\ \A k \in ScanIds \ {i} : scan'[k] = scan[k]
    BY <1>0, <2>2
  <2>5. x.named => x.status = "accepted"
    BY <1>0, <2>1, <2>3 DEF RowInv, RowsNameAScan
  <2>6. \A u \in Senders : sender[u].replaces # i
    BY <1>1 DEF Applied, Locked
  <2> HIDE DEF x, i
  <2>7. Unnamed'
    BY <1>0, <1>1, <2>4, <2>6 DEF RowInv, Unnamed, Sender
  <2> QED
    BY <2>4, <2>5, <2>7 DEF RowInv, RowsNameAScan
<1>2. CASE LetGo(r)
  <2>1. \A k \in ScanIds : scan'[k].named = scan[k].named /\ scan'[k].status = scan[k].status
    BY <1>0, <1>2 DEF LetGo, Scan
  <2>2. \A v \in Senders : sender'[v].replaces \in {None, sender[v].replaces}
    BY <1>2 DEF LetGo
  <2>3. Unnamed'
    BY <2>1, <2>2, StaysUnnamed
  <2>4. RowsNameAScan'
    BY <2>1 DEF RowInv, RowsNameAScan
  <2> QED
    BY <2>3, <2>4
<1>3. CASE MarkFailed(r)
  <2>1. \A k \in ScanIds : /\ scan'[k].named = scan[k].named
                            /\ scan'[k].status \in {scan[k].status, "failed"}
    BY <1>0, <1>3 DEF MarkFailed, Scan
  <2> QED
    BY <1>0, <1>3, <2>1 DEF MarkFailed, RowInv, Unnamed, RowsNameAScan, Sender
<1> QED
  BY <1>1, <1>2, <1>3, WriterFacts

LEMMA RowNext == RowInv /\ [Next]_vars => RowInv'
<1> SUFFICES ASSUME RowInv, [Next]_vars PROVE RowInv'
  OBVIOUS
<1>1. Types'
  BY TypesNext DEF RowInv
<1>2. UNCHANGED <<scan, sender>> => Unnamed' /\ RowsNameAScan'
  BY DEF RowInv, Unnamed, RowsNameAScan
<1> QED
  BY <1>1, <1>2, RowWriters, UploadRows, ReaderRows DEF RowInv

LEMMA RowInit == Init => RowInv
<1> SUFFICES ASSUME Init PROVE RowInv
  OBVIOUS
<1>1. (\A u \in Senders : sender[u] = NoUpload) /\ (\A i \in ScanIds : ~scan[i].named)
  BY DEF Init
<1> QED
  BY <1>1, TypesInit DEF RowInv, Unnamed, RowsNameAScan, NoUpload

\* Whatever is re-sent, retried, taken over or lost, a row of the graph points at
\* a scan that is there.
THEOREM GraphNamesWhatIsThere == Spec => []RowsNameAScan
<1>1. RowInv => RowsNameAScan
  BY DEF RowInv
<1> QED
  BY <1>1, RowInit, RowNext, PTL DEF Spec

----------------------------------------------------------------------------
(* The order scans are applied in.  One reader at a time is between taking the *)
(* build and writing it, and while it is, nothing it asked can change.      *)

InTurn ==
    \A r \in Readers : reader[r].pc = "applying" =>
        shown <= Of(r) /\ \A q \in Readers : reader[q].pc = "applying" => q = r

OrderInv == Types /\ InTurn

\* A reader that is not left applying keeps the turn, and so does an apply.
LEMMA TurnKept ==
    ASSUME OrderInv, JobsKept,
           \/ UNCHANGED <<reader, shown>>
           \/ \E r \in Readers, x \in Reader :
                 /\ reader' = [reader EXCEPT ![r] = x] /\ x.pc # "applying"
                 /\ UNCHANGED shown \/ reader[r].pc = "applying"
    PROVE  InTurn'
<1>0. reader \in [Readers -> Reader]
  BY DEF OrderInv, Types, TypeOK
<1>1. CASE UNCHANGED <<reader, shown>>
  <2>1. \A q \in Readers : reader[q].pc = "applying" => names'[reader[q].job] = names[reader[q].job]
    BY AtWork DEF OrderInv, JobsKept
  <2> QED
    BY <1>1, <2>1 DEF OrderInv, InTurn, Of
<1>2. CASE \E r \in Readers, x \in Reader :
              /\ reader' = [reader EXCEPT ![r] = x] /\ x.pc # "applying"
              /\ UNCHANGED shown \/ reader[r].pc = "applying"
  <2>1. PICK r \in Readers, x \in Reader :
          /\ reader' = [reader EXCEPT ![r] = x] /\ x.pc # "applying"
          /\ UNCHANGED shown \/ reader[r].pc = "applying"
    BY <1>2
  <2>2. \A q \in Readers : reader'[q].pc = "applying" => q # r /\ reader'[q] = reader[q]
    BY <1>0, <2>1
  <2>3. \A q \in Readers : reader'[q].pc = "applying" =>
            reader'[q] = reader[q] /\ UNCHANGED shown
            /\ names'[reader[q].job] = names[reader[q].job]
    BY <2>1, <2>2, AtWork DEF OrderInv, InTurn, JobsKept
  <2> QED
    BY <2>3 DEF OrderInv, InTurn, Of
<1> QED
  BY <1>1, <1>2

\* What each step does to readers and to what the build shows.
LEMMA TurnSteps ==
    ASSUME Types, [Next]_vars
    PROVE  \/ UNCHANGED <<reader, shown>>
           \/ \E r \in Readers : TakeBuild(r)
           \/ \E r \in Readers, x \in Reader :
                 /\ reader' = [reader EXCEPT ![r] = x] /\ x.pc # "applying"
                 /\ \/ UNCHANGED shown
                    \/ reader[r].pc = "applying" /\ shown' = Of(r)
<1> DEFINE Moved(r, x) ==
             /\ reader' = [reader EXCEPT ![r] = x] /\ x.pc # "applying"
             /\ \/ UNCHANGED shown
                \/ reader[r].pc = "applying" /\ shown' = Of(r)
<1>1. CASE UNCHANGED vars
  BY <1>1 DEF vars
<1>2. ASSUME NEW u \in Senders, Upload(u)
      PROVE  UNCHANGED <<reader, shown>>
  BY <1>2 DEF Upload, UploadNew, UploadAgain, UploadCommits, UploadRollsBack
<1>3. ASSUME NEW j \in JobIds, Bury(j) \/ Requeue(j)
      PROVE  UNCHANGED <<reader, shown>>
  BY <1>3 DEF Bury, Requeue
<1>4. ASSUME NEW r \in Readers, Reading(r) \/ Crash(r) \/ Shutdown(r)
      PROVE  TakeBuild(r) \/ \E x \in Reader : Moved(r, x)
  <2>0. reader[r] \in Reader
    BY DEF Types, TypeOK
  <2>1. ASSUME NEW p \in Pcs \ {"applying"}, Goes(r, p),
               UNCHANGED shown \/ (reader[r].pc = "applying" /\ shown' = Of(r))
        PROVE  \E x \in Reader : Moved(r, x)
    <3>1. [reader[r] EXCEPT !.pc = p] \in Reader /\ [reader[r] EXCEPT !.pc = p].pc = p
      BY <2>0, ReaderType
    <3> QED
      BY <2>1, <3>1 DEF Goes
  <2>2. ASSUME NEW p \in {"ending", "recovering"}, NEW f \in BOOLEAN,
               reader' = [reader EXCEPT ![r].pc = p, ![r].failed = f],
               UNCHANGED shown \/ (reader[r].pc = "applying" /\ shown' = Of(r))
        PROVE  \E x \in Reader : Moved(r, x)
    <3> DEFINE x == [reader[r] EXCEPT !.pc = p, !.failed = f]
    <3>1. x \in Reader /\ x.pc = p
      BY <2>0 DEF Reader
    <3>2. reader' = [reader EXCEPT ![r] = x]
      BY <2>2
    <3> QED
      BY <2>2, <3>1, <3>2
  <2>3. ASSUME Fails(r) \/ Reads(r, TRUE) \/ Reads(r, FALSE),
               UNCHANGED shown \/ (reader[r].pc = "applying" /\ shown' = Of(r))
        PROVE  \E x \in Reader : Moved(r, x)
    BY <2>2, <2>3 DEF Fails, Reads
  <2>4. {"ending", "parsing", "letting go", "reinstating"} \subseteq Pcs \ {"applying"}
    BY DEF Pcs
  <2>5. ASSUME NEW j \in JobIds, Claim(r, j)
        PROVE  \E x \in Reader : Moved(r, x)
    <3>1. PICK last \in BOOLEAN :
            reader' = [reader EXCEPT ![r] = [Resting EXCEPT !.pc = "looking", !.job = j,
                                                            !.last = last]]
      BY <2>5 DEF Claim
    <3> DEFINE x == [Resting EXCEPT !.pc = "looking", !.job = j, !.last = last]
    <3>2. x \in Reader /\ x.pc = "looking"
      BY DEF Resting, Reader
    <3> QED
      BY <2>5, <3>1, <3>2 DEF Claim
  <2>6. CASE Look(r) \/ ReadFails(r) \/ ApplyRefused(r) \/ KeepsThem(r) \/ Shutdown(r) \/ LetGo(r)
    <3>1. Fails(r) \/ Reads(r, TRUE) \/ Reads(r, FALSE) \/ Goes(r, "parsing")
      BY <2>6 DEF Look, ReadFails, ApplyRefused, KeepsThem, Shutdown, LetGo
    <3>2. UNCHANGED shown
      BY <2>6 DEF Look, ReadFails, ApplyRefused, KeepsThem, Shutdown, LetGo
    <3> QED
      BY <2>1, <2>3, <2>4, <3>1, <3>2
  <2>7. CASE Apply(r) \/ ApplyAnswerLost(r)
    <3>1. Fails(r) \/ Reads(r, FALSE) \/ Goes(r, "letting go")
      BY <2>7 DEF Apply, ApplyAnswerLost
    <3>2. reader[r].pc = "applying" /\ shown' = Of(r)
      BY <2>7 DEF Apply, ApplyAnswerLost, Applied
    <3> QED
      BY <2>1, <2>3, <2>4, <3>1, <3>2
  <2>8. CASE MarkFailed(r) \/ ReinstateAdds(r) \/ RecoveryFails(r)
    <3>1. (Goes(r, "ending") \/ Goes(r, "reinstating")) /\ UNCHANGED shown
      BY <2>8 DEF MarkFailed, ReinstateAdds, RecoveryFails
    <3> QED
      BY <2>1, <2>4, <3>1
  <2>9. CASE Reinstate(r)
    <3>1. UNCHANGED shown
      BY <2>9 DEF Reinstate
    <3>2. ASSUME NEW n \in ScanIds, reader' = [reader EXCEPT ![r].pc = "adding", ![r].again = n]
          PROVE  \E x \in Reader : Moved(r, x)
      <4> DEFINE x == [reader[r] EXCEPT !.pc = "adding", !.again = n]
      <4>1. x \in Reader /\ x.pc = "adding" /\ reader' = [reader EXCEPT ![r] = x]
        BY <2>0, <3>2 DEF Reader
      <4> QED
        BY <3>1, <4>1
    <3> QED
      BY <2>1, <2>4, <2>9, <3>1, <3>2 DEF Reinstate
  <2>10. CASE End(r) \/ Crash(r)
    <3>1. reader' = [reader EXCEPT ![r] = Resting] /\ UNCHANGED shown
      BY <2>10 DEF End, Crash
    <3>2. Resting \in Reader /\ Resting.pc = "idle"
      BY DEF Resting, Reader
    <3> QED
      BY <3>1, <3>2
  <2> QED
    BY <1>4, <2>5, <2>6, <2>7, <2>8, <2>9, <2>10 DEF Reading
<1> QED
  BY <1>1, <1>2, <1>3, <1>4 DEF Next

LEMMA KeepsJobs ==
    ASSUME Types, [Next]_vars
    PROVE  JobsKept
<1>1. CASE UNCHANGED vars
  BY <1>1, KeptJobs DEF vars
<1>2. ASSUME NEW i \in ScanIds, AddParse(i)
      PROVE  JobsKept
  BY <1>2, JobsAdded
<1>3. ASSUME NEW u \in Senders, Upload(u)
      PROVE  JobsKept
  <2>1. sender[u] \in Sender
    BY DEF Types, TypeOK
  <2>2. UploadCommits(u) => AddParse(sender[u].writes) /\ sender[u].writes \in ScanIds
    BY <2>1 DEF UploadCommits, Sender
  <2>3. ~UploadCommits(u) => UNCHANGED jobs
    BY <1>3 DEF Upload, UploadNew, UploadAgain, UploadRollsBack
  <2> QED
    BY <1>2, <2>2, <2>3, KeptJobs
<1>4. ASSUME NEW j \in JobIds, UNCHANGED names, by' \in [JobIds -> Readers \cup {Nobody, Gone}],
             \/ Queue!HandOut(j) \/ Queue!Finish(j) \/ Queue!Return(j)
             \/ Queue!GiveUp({j}) \/ Queue!Resubmit(j)
      PROVE  JobsKept
  BY <1>4, JobsMoved
<1>5. ASSUME UNCHANGED <<status, names>>
      PROVE  JobsKept
  BY <1>5 DEF JobsKept
<1>6. ASSUME NEW r \in Readers, NEW j \in JobIds, Claim(r, j)
      PROVE  JobsKept
  <2>1. by' \in [JobIds -> Readers \cup {Nobody, Gone}]
    BY <1>6 DEF Claim, Types, TypeOK
  <2> QED
    BY <1>4, <1>6, <2>1 DEF Claim
<1>7. ASSUME NEW r \in Readers, ReinstateAdds(r)
      PROVE  JobsKept
  BY <1>2, <1>7 DEF ReinstateAdds, Types, Reread
<1>8. ASSUME NEW r \in Readers, End(r)
      PROVE  JobsKept
  <2>1. reader[r].pc # "idle" /\ UNCHANGED names
    BY <1>8 DEF End
  <2>2. by' \in [JobIds -> Readers \cup {Nobody, Gone}]
    BY <1>8 DEF End, Types, TypeOK
  <2>3. \/ UNCHANGED status
        \/ Queue!Finish(reader[r].job) \/ Queue!Return(reader[r].job)
        \/ Queue!GiveUp({reader[r].job})
    BY <1>8 DEF End
  <2> QED
    BY <1>4, <1>5, <2>1, <2>2, <2>3, AtWork
<1>9. ASSUME NEW r \in Readers,
             \/ Look(r) \/ ReadFails(r) \/ TakeBuild(r) \/ Apply(r) \/ ApplyAnswerLost(r)
             \/ ApplyRefused(r) \/ LetGo(r) \/ KeepsThem(r) \/ MarkFailed(r) \/ Reinstate(r)
             \/ RecoveryFails(r) \/ Crash(r) \/ Shutdown(r)
      PROVE  JobsKept
  <2>1. UNCHANGED <<status, names>>
    BY <1>9 DEF Look, ReadFails, TakeBuild, Apply, ApplyAnswerLost, ApplyRefused, LetGo, KeepsThem,
                MarkFailed, Reinstate, RecoveryFails, Crash, Shutdown, jobs
  <2> QED
    BY <1>5, <2>1
<1>10. ASSUME NEW j \in JobIds, Bury(j) \/ Requeue(j)
       PROVE  JobsKept
  <2>1. by' \in [JobIds -> Readers \cup {Nobody, Gone}] /\ UNCHANGED names
    BY <1>10 DEF Bury, Requeue, Types, TypeOK
  <2> QED
    BY <1>4, <1>10, <2>1 DEF Bury, Requeue
<1> QED
  BY <1>1, <1>3, <1>6, <1>7, <1>8, <1>9, <1>10 DEF Next, Reading

LEMMA OrderNext == OrderInv /\ [Next]_vars => OrderInv'
<1> SUFFICES ASSUME OrderInv, [Next]_vars PROVE OrderInv'
  OBVIOUS
<1>1. Types' /\ JobsKept
  BY TypesNext, KeepsJobs DEF OrderInv
<1>2. ASSUME NEW r \in Readers, TakeBuild(r)
      PROVE  InTurn'
  <2>1. /\ \A q \in Readers : reader[q].pc # "applying"
        /\ UNCHANGED <<shown, names>>
        /\ reader[r].pc = "parsing"
    BY <1>2 DEF TakeBuild, jobs
  <2>2. CASE Overtaken(Of(r))
    <3> DEFINE x == [reader[r] EXCEPT !.pc = "ending", !.failed = FALSE]
    <3>1. reader' = [reader EXCEPT ![r] = x]
      BY <1>2, <2>2 DEF TakeBuild, Reads
    <3>2. x \in Reader /\ x.pc = "ending"
      BY <2>1, AtWork DEF OrderInv, Reader
    <3> QED
      BY <1>1, <2>1, <3>1, <3>2, TurnKept
  <2>3. CASE ~Overtaken(Of(r))
    <3>1. shown <= Of(r)
      <4>1. shown \in Nat /\ Of(r) \in Nat
        BY <2>1, AtWork DEF OrderInv, Types, TypeOK, ScanIds, None
      <4> QED
        BY <2>3, <4>1 DEF Overtaken
    <3>2. /\ reader' = [reader EXCEPT ![r].pc = "applying"]
          /\ reader \in [Readers -> Reader]
      BY <1>2, <2>3 DEF TakeBuild, Goes, OrderInv, Types, TypeOK
    <3>3. /\ \A q \in Readers : reader'[q].pc = "applying" => q = r
          /\ reader'[r].job = reader[r].job
      BY <2>1, <3>2 DEF Reader
    <3> QED
      BY <2>1, <3>1, <3>3 DEF InTurn, Of
  <2> QED
    BY <2>2, <2>3
<1>3. Types
  BY DEF OrderInv
<1>4. InTurn'
  BY <1>1, <1>2, <1>3, TurnSteps, TurnKept
<1> QED
  BY <1>1, <1>4 DEF OrderInv

LEMMA OrderInit == Init => OrderInv
<1> SUFFICES ASSUME Init PROVE OrderInv
  OBVIOUS
<1>1. \A r \in Readers : reader[r].pc = "idle"
  BY DEF Init, Resting
<1> QED
  BY <1>1, TypesInit DEF OrderInv, InTurn

\* Identifiers are applied in order, whatever is retried, re-sent, taken over or
\* put back: the build's row is held from the question to the write.
THEOREM ScansApplyInOrder == Spec => IdentifiersInOrder
<1>1. OrderInv /\ [Next]_vars => [shown' # shown => shown' > shown]_vars
  <2> SUFFICES ASSUME OrderInv, [Next]_vars, shown' # shown
               PROVE  shown' > shown
    BY DEF vars
  <2>1. Types
    BY DEF OrderInv
  <2>2. PICK r \in Readers : reader[r].pc = "applying" /\ shown' = Of(r)
    BY <2>1, TurnSteps DEF TakeBuild
  <2>3. shown <= Of(r) /\ shown \in Nat /\ Of(r) \in Nat
    BY <2>1, <2>2, AtWork DEF OrderInv, InTurn, Types, TypeOK, ScanIds, None
  <2> QED
    BY <2>2, <2>3
<1> QED
  BY <1>1, OrderInit, OrderNext, PTL DEF Spec, IdentifiersInOrder

----------------------------------------------------------------------------
(* Where transactions take turns, what stands is replaced in order of build *)
(* time.  Build times can be compared only of rows somebody sent.           *)

Used(i) == scan[i].status # "unused"

Sent ==
    /\ \A i \in ScanIds : Used(i) => scan[i].of \in Submissions
    /\ \A j \in JobIds : status[j] # "absent" => Used(names[j])
    /\ \A u \in Senders : /\ sender[u].writes # None => Used(sender[u].writes)
                          /\ sender[u].replaces # None => Used(sender[u].replaces)
    /\ \A r \in Readers : reader[r].pc = "adding" => Used(reader[r].again)
    /\ shown # None => Used(shown)

SentInv == Types /\ Sent

\* A row that was sent stays one, of the same submission.
LEMMA SentStays ==
    ASSUME SentInv, [Next]_vars, NEW i \in ScanIds
    PROVE  /\ Used(i) => Used(i)' /\ scan'[i].of = scan[i].of
           /\ ~Used(i) => scan'[i] = scan[i] \/ scan'[i].of \in Submissions
<1> DEFINE Good == /\ Used(i) => Used(i)' /\ scan'[i].of = scan[i].of
                   /\ ~Used(i) => scan'[i] = scan[i] \/ scan'[i].of \in Submissions
<1>0. scan \in [ScanIds -> Scan] /\ Types /\ 0 \notin ScanIds
  BY DEF SentInv, Types, TypeOK, ScanIds
<1>1. scan'[i] = scan[i] => Good
  BY DEF Used
<1>2. ASSUME NEW u \in Senders, NEW s \in Submissions, UploadNew(u, s)
      PROVE  Good
  BY <1>0, <1>2 DEF UploadNew, NextScan, Used
<1>3. ASSUME NEW u \in Senders, NEW k \in ScanIds, UploadAgain(u, k)
      PROVE  Good
  BY <1>1, <1>3 DEF UploadAgain
<1>4. ASSUME NEW u \in Senders, UploadCommits(u)
      PROVE  Good
  <2>1. i \in {sender[u].writes, sender[u].replaces} => Used(i)
    BY <1>0 DEF SentInv, Sent, None
  <2>2. scan'[i] = IF i = sender[u].writes THEN [scan[i] EXCEPT !.status = "accepted", !.held = TRUE]
                   ELSE IF i = sender[u].replaces
                        THEN [scan[i] EXCEPT !.status = "removed", !.held = FALSE]
                        ELSE scan[i]
    BY <1>4 DEF UploadCommits
  <2> QED
    BY <1>0, <2>1, <2>2 DEF Used, Scan
<1>5. ASSUME NEW u \in Senders, UploadRollsBack(u)
      PROVE  Good
  BY <1>0, <1>5 DEF UploadRollsBack, Used, Scan
<1>6. ASSUME NEW r \in Readers, reader[r].pc # "idle",
             Applied(Of(r)) \/ LetGo(r) \/ MarkFailed(r)
      PROVE  Good
  <2>1. Of(r) \in ScanIds /\ Used(Of(r))
    BY <1>0, <1>6, AtWork DEF SentInv, Sent, Of
  <2>2. CASE i = Of(r)
    <3>0. scan[i] \in Scan /\ scan[i].status # "unused"
      BY <1>0, <2>1, <2>2 DEF Used
    <3>1. ASSUME Applied(i)
          PROVE  scan'[i].status # "unused" /\ scan'[i].of = scan[i].of
      BY <1>0, <3>0, <3>1 DEF Applied, Scan
    <3>2. ASSUME LetGo(r)
          PROVE  scan'[i].status # "unused" /\ scan'[i].of = scan[i].of
      BY <1>0, <2>2, <3>0, <3>2 DEF LetGo, Scan
    <3>3. ASSUME MarkFailed(r)
          PROVE  scan'[i].status # "unused" /\ scan'[i].of = scan[i].of
      <4>1. scan' = [scan EXCEPT ![i].status = IF @ = "removed" THEN @ ELSE "failed"]
        BY <2>2, <3>3 DEF MarkFailed
      <4> QED
        BY <1>0, <3>0, <4>1 DEF Scan
    <3> QED
      BY <1>6, <2>2, <3>0, <3>1, <3>2, <3>3 DEF Used
  <2>3. CASE i # Of(r)
    BY <1>0, <1>1, <1>6, <2>3 DEF Applied, LetGo, MarkFailed
  <2> QED
    BY <2>2, <2>3
<1> QED
  BY <1>1, <1>2, <1>3, <1>4, <1>5, <1>6, RowWriters, WriterFacts DEF Decides

\* The scan a new job names is one an upload has just written or a recovery chose.
LEMMA NewJobs ==
    ASSUME Types, [Next]_vars, NEW j \in JobIds, status[j] = "absent", status'[j] # "absent"
    PROVE  \/ \E u \in Senders : sender[u].writes \in ScanIds /\ names'[j] = sender[u].writes
           \/ \E r \in Readers : reader[r].pc = "adding" /\ names'[j] = reader[r].again
<1>0. /\ status \in [JobIds -> Statuses] /\ names \in [JobIds -> ScanIds \cup {None}]
      /\ sender \in [Senders -> Sender]
  BY DEF Types, TypeOK, Statuses
<1>1. ASSUME NEW i \in ScanIds, AddParse(i)
      PROVE  names'[j] = i
  BY <1>0, <1>1 DEF AddParse, Queue!Submit
<1>2. ASSUME NEW u \in Senders, Upload(u)
      PROVE  sender[u].writes \in ScanIds /\ names'[j] = sender[u].writes
  <2>1. UploadCommits(u)
    BY <1>2 DEF Upload, UploadNew, UploadAgain, UploadRollsBack, jobs
  <2>2. sender[u].writes \in ScanIds /\ AddParse(sender[u].writes)
    BY <1>0, <2>1 DEF UploadCommits, Sender
  <2> QED
    BY <1>1, <2>2
<1>3. ASSUME NEW r \in Readers, Reading(r) \/ Crash(r) \/ Shutdown(r)
      PROVE  reader[r].pc = "adding" /\ names'[j] = reader[r].again
  <2>1. ~\E k \in JobIds : Claim(r, k)
    BY <1>0 DEF Claim, Queue!HandOut
  <2>2. ~End(r)
    <3>1. SUFFICES ASSUME End(r) PROVE FALSE
      OBVIOUS
    <3>2. status[reader[r].job] # "absent" /\ reader[r].job \in JobIds
      BY <3>1, AtWork DEF End
    <3> QED
      BY <1>0, <3>1, <3>2 DEF End, Queue!Finish, Queue!Return, Queue!GiveUp
  <2>3. ReinstateAdds(r)
    BY <1>3, <2>1, <2>2 DEF Reading, Look, ReadFails, TakeBuild, Apply, ApplyAnswerLost,
         ApplyRefused, LetGo, KeepsThem, MarkFailed, Reinstate, RecoveryFails, Crash, Shutdown, jobs
  <2> QED
    BY <1>1, <2>3 DEF ReinstateAdds, Types, Reread
<1>4. ~\E k \in JobIds : Bury(k) \/ Requeue(k)
  BY <1>0 DEF Bury, Requeue, Queue!GiveUp, Queue!Resubmit
<1>5. ~UNCHANGED vars
  BY DEF vars, jobs
<1> QED
  BY <1>2, <1>3, <1>4, <1>5 DEF Next

\* A reader comes to add a scan again only by finding that it stands.
LEMMA AddingSteps ==
    ASSUME Types, [Next]_vars, NEW r \in Readers, reader'[r].pc = "adding"
    PROVE  \/ reader[r].pc = "adding" /\ reader'[r].again = reader[r].again
           \/ reader'[r].again \in Standing
<1>0. reader \in [Readers -> Reader]
  BY DEF Types, TypeOK
<1>1. CASE UNCHANGED reader
  BY <1>1
<1>2. ASSUME NEW q \in Readers, Reading(q) \/ Crash(q) \/ Shutdown(q), q # r
      PROVE  reader'[r] = reader[r]
  BY <1>0, <1>2 DEF Reading, Claim, Look, ReadFails, TakeBuild, Apply, ApplyAnswerLost, ApplyRefused,
     LetGo, KeepsThem, MarkFailed, Reinstate, ReinstateAdds, RecoveryFails, End, Crash, Shutdown,
     Fails, Reads, Goes
<1>3. ASSUME Reading(r) \/ Crash(r) \/ Shutdown(r)
      PROVE  reader'[r].again \in Standing
  <2>1. \A p, f : \/ reader' = [reader EXCEPT ![r].pc = p]
                  \/ reader' = [reader EXCEPT ![r].pc = p, ![r].failed = f]
                  => p = "adding"
    BY <1>0, ZenonT(60) DEF Reader
  <2>2. ~(\/ Look(r) \/ ReadFails(r) \/ TakeBuild(r) \/ Apply(r) \/ ApplyAnswerLost(r)
          \/ ApplyRefused(r) \/ LetGo(r) \/ KeepsThem(r) \/ MarkFailed(r) \/ ReinstateAdds(r)
          \/ RecoveryFails(r) \/ Shutdown(r))
    BY <2>1 DEF Look, ReadFails, TakeBuild, Apply, ApplyAnswerLost, ApplyRefused, LetGo, KeepsThem,
       MarkFailed, ReinstateAdds, RecoveryFails, Shutdown, Fails, Reads, Goes
  <2>3. ~(End(r) \/ Crash(r))
    BY <1>0 DEF End, Crash, Resting
  <2>4. ~\E j \in JobIds : Claim(r, j)
    <3>1. ASSUME NEW j \in JobIds, NEW last \in BOOLEAN,
                 reader' = [reader EXCEPT ![r] = [Resting EXCEPT !.pc = "looking", !.job = j,
                                                                !.last = last]]
          PROVE  FALSE
      BY <1>0, <3>1 DEF Resting
    <3> QED
      BY <3>1 DEF Claim
  <2>5. Reinstate(r) => \E n \in ScanIds : /\ Newest(n)
                                           /\ reader' = [reader EXCEPT ![r].pc = "adding",
                                                                       ![r].again = n]
    BY <2>1 DEF Reinstate, Goes
  <2> QED
    BY <1>0, <1>3, <2>2, <2>3, <2>4, <2>5, ZenonT(60) DEF Reading, Newest, Reader
<1>4. ASSUME NEW u \in Senders, Upload(u)
      PROVE  UNCHANGED reader
  BY <1>4 DEF Upload, UploadNew, UploadAgain, UploadCommits, UploadRollsBack
<1>5. ASSUME NEW j \in JobIds, Bury(j) \/ Requeue(j)
      PROVE  UNCHANGED reader
  BY <1>5 DEF Bury, Requeue
<1> QED
  BY <1>1, <1>2, <1>3, <1>4, <1>5 DEF Next, vars

LEMMA SentNext == SentInv /\ [Next]_vars => SentInv'
<1> SUFFICES ASSUME SentInv, [Next]_vars PROVE SentInv'
  OBVIOUS
<1>0. Types /\ Types' /\ Sent /\ JobsKept
  BY TypesNext, KeepsJobs DEF SentInv
<1>1. \A i \in ScanIds : Used(i)' => scan'[i].of \in Submissions
  BY <1>0, SentStays DEF Sent, Used
<1>2. \A i \in ScanIds : Used(i) => Used(i)'
  BY SentStays
<1>3. \A j \in JobIds : status'[j] # "absent" => Used(names[j])'
  <2> SUFFICES ASSUME NEW j \in JobIds, status'[j] # "absent"
               PROVE  Used(names[j])'
    OBVIOUS
  <2>1. CASE status[j] # "absent"
    <3>1. names[j] \in ScanIds /\ names'[j] = names[j] /\ Used(names[j])
      BY <1>0, <2>1 DEF Types, TypeOK, JobsKept, Sent
    <3> QED
      BY <1>2, <3>1 DEF Used
  <2>2. CASE status[j] = "absent"
    <3>1. PICK i \in ScanIds : names'[j] = i /\ Used(i)
      <4>1. CASE \E u \in Senders : sender[u].writes \in ScanIds /\ names'[j] = sender[u].writes
        BY <1>0, <4>1 DEF Sent, ScanIds, None
      <4>2. CASE \E r \in Readers : reader[r].pc = "adding" /\ names'[j] = reader[r].again
        BY <1>0, <4>2 DEF Sent, Types, Reread
      <4> QED
        BY <1>0, <2>2, <4>1, <4>2, NewJobs
    <3> QED
      BY <1>2, <3>1 DEF Used
  <2> QED
    BY <2>1, <2>2
<1>4. \A u \in Senders : /\ sender'[u].writes # None => Used(sender[u].writes)'
                         /\ sender'[u].replaces # None => Used(sender[u].replaces)'
  <2> SUFFICES ASSUME NEW u \in Senders
               PROVE  /\ sender'[u].writes # None => Used(sender[u].writes)'
                      /\ sender'[u].replaces # None => Used(sender[u].replaces)'
    OBVIOUS
  <2>0. sender \in [Senders -> Sender] /\ scan \in [ScanIds -> Scan]
    BY <1>0 DEF Types, TypeOK
  <2>1. CASE sender'[u] = sender[u]
    <3>1. /\ sender[u].writes # None => sender[u].writes \in ScanIds /\ Used(sender[u].writes)
          /\ sender[u].replaces # None => sender[u].replaces \in ScanIds /\ Used(sender[u].replaces)
      BY <1>0, <2>0 DEF Sent, Sender
    <3> QED
      BY <1>2, <2>1, <3>1 DEF Used
  <2>2. ASSUME NEW s \in Submissions, UploadNew(u, s)
        PROVE  /\ sender'[u].writes # None => Used(sender[u].writes)'
               /\ sender'[u].replaces # None => Used(sender[u].replaces)'
    <3>1. PICK new \in ScanIds, old \in ScanIds \cup {None} :
            /\ IF Seen(s) = {} THEN old = None ELSE old \in Seen(s)
            /\ scan' = [scan EXCEPT ![new] = [status |-> "arriving", of |-> s,
                                              held |-> TRUE, named |-> FALSE]]
            /\ sender' = [sender EXCEPT ![u] = [writes |-> new, replaces |-> old]]
      BY <2>2 DEF UploadNew
    <3>2. sender'[u] = [writes |-> new, replaces |-> old]
      BY <2>0, <3>1
    <3>3. Used(new)'
      BY <2>0, <3>1 DEF Used
    <3>4. old # None => old \in ScanIds /\ Used(old)
      BY <3>1 DEF Seen, Used
    <3> QED
      BY <1>2, <3>2, <3>3, <3>4 DEF Used
  <2>3. ASSUME NEW i \in ScanIds, UploadAgain(u, i)
        PROVE  /\ sender'[u].writes # None => Used(sender[u].writes)'
               /\ sender'[u].replaces # None => Used(sender[u].replaces)'
    BY <1>2, <2>0, <2>3 DEF UploadAgain, Used
  <2>4. CASE sender'[u] = NoUpload
    BY <2>4 DEF NoUpload
  <2>5. sender'[u] = sender[u] \/ sender'[u] = NoUpload \/ Decides(u)
    <3>1. ASSUME NEW v \in Senders, Decides(v) \/ UploadCommits(v) \/ UploadRollsBack(v)
          PROVE  v # u => sender'[u] = sender[u]
      BY <2>0, <3>1 DEF Decides, UploadNew, UploadAgain, UploadCommits, UploadRollsBack
    <3>2. UploadCommits(u) \/ UploadRollsBack(u) => sender'[u] = NoUpload
      BY <2>0 DEF UploadCommits, UploadRollsBack
    <3>3. ASSUME NEW r \in Readers, Writes(r)
          PROVE  sender'[u] = sender[u]
      BY <3>3, WriterFacts
    <3>4. ASSUME UNCHANGED <<scan, sender>>
          PROVE  sender'[u] = sender[u]
      BY <3>4
    <3>5. ASSUME NEW v \in Senders, Decides(v) \/ UploadCommits(v) \/ UploadRollsBack(v)
          PROVE  sender'[u] = sender[u] \/ sender'[u] = NoUpload \/ Decides(u)
      <4>1. CASE v # u
        BY <3>1, <3>5, <4>1
      <4>2. CASE v = u
        BY <3>2, <3>5, <4>2
      <4> QED
        BY <4>1, <4>2
    <3>6. CASE UNCHANGED <<scan, sender>>
      BY <3>4, <3>6
    <3>7. CASE \E v \in Senders : Decides(v) \/ UploadCommits(v) \/ UploadRollsBack(v)
      BY <3>5, <3>7
    <3>8. CASE \E r \in Readers : Writes(r)
      BY <3>3, <3>8
    <3> QED
      BY <3>6, <3>7, <3>8, RowWriters
  <2> QED
    BY <2>1, <2>2, <2>3, <2>4, <2>5 DEF Decides
<1>5. \A r \in Readers : reader'[r].pc = "adding" => Used(reader[r].again)'
  <2> SUFFICES ASSUME NEW r \in Readers, reader'[r].pc = "adding"
               PROVE  Used(reader[r].again)'
    OBVIOUS
  <2>1. CASE reader[r].pc = "adding" /\ reader'[r].again = reader[r].again
    BY <1>0, <1>2, <2>1 DEF Types, Reread, Sent, Used
  <2>2. CASE reader'[r].again \in Standing
    BY <1>2, <2>2 DEF Standing, Used
  <2> QED
    BY <1>0, <2>1, <2>2, AddingSteps
<1>6. shown' # None => Used(shown)'
  <2>1. CASE UNCHANGED shown
    BY <1>0, <1>2, <2>1 DEF Types, TypeOK, Sent, Used
  <2>2. ASSUME NEW r \in Readers, reader[r].pc = "applying", shown' = Of(r)
        PROVE  Used(shown)'
    BY <1>0, <1>2, <2>2, AtWork DEF Sent, Of, Used
  <2> QED
    BY <1>0, <2>1, <2>2, TurnSteps DEF TakeBuild
<1> QED
  BY <1>0, <1>1, <1>3, <1>4, <1>5, <1>6 DEF SentInv, Sent

LEMMA SentInit == Init => SentInv
<1> SUFFICES ASSUME Init PROVE SentInv
  OBVIOUS
<1>1. /\ \A i \in ScanIds : ~Used(i)
      /\ \A j \in JobIds : status[j] = "absent"
      /\ \A u \in Senders : sender[u].writes = None /\ sender[u].replaces = None
      /\ \A r \in Readers : reader[r].pc = "idle"
      /\ shown = None
  BY DEF Init, Queue!Init, Used, NoUpload, Resting
<1> QED
  BY <1>1, TypesInit DEF SentInv, Sent

\* With one transaction at a time, what a reader asked when it took the build is
\* still so when it writes.
OneOpen == \A p, q \in Open : p = q
Unpassed == \A r \in Readers : reader[r].pc = "applying" => ~PassedBy(Of(r))

TakingTurns == SentInv /\ OneOpen /\ Unpassed

LEMMA OpenSteps ==
    ASSUME Types, Serial, [Next]_vars
    PROVE  \/ Open' \subseteq Open
           \/ \E p \in Senders \cup Readers : Open' \subseteq {p}
<1>0. sender \in [Senders -> Sender] /\ reader \in [Readers -> Reader]
  BY DEF Types, TypeOK
<1>1. ASSUME NEW u \in Senders, Decides(u)
      PROVE  Open' \subseteq {u}
  <2>1. Open \subseteq {u} /\ UNCHANGED reader
    BY <1>1 DEF Decides, UploadNew, UploadAgain, Alone
  <2>2. \A v \in Senders : v # u => sender'[v] = sender[v]
    BY <1>0, <1>1 DEF Decides, UploadNew, UploadAgain
  <2> QED
    BY <2>1, <2>2 DEF Open
<1>2. ASSUME NEW r \in Readers, TakeBuild(r)
      PROVE  Open' \subseteq {r}
  <2>1. Open \subseteq {r} /\ UNCHANGED sender
    BY <1>2 DEF TakeBuild, Alone
  <2>2. \A q \in Readers : q # r => reader'[q] = reader[q]
    BY <1>0, <1>2 DEF TakeBuild, Reads, Goes
  <2> QED
    BY <2>1, <2>2 DEF Open
<1>3. ASSUME \A u \in Senders : ~Decides(u), \A r \in Readers : ~TakeBuild(r)
      PROVE  Open' \subseteq Open
  <2>1. \A u \in Senders : sender'[u] # NoUpload => sender'[u] = sender[u]
    <3>1. ASSUME NEW v \in Senders, UploadCommits(v) \/ UploadRollsBack(v)
          PROVE  sender' = [sender EXCEPT ![v] = NoUpload]
      BY <3>1 DEF UploadCommits, UploadRollsBack
    <3> QED
      BY <1>0, <1>3, <3>1, RowWriters, WriterFacts
  <2>2. \A r \in Readers : reader'[r].pc = "applying" => reader[r].pc = "applying"
    BY <1>0, <1>3, TurnSteps
  <2> QED
    BY <2>1, <2>2 DEF Open
<1> QED
  BY <1>1, <1>2, <1>3

\* While a reader has the build, nobody else writes a scan.
LEMMA ScansHeld ==
    ASSUME TakingTurns, Serial, [Next]_vars, NEW r \in Readers,
           reader[r].pc = "applying", reader'[r].pc = "applying"
    PROVE  UNCHANGED scan
<1>0. r \in Open /\ reader \in [Readers -> Reader] /\ r \notin Senders
  BY DEF Open, TakingTurns, SentInv, Types, TypeOK
<1>1. ASSUME NEW u \in Senders, Decides(u)
      PROVE  FALSE
  BY <1>0, <1>1 DEF Decides, UploadNew, UploadAgain, Alone
<1>2. ASSUME NEW u \in Senders, UploadCommits(u) \/ UploadRollsBack(u)
      PROVE  FALSE
  <2>1. sender[u] # NoUpload
    <3>1. UploadCommits(u) => sender[u].writes # None
      BY DEF UploadCommits
    <3>2. UploadRollsBack(u) => sender[u] # NoUpload
      BY DEF UploadRollsBack
    <3>3. NoUpload.writes = None
      BY DEF NoUpload
    <3> QED
      BY <1>2, <3>1, <3>2, <3>3
  <2> QED
    BY <1>0, <2>1 DEF TakingTurns, OneOpen, Open
<1>3. ASSUME NEW q \in Readers, LetGo(q) \/ MarkFailed(q)
      PROVE  FALSE
  BY <1>0, <1>3 DEF LetGo, MarkFailed, Alone
<1>4. ASSUME NEW q \in Readers, Apply(q) \/ ApplyAnswerLost(q)
      PROVE  FALSE
  <2>1. q = r
    BY <1>0, <1>4 DEF Apply, ApplyAnswerLost, Open, TakingTurns, OneOpen
  <2>2. Fails(r) \/ Reads(r, FALSE) \/ Goes(r, "letting go")
    BY <1>4, <2>1 DEF Apply, ApplyAnswerLost
  <2>3. reader[r] \in Reader
    BY <1>0
  <2>4. ~Goes(r, "letting go")
    BY <1>0, <2>3, ZenonT(60) DEF Goes, Reader
  <2>5. ASSUME NEW p \in {"ending", "recovering"}, NEW f \in BOOLEAN,
               reader' = [reader EXCEPT ![r].pc = p, ![r].failed = f]
        PROVE  FALSE
    <3>1. reader'[r] = [reader[r] EXCEPT !.pc = p, !.failed = f]
      BY <1>0, <2>5
    <3> QED
      BY <2>3, <3>1 DEF Reader
  <2>6. ~Fails(r) /\ ~Reads(r, FALSE)
    BY <2>5 DEF Fails, Reads
  <2> QED
    BY <2>2, <2>4, <2>6
<1> QED
  BY <1>1, <1>2, <1>3, <1>4, RowWriters DEF Writes

LEMMA TakingTurnsNext == Serial /\ TakingTurns /\ [Next]_vars => TakingTurns'
<1> SUFFICES ASSUME Serial, TakingTurns, [Next]_vars PROVE TakingTurns'
  OBVIOUS
<1>1. Types /\ SentInv' /\ JobsKept
  BY SentNext, KeepsJobs DEF TakingTurns, SentInv
<1>2. OneOpen'
  BY <1>1, OpenSteps DEF TakingTurns, OneOpen
<1>3. Unpassed'
  <2> SUFFICES ASSUME NEW r \in Readers, reader'[r].pc = "applying"
               PROVE  ~PassedBy(Of(r))'
    BY DEF Unpassed
  <2>0. reader \in [Readers -> Reader]
    BY <1>1 DEF Types, TypeOK
  <2>1. ASSUME UNCHANGED scan, Of(r)' = Of(r), ~PassedBy(Of(r))
        PROVE  ~PassedBy(Of(r))'
    BY <2>1 DEF PassedBy, Standing, Ahead, Built
  <2>2. CASE reader[r].pc = "applying"
    <3>1. UNCHANGED scan
      BY <2>2, ScansHeld
    <3>2. reader'[r].job = reader[r].job
      <4>1. ASSUME NEW q \in Readers, NEW x \in Reader,
                   reader' = [reader EXCEPT ![q] = x], x.pc # "applying"
            PROVE  reader'[r] = reader[r]
        BY <2>0, <4>1
      <4> QED
        BY <1>1, <2>2, <4>1, TurnSteps DEF TakeBuild
    <3>3. Of(r)' = Of(r)
      BY <1>1, <2>2, <3>2, AtWork DEF Of, JobsKept
    <3> QED
      BY <2>1, <2>2, <3>1, <3>3 DEF TakingTurns, Unpassed
  <2>3. CASE reader[r].pc # "applying"
    <3>1. TakeBuild(r)
      <4>1. ASSUME NEW q \in Readers, TakeBuild(q), q # r
            PROVE  reader'[r] = reader[r]
        BY <2>0, <4>1 DEF TakeBuild, Reads, Goes
      <4>2. ASSUME NEW q \in Readers, NEW x \in Reader,
                   reader' = [reader EXCEPT ![q] = x], x.pc # "applying"
            PROVE  FALSE
        BY <2>0, <2>3, <4>2
      <4> QED
        BY <1>1, <2>3, <4>1, <4>2, TurnSteps
    <3>2. ~Overtaken(Of(r)) /\ Goes(r, "applying") /\ UNCHANGED <<scan, names>>
      <4>1. ~Reads(r, FALSE)
        BY <2>0, ZenonT(60) DEF Reads, Reader
      <4> QED
        BY <3>1, <4>1 DEF TakeBuild, jobs
    <3>3. Of(r)' = Of(r)
      BY <2>0, <3>2, ZenonT(60) DEF Of, Goes, Reader
    <3> QED
      BY <2>1, <3>2, <3>3 DEF Overtaken
  <2> QED
    BY <2>2, <2>3
<1> QED
  BY <1>1, <1>2, <1>3 DEF TakingTurns

LEMMA TakingTurnsInit == Init => TakingTurns
<1> SUFFICES ASSUME Init PROVE TakingTurns
  OBVIOUS
<1>1. /\ \A u \in Senders : sender[u] = NoUpload
      /\ \A r \in Readers : reader[r].pc = "idle"
  BY DEF Init, Resting
<1> QED
  BY <1>1, SentInit DEF TakingTurns, OneOpen, Unpassed, Open

\* Where transactions take turns (SQLite), a picture that still stands is replaced
\* only by one built later or argued later, whatever is retried, re-sent or lost.
THEOREM WhatStandsGoesForward == Serial /\ Spec => StandingIsNotReplaced
<1> SUFFICES ASSUME Serial PROVE Spec => StandingIsNotReplaced
  OBVIOUS
<1>1. TakingTurns /\ [Next]_vars
        => [shown' # shown /\ shown # None /\ scan[shown].status = "accepted"
              => Ahead(shown', shown)]_vars
  <2> SUFFICES ASSUME TakingTurns, [Next]_vars, shown' # shown, shown # None,
                      scan[shown].status = "accepted"
               PROVE  Ahead(shown', shown)
    BY DEF vars
  <2>1. Types /\ Sent /\ shown \in ScanIds
    BY DEF TakingTurns, SentInv, Types, TypeOK
  <2>2. PICK r \in Readers : reader[r].pc = "applying" /\ shown' = Of(r)
    BY <2>1, TurnSteps DEF TakeBuild
  <2>3. ~Ahead(shown, Of(r))
    BY <2>1, <2>2 DEF TakingTurns, Unpassed, PassedBy, Standing
  <2>4. Of(r) \in ScanIds /\ Used(Of(r)) /\ Used(shown)
    BY <2>1, <2>2, AtWork DEF Sent, Of, Used
  <2>5. Built(shown) \in Nat /\ Built(Of(r)) \in Nat
    BY <2>1, <2>4, SubmissionsAssumption DEF Sent, Built
  <2> QED
    BY <2>1, <2>2, <2>3, <2>4, <2>5 DEF Ahead, ScanIds
<1> QED
  BY <1>1, TakingTurnsInit, TakingTurnsNext, PTL DEF Spec, StandingIsNotReplaced

=============================================================================
