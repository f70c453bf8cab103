----------------------------- MODULE Decisions -----------------------------
(***************************************************************************)
(* What people decide about findings, and the second person who agrees     *)
(* (internal/triage: decision.go, approval.go, occurrence.go, lapse.go,    *)
(* reaffirm.go, incident.go), for one issue in one product.                *)
(*                                                                         *)
(* A decision is one argument, held as a sequence of revisions.  It covers *)
(* rows, one per occurrence of the issue, each made against a version of   *)
(* the code and holding a unique live key while it stands.  An agreement   *)
(* names one revision.  The decisions here are dismissals, which need a    *)
(* second person and which an incident contradicts.                        *)
(*                                                                         *)
(* Every act is one transaction.  What it decides from is read first,      *)
(* beside other transactions, and its writes are one step with its commit: *)
(* a write is not seen before the commit, and restamping each decision it  *)
(* wrote makes two writers of one decision take turns.  What a transaction *)
(* may read is the engine's: SQLite gives it the database to itself        *)
(* ("serial"), MySQL and MariaDB read one snapshot ("snapshot"),           *)
(* PostgreSQL reads anew for each statement ("statements"), so the rows    *)
(* and the stamp of a decision are of two moments there.                   *)
(*                                                                         *)
(* Who may reach which product is left out: everybody may act on all.  So  *)
(* are the words, the comments and who is told.                            *)
(***************************************************************************)
EXTENDS Naturals, Sequences, FiniteSets

CONSTANTS
    People,
    Places,        \* the occurrences of the issue
    Sessions,      \* transactions that may be open at once
    Engines,       \* the engines this instance looks at
    MaxDecisions,  \* bound: decisions made
    MaxWords,      \* bound: revisions of one decision
    MaxVersion     \* bound: versions of the code

ASSUME EnginesAssumption == Engines \subseteq {"serial", "snapshot", "statements"}
ASSUME BoundsAssumption ==
    /\ MaxDecisions \in Nat
    /\ MaxWords \in Nat \ {0}
    /\ MaxVersion \in Nat \ {0}

Nobody == "nobody"
ASSUME NamesAssumption == Nobody \notin People

Decisions == 1 .. MaxDecisions
None == 0
Versions == 1 .. MaxVersion

\* A row is named by the decision that wrote it and its occurrence.
Rows == Decisions \X Places

VARIABLES
    engine,      \* fixed for a deployment
    decision,    \* the decision table with its revisions
    row,         \* the decision_occurrence table
    agreement,   \* the decision_approval rows with no withdrawn_at
    incident,    \* a record of having been exploited stands
    code,        \* the version the code is at
    txn          \* the transaction each session has open

vars == <<engine, decision, row, agreement, incident, code, txn>>

----------------------------------------------------------------------------
(* The state. *)

\* by is whom the record names; from is who wrote the words, which no column says.
Word == [by : People, from : People]

Decision == [by : People \cup {Nobody}, words : Seq(Word)]

Live == {"proposed", "approved"}
Ended == {"withdrawn", "lapsed"}

Row == [state : {"absent"} \cup Live \cup Ended,
        in : Decisions \cup {None},       \* decision_id
        at : Versions \cup {None},        \* the version it was made against
        back : BOOLEAN,                   \* sent_back_at
        live : BOOLEAN,                   \* it holds its live_key
        ended : SUBSET Decisions]         \* ended_at, as the decisions made by then

Agreement == [on : Decisions, rev : Nat, by : People,
              carried : Decisions \cup {None}]   \* carried_from

\* The acts that restamp each decision they write.
Stamped == {"approve", "split", "send back", "revise", "withdraw", "undo"}

Txn == [pc : {"idle", "rows", "ready"},
        act : Stamped \cup {"none", "reaffirm", "incident"},
        by : People \cup {Nobody},
        over : SUBSET Decisions,          \* the decisions read
        ids : SUBSET Rows,                \* the rows to agree to, mark, revise or re-make
        aside : SUBSET Rows,              \* the rows to set aside
        whole : BOOLEAN,                  \* all that is still argued is set aside
        rev : Nat,                        \* the revision read
        carry : SUBSET People]            \* whose agreement may be carried

Unmade == [by |-> Nobody, words |-> <<>>]
Absent == [state |-> "absent", in |-> None, at |-> None, back |-> FALSE,
           live |-> FALSE, ended |-> {}]
Idle == [pc |-> "idle", act |-> "none", by |-> Nobody, over |-> {}, ids |-> {},
         aside |-> {}, whole |-> FALSE, rev |-> 0, carry |-> {}]

\* Every table and every transaction holds what its columns and variables can.
TypeOK ==
    /\ engine \in Engines
    /\ decision \in [Decisions -> Decision]
    /\ row \in [Rows -> Row]
    /\ agreement \in SUBSET Agreement
    /\ incident \in BOOLEAN
    /\ code \in Versions
    /\ txn \in [Sessions -> Txn]

Init ==
    /\ engine \in Engines
    /\ decision = [d \in Decisions |-> Unmade]
    /\ row = [r \in Rows |-> Absent]
    /\ agreement = {}
    /\ incident = FALSE
    /\ code = 1
    /\ txn = [s \in Sessions |-> Idle]

----------------------------------------------------------------------------
(* What the reads answer. *)

Made == {d \in Decisions : decision[d].words # <<>>}
Fresh(d) == d \notin Made /\ 1 .. d - 1 \subseteq Made

In(d) == {r \in Rows : row[r].in = d}
Argued(d) == {r \in In(d) : row[r].state = "proposed"}
Waiting(d) == {r \in Argued(d) : ~row[r].back}

\* authorOf, of the revision read.
Author(d, rev) == decision[d].words[rev].by
Writers(d) == {decision[d].words[i].by : i \in 1 .. Len(decision[d].words)}

Standing(d) == {a \in agreement : a.on = d}

\* live_key, which the unique index compares.
SameKey(r, pl, v) == r[2] = pl /\ row[r].at = v
Taken(pl, v, others) == \E r \in Rows \ others : row[r].live /\ SameKey(r, pl, v)

\* stillLatest: nothing was decided here since the row ended.
StillLatest(r) ==
    ~ \E q \in Rows : /\ q[2] = r[2] /\ row[q].state # "absent"
                      /\ row[q].in # row[r].in /\ q[1] \notin row[r].ended

\* lapsedOfYours: a lapsed row of the subject's, no row of its decision withdrawn.
Reaffirmable(r, p) ==
    /\ row[r].state = "lapsed"
    /\ decision[row[r].in].by = p
    /\ \A q \in In(row[r].in) : row[q].state # "withdrawn"
    /\ StillLatest(r)

\* approvalToCarry.
ToCarry(d, p) == {a.by : a \in {b \in Standing(d) : b.by # p}}

\* samePerson in approveDecision: asked of an approver, whatever they hold back.
SamePerson(p, d, rev) == p \in {Author(d, rev), decision[d].by}

\* A mutant that asks only about the words agreed to.
SecondPerson_mutant(p, d) == p \notin {Author(d, Len(decision[d].words)), decision[d].by}

\* secondPerson: nobody who proposed it or wrote any of its reasoning.
SecondPerson(p, d) == p \notin Writers(d) \cup {decision[d].by}

----------------------------------------------------------------------------
(* A transaction: the reads, the writes with the commit, or a rollback. *)

\* On SQLite a transaction takes the write lock as it begins.
Free == engine = "serial" => \A s \in Sessions : txn[s].pc = "idle"

\* A mutant that does not ask about an incident.
Permits_mutant(t) ==
    \A d \in t.over :
        /\ t.act = "approve" =>
              /\ ~SamePerson(t.by, d, t.rev)
              /\ t.ids # {} => SecondPerson(t.by, d)
        /\ t.act = "send back" => t.by # Author(d, t.rev)

\* What is read after the stamps: who wrote the words, whether an incident
\* stands, and which agreement there is to carry.
Permits(t) ==
    \A d \in t.over :
        /\ t.act = "approve" =>
              /\ ~SamePerson(t.by, d, t.rev)
              /\ t.ids # {} => SecondPerson(t.by, d)
              /\ incident => t.whole
        /\ t.act = "send back" => t.by # Author(d, t.rev)
        /\ t.act = "reaffirm" => ~incident

Looked(t) ==
    [t EXCEPT !.pc = "ready",
              !.by = IF t.act = "send back" THEN Nobody ELSE @,
              !.rev = IF t.act = "send back" THEN 0 ELSE @,
              !.carry = {p \in People : /\ t.act = "reaffirm"
                                        /\ \E d \in t.over : /\ p \in ToCarry(d, t.by)
                                                             /\ SecondPerson(p, d)}]

Begin(s, t) ==
    /\ txn[s].pc = "idle"
    /\ Free
    /\ \/ engine = "statements" /\ txn' = [txn EXCEPT ![s] = [t EXCEPT !.pc = "rows"]]
       \/ engine # "statements" /\ Permits(t) /\ txn' = [txn EXCEPT ![s] = Looked(t)]
    /\ UNCHANGED <<engine, decision, row, agreement, incident, code>>

\* PostgreSQL: the stamp is a later statement than the rows (writableRows).
ReadStamp(s) ==
    /\ txn[s].pc = "rows"
    /\ Permits(txn[s])
    /\ txn' = [txn EXCEPT ![s] = Looked(txn[s])]
    /\ UNCHANGED <<engine, decision, row, agreement, incident, code>>

\* A refusal, an error, a lost connection or a process that ends: nothing is kept.
Rollback(s) ==
    /\ txn[s].pc # "idle"
    /\ txn' = [txn EXCEPT ![s] = Idle]
    /\ UNCHANGED <<engine, decision, row, agreement, incident, code>>

Ready(s, act, d) == txn[s].pc = "ready" /\ txn[s].act = act /\ txn[s].over = {d}

\* A mutant that restamps nothing.
Restamped_mutant(s, ds) == txn' = [txn EXCEPT ![s] = Idle]

\* Restamp: a transaction that read the stamp another writer then changed can
\* only roll back, to be taken again whole (ErrGoAgain), so it ends here.
Restamped(s, ds) ==
    txn' = [q \in Sessions |->
               IF q = s \/ (/\ txn[q].pc = "ready" /\ txn[q].act \in Stamped
                            /\ txn[q].over \cap ds # {})
               THEN Idle ELSE txn[q]]

\* A mutant that returns every row of the decision.
ToWaiting_mutant(ds, left) ==
    [r \in Rows |->
        IF row[r].in \in ds THEN [row[r] EXCEPT !.state = "proposed", !.back = FALSE]
        ELSE row[r]]

\* returnToWaiting, once the agreements left are these.
ToWaiting(ds, left) ==
    [r \in Rows |->
        IF /\ row[r].in \in ds
           /\ row[r].state = "approved"
           /\ ~ \E a \in left : a.on = row[r].in
        THEN [row[r] EXCEPT !.state = "proposed", !.back = FALSE]
        ELSE row[r]]

\* A mutant that leaves the words to nobody.
Says_mutant(d, by, from) ==
    decision' = [decision EXCEPT ![d] = [by |-> by, words |-> <<[by |-> Nobody, from |-> from]>>]]

\* A decision made: its number is the next, its words are the first revision.
Says(d, by, from) ==
    decision' = [decision EXCEPT ![d] = [by |-> by, words |-> <<[by |-> by, from |-> from]>>]]

Written(d, state) ==
    [state |-> state, in |-> d, at |-> code, back |-> FALSE, live |-> TRUE, ended |-> {}]

----------------------------------------------------------------------------
(* Making a decision. *)

\* Propose, ProposeMany: refused by an incident and by the unique live key.
Propose(p) ==
    \E d \in Decisions, ps \in SUBSET Places \ {{}} :
        /\ Free
        /\ Fresh(d)
        /\ ~incident
        /\ \A pl \in ps : ~Taken(pl, code, {})
        /\ Says(d, p, p)
        /\ row' = [r \in Rows |-> IF r[1] = d /\ r[2] \in ps THEN Written(d, "proposed") ELSE row[r]]
        /\ UNCHANGED <<engine, agreement, incident, code, txn>>

BeginReaffirm(s) ==
    \E p \in People, r \in Rows :
        /\ Reaffirmable(r, p)
        /\ Begin(s, [Idle EXCEPT !.act = "reaffirm", !.by = p, !.over = {row[r].in}, !.ids = {r}])

\* reaffirm: the decision made again at the code's version, waiting like any
\* other where how bad it is has risen, or standing on the agreement carried.
\* The earlier decision is read and not restamped.
Reaffirm(s) ==
    \E d, e \in Decisions, r \in Rows :
        /\ Ready(s, "reaffirm", d)
        /\ txn[s].ids = {r}
        /\ Fresh(e)
        /\ ~Taken(r[2], code, {})
        /\ Says(e, txn[s].by, txn[s].by)
        /\ \/ /\ row' = [row EXCEPT ![<<e, r[2]>>] = Written(e, "proposed")]
              /\ UNCHANGED agreement
           \/ \E p \in txn[s].carry :
                 /\ row' = [row EXCEPT ![<<e, r[2]>>] = Written(e, "approved")]
                 /\ agreement' = agreement \cup
                       {[on |-> e, rev |-> 1, by |-> p, carried |-> d]}
        /\ txn' = [txn EXCEPT ![s] = Idle]
        /\ UNCHANGED <<engine, incident, code>>

----------------------------------------------------------------------------
(* Agreeing, setting aside and sending back. *)

Reading(act, p, d) ==
    [Idle EXCEPT !.act = act, !.by = p, !.over = {d}, !.rev = Len(decision[d].words)]

BeginApprove(s) ==
    \E p \in People, d \in Made : \E aside \in SUBSET Argued(d) :
        LET ids == Waiting(d) \ aside IN
        /\ ids \cup aside # {}
        /\ Begin(s, [Reading("approve", p, d) EXCEPT !.ids = ids, !.aside = aside,
                                                   !.whole = aside = Argued(d)])

\* intoReturned: the rows set aside go into a decision of their own, which
\* names the proposer for words whoever revised them last wrote.
SetsAside(d, e, t) ==
    /\ \A r \in t.aside : r \in Argued(d)
    /\ IF t.aside = {}
       THEN e = None /\ UNCHANGED decision
       ELSE /\ e \in Decisions
            /\ Fresh(e)
            /\ Says(e, decision[d].by, decision[d].words[t.rev].from)

Moved(ids, e, aside) ==
    [r \in Rows |-> IF r \in aside THEN [row[r] EXCEPT !.in = e, !.back = TRUE]
                    ELSE IF r \in ids THEN [row[r] EXCEPT !.state = "approved"]
                    ELSE row[r]]

\* approveWhileRevised: matched on the rows' state and the revision.
WhileRevised(d, t) ==
    /\ \A r \in t.ids : row[r].state = "proposed"
    /\ Len(decision[d].words) = t.rev

ApproveDecision(s) ==
    \E d \in Decisions, e \in Decisions \cup {None} :
        LET t == txn[s] IN
        /\ Ready(s, "approve", d)
        /\ SetsAside(d, e, t)
        /\ row' = Moved(t.ids, e, t.aside)
        /\ \/ t.ids = {} /\ UNCHANGED agreement
           \/ /\ t.ids # {}
              /\ WhileRevised(d, t)
              /\ agreement' = agreement \cup
                    {[on |-> d, rev |-> t.rev, by |-> t.by, carried |-> None]}
        /\ Restamped(s, {d})
        /\ UNCHANGED <<engine, incident, code>>

BeginSplit(s) ==
    \E d \in Made : \E held \in SUBSET Argued(d) \ {{}, Argued(d)} :
        Begin(s, [Reading("split", Nobody, d) EXCEPT !.aside = held])

Split(s) ==
    \E d, e \in Decisions :
        /\ Ready(s, "split", d)
        /\ SetsAside(d, e, txn[s])
        /\ row' = Moved({}, e, txn[s].aside)
        /\ Restamped(s, {d})
        /\ UNCHANGED <<engine, agreement, incident, code>>

BeginSendBack(s) ==
    \E p \in People, d \in Made :
        /\ Waiting(d) # {}
        /\ Begin(s, [Reading("send back", p, d) EXCEPT !.ids = Waiting(d)])

SendBackDecision(s) ==
    \E d \in Decisions :
        /\ Ready(s, "send back", d)
        /\ \A r \in txn[s].ids : row[r].state = "proposed"
        /\ row' = [r \in Rows |-> IF r \in txn[s].ids THEN [row[r] EXCEPT !.back = TRUE] ELSE row[r]]
        /\ Restamped(s, {d})
        /\ UNCHANGED <<engine, decision, agreement, incident, code>>

----------------------------------------------------------------------------
(* Taking back: the words, the decision, an agreement. *)

BeginRevise(s) ==
    \E p \in People, d \in Made :
        /\ In(d) # {}
        /\ Begin(s, [Idle EXCEPT !.act = "revise", !.by = p, !.over = {d}, !.ids = In(d)])

\* A mutant that does not take the key again.
Revived_mutant(ids) ==
    [r \in Rows |-> IF r \in ids
                    THEN [row[r] EXCEPT !.state = "proposed", !.back = FALSE, !.ended = {}]
                    ELSE row[r]]

\* Every row read stands again under the new words and takes its live key.
Revived(ids) ==
    [r \in Rows |-> IF r \in ids
                    THEN [row[r] EXCEPT !.state = "proposed", !.live = TRUE,
                                        !.back = FALSE, !.ended = {}]
                    ELSE row[r]]

Revise(s) ==
    \E d \in Decisions :
        LET t == txn[s] IN
        /\ Ready(s, "revise", d)
        /\ Len(decision[d].words) < MaxWords
        /\ \A r \in t.ids : ~Taken(r[2], row[r].at, {r})
        /\ decision' = [decision EXCEPT ![d].words = Append(@, [by |-> t.by, from |-> t.by])]
        /\ agreement' = agreement \ Standing(d)
        /\ row' = Revived(t.ids)
        /\ Restamped(s, {d})
        /\ UNCHANGED <<engine, incident, code>>

BeginWithdraw(s) ==
    \E d \in Made :
        /\ In(d) # {}
        /\ Begin(s, [Idle EXCEPT !.act = "withdraw", !.over = {d}])

Finished(rs, state) ==
    [r \in Rows |-> IF r \in rs
                    THEN [row[r] EXCEPT !.state = state, !.live = FALSE, !.ended = Made]
                    ELSE row[r]]

Withdraw(s) ==
    \E d \in Decisions :
        /\ Ready(s, "withdraw", d)
        /\ agreement' = agreement \ Standing(d)
        /\ row' = Finished({r \in In(d) : row[r].state \in Live}, "withdrawn")
        /\ Restamped(s, {d})
        /\ UNCHANGED <<engine, decision, incident, code>>

\* What a person agreed to in one batch; a carried agreement is in none.
Batch(p) == {a \in agreement : a.by = p /\ a.carried = None}

BeginUndo(s) ==
    \E p \in People :
        LET ds == {a.on : a \in Batch(p)} IN
        /\ ds # {}
        /\ Begin(s, [Idle EXCEPT !.act = "undo", !.by = p, !.over = ds])

UndoBatch(s) ==
    /\ txn[s].pc = "ready"
    /\ txn[s].act = "undo"
    /\ agreement' = agreement \ {a \in Batch(txn[s].by) : a.on \in txn[s].over}
    /\ row' = ToWaiting(txn[s].over, agreement')
    /\ Restamped(s, txn[s].over)
    /\ UNCHANGED <<engine, decision, incident, code>>

----------------------------------------------------------------------------
(* What the code and the world do to a decision. *)

MoveCode ==
    /\ Free
    /\ code < MaxVersion
    /\ code' = code + 1
    /\ UNCHANGED <<engine, decision, row, agreement, incident, txn>>

\* Lapse: one batch of the rows made against code that is gone.  Not restamped.
Lapse ==
    \E rs \in SUBSET {r \in Rows : row[r].state \in Live /\ row[r].at # code} \ {{}} :
        /\ Free
        /\ row' = Finished(rs, "lapsed")
        /\ UNCHANGED <<engine, decision, agreement, incident, code, txn>>

\* contradicted: the decisions with a live row and a standing agreement.
Contradicted == {d \in Decisions : Standing(d) # {} /\ \E r \in In(d) : row[r].live}

BeginIncident(s) ==
    Begin(s, [Idle EXCEPT !.act = "incident", !.over = Contradicted])

\* RecordIncident, and unsayWhatARecordContradicts.  Not restamped.
RecordIncident(s) ==
    /\ txn[s].pc = "ready"
    /\ txn[s].act = "incident"
    /\ ~incident
    /\ incident' = TRUE
    /\ agreement' = {a \in agreement : a.on \notin txn[s].over}
    /\ row' = ToWaiting(txn[s].over, agreement')
    /\ txn' = [txn EXCEPT ![s] = Idle]
    /\ UNCHANGED <<engine, decision, code>>

ClearIncident ==
    /\ Free
    /\ incident
    /\ incident' = FALSE
    /\ UNCHANGED <<engine, decision, row, agreement, code, txn>>

Next ==
    \/ \E p \in People : Propose(p)
    \/ \E s \in Sessions :
          \/ BeginReaffirm(s) \/ Reaffirm(s)
          \/ BeginApprove(s) \/ ApproveDecision(s)
          \/ BeginSplit(s) \/ Split(s)
          \/ BeginSendBack(s) \/ SendBackDecision(s)
          \/ BeginRevise(s) \/ Revise(s)
          \/ BeginWithdraw(s) \/ Withdraw(s)
          \/ BeginUndo(s) \/ UndoBatch(s)
          \/ BeginIncident(s) \/ RecordIncident(s)
          \/ ReadStamp(s) \/ Rollback(s)
    \/ MoveCode \/ Lapse \/ ClearIncident

Spec == Init /\ [][Next]_vars

----------------------------------------------------------------------------
(* Properties. *)

\* No two rows stand at one occurrence and version, however they came to: a
\* revision of a decision that ended, a re-affirmation, rows set aside, an
\* agreement taken back.  (decision_live_unique, and whatever keeps live_key true.)
OneAnswerAtAPlace ==
    \A r, q \in Rows :
        /\ row[r].state \in Live /\ row[q].state \in Live
        /\ SameKey(q, r[2], row[r].at)
        => r = q

\* A row in force rests on an agreement to the words its decision rests on now,
\* which is what approval.go calls the state the approval record exists to keep.
RestsOnAnAgreement ==
    \A r \in Rows : row[r].state = "approved" =>
        \E a \in Standing(row[r].in) : a.rev = Len(decision[row[r].in].words)

\* The same wherever a transaction reads one moment.
InForceIsAgreed == engine # "statements" => RestsOnAnAgreement

\* Whoever agreed neither proposed the decision nor wrote any revision the
\* record names, nor the very words agreed to, whatever decision they were
\* moved into on the way (secondPerson, intoReturned).
AgreedByAnother ==
    engine # "statements" =>
        \A r \in Rows : \A a \in Standing(row[r].in) :
            row[r].state = "approved" =>
                LET d == decision[row[r].in] IN
                /\ a.by # d.by
                /\ \A i \in DOMAIN d.words : a.by # d.words[i].by
                /\ a.by # d.words[a.rev].from

\* No product reads as exploited and as dismissed at once (incident.go).
NotExploitedAndDismissed == incident => \A r \in Rows : row[r].state # "approved"

\* The same where a transaction has the database to itself.
SerialKeepsTheRecord == engine = "serial" => NotExploitedAndDismissed

\* A row that ended stands again only with new words under it.
EndedStandsOnlyRevised ==
    [][engine # "statements" =>
          \A r \in Rows :
              row[r].state \in Ended /\ row'[r].state \in Live =>
                  Len(decision'[row[r].in].words) > Len(decision[row[r].in].words)]_vars

\* A row that is with its author comes into force only after the author, or
\* somebody, revised: never straight from being sent back or set aside.
SentBackIsNotAgreed ==
    [][engine # "statements" =>
          \A r \in Rows : row[r].back /\ row[r].state = "proposed" =>
                              row'[r].state # "approved"]_vars
=============================================================================
