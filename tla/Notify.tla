------------------------------- MODULE Notify -------------------------------
(***************************************************************************)
(* What is said about one condition, that an upstream a product trusts     *)
(* cannot be read (internal/notify: notify.go, watch.go, outbound.go): the *)
(* rows that tell the administrators, opened and cleared by the sweep      *)
(* every replica runs, and the one delivery that carries it to a           *)
(* destination outside, claimed and settled by whichever replica holds the *)
(* lease of that work.                                                     *)
(*                                                                         *)
(* The rows of one condition are one opening while any of them is open.    *)
(* The destination is to hear of an opening once, and of one that follows  *)
(* it again.  What a delivery covers is kept as the row that claimed it,   *)
(* and worked out from the times the rows were opened and cleared.         *)
(*                                                                         *)
(* A sweep's transaction reads and then writes; each statement that        *)
(* carries is on its own.  Times are the order in which transactions that  *)
(* go on to write read the clock.  An upstream that stops being trusted or *)
(* a setting of how often one is read, events, digests, chat and mail are  *)
(* left out.                                                               *)
(*                                                                         *)
(* Some names begin with Notify: CatchUp, which one run follows beside     *)
(* this, has the plain ones.                                               *)
(***************************************************************************)
EXTENDS Naturals, Sequences, FiniteSets

CONSTANTS
    Watchers,    \* the replicas that derive conditions
    Carriers,    \* the replicas that carry to the destination
    People,      \* who may have to hear of it
    Tries,       \* tries
    MaxChanges,  \* bound: how often what is true changes
    MaxMishaps   \* bound: what goes wrong

Nobody == "nobody"

ASSUME NotifyAssumption ==
    /\ Tries \in Nat \ {0}
    /\ Nobody \notin People
    /\ MaxChanges \in Nat /\ MaxMishaps \in Nat

VARIABLES
    failing,   \* the upstream has not been read for long enough
    hearing,   \* the administrators
    row,       \* the notification table, in the order of its identifiers
    now,
    watch,     \* the sweep of each watcher
    delivery,  \* the outbound_delivery table
    carry,     \* the cycle of each carrier
    changes, mishaps

world == <<failing, hearing, changes>>
notifyVars == <<world, row, now, watch, delivery, carry, mishaps>>

----------------------------------------------------------------------------
(* The state. *)

\* cleared is 0 while the row is open.  The last two are no columns: how often
\* its end was said, and how often a request that carried it was received.
Row == [of : People, opened : Nat \ {0}, cleared : Nat, ended : Nat, told : Nat]

Ids == DOMAIN row
Open(r) == row[r].cleared = 0
OpenFor(x) == {r \in Ids : row[r].of = x /\ Open(r)}

Sweep == [pc : {"people", "write"},
          wanted : SUBSET People,
          recovered : BOOLEAN,    \* the upstream was read again
          todo : SUBSET People,   \* whose rows are yet to be reconciled
          of : People \cup {Nobody},
          stopped : SUBSET Nat,   \* the rows it read open and did not want
          opens : BOOLEAN,
          at : Nat]

Swept == [pc |-> "people", wanted |-> {}, recovered |-> FALSE, todo |-> {}, of |-> Nobody,
          stopped |-> {}, opens |-> FALSE, at |-> 0]

\* row is 0 while there is none; out says the latest attempt began less than
\* inFlight ago.
Delivery == [row : Nat, attempts : 0 .. Tries, out : BOOLEAN, sent : BOOLEAN, failed : BOOLEAN]

NoDelivery == [row |-> 0, attempts |-> 0, out |-> FALSE, sent |-> FALSE, failed |-> FALSE]

Cycle == [pc : {"idle", "next", "prior", "walk", "hand", "retake", "again", "sending", "settling"},
          todo : SUBSET Nat,   \* the window, what is done taken out
          row : Nat,
          held : Delivery,     \* as it was read
          prior : Nat,         \* how far the walk has come, and when that row
          end : Nat,           \*   was read to have been cleared
          went : BOOLEAN]

Waits == [pc |-> "idle", todo |-> {}, row |-> 0, held |-> NoDelivery, prior |-> 0,
          end |-> 0, went |-> FALSE]

\* Every table and every loop holds what its columns and variables can.
NotifyTypeOK ==
    /\ failing \in BOOLEAN
    /\ hearing \subseteq People
    /\ row \in Seq(Row)
    /\ now \in Nat
    /\ watch \in [Watchers -> Sweep]
    /\ delivery \in Delivery
    /\ carry \in [Carriers -> Cycle]
    /\ changes \in 0 .. MaxChanges
    /\ mishaps \in 0 .. MaxMishaps

NotifyInit ==
    /\ failing = FALSE
    /\ hearing \in SUBSET People
    /\ row = <<>>
    /\ now = 0
    /\ watch = [w \in Watchers |-> Swept]
    /\ delivery = NoDelivery
    /\ carry = [p \in Carriers |-> Waits]
    /\ changes = 0
    /\ mishaps = 0

Mishap == mishaps < MaxMishaps /\ mishaps' = mishaps + 1

----------------------------------------------------------------------------
(* What is true. *)

Changes == changes < MaxChanges /\ changes' = changes + 1

Turns ==
    /\ Changes
    /\ failing' = ~failing
    /\ UNCHANGED <<hearing, row, now, watch, delivery, carry, mishaps>>

\* Somebody becomes an administrator, or is one no more.
Concerns(x) ==
    /\ Changes
    /\ hearing' = IF x \in hearing THEN hearing \ {x} ELSE hearing \cup {x}
    /\ UNCHANGED <<failing, row, now, watch, delivery, carry, mishaps>>

----------------------------------------------------------------------------
(* The sweep that opens and clears. *)

Sweeps(w, s) == watch' = [watch EXCEPT ![w] = s]

Wanted == IF failing THEN hearing ELSE {}

\* What is so, and whom it concerns or is being said to, read once for
\* everybody's rows.
Derive(w) ==
    LET todo == Wanted \cup {x \in People : OpenFor(x) # {}} IN
    /\ watch[w].pc = "people" /\ watch[w].todo = {}
    /\ todo # {}
    /\ Sweeps(w, [Swept EXCEPT !.wanted = Wanted, !.todo = todo,
                               !.recovered = ~failing /\ hearing # {}])
    /\ UNCHANGED <<world, row, now, delivery, carry, mishaps>>

\* ReconcileTelling begins: what is being said to x, and the time.
Reads(w, x) ==
    LET s == watch[w]
        open == OpenFor(x)
        stopped == IF x \in s.wanted THEN {} ELSE open
        opens == x \in s.wanted /\ open = {}
    IN
    /\ s.pc = "people" /\ x \in s.todo
    /\ IF stopped = {} /\ ~opens
       THEN /\ Sweeps(w, IF s.todo = {x} THEN Swept ELSE [s EXCEPT !.todo = @ \ {x}])
            /\ UNCHANGED now
       ELSE /\ now' = now + 1
            /\ Sweeps(w, [s EXCEPT !.pc = "write", !.of = x, !.stopped = stopped,
                                   !.opens = opens, !.at = now + 1])
    /\ UNCHANGED <<world, row, delivery, carry, mishaps>>

\* (Definitions named *_mutant are planted faults: each is the definition that
\* follows it with one mistake, and shows which property notices.)
Clears_mutant(stopped) == stopped \cap Ids

\* The rows a reconcile's write clears: one at a time, and only what is still open.
Clears(stopped) == {r \in stopped \cap Ids : Open(r)}

\* about_open is unique for a person: a row another replica opened is left to it.
Opens(s) == s.opens /\ OpenFor(s.of) = {}

Opened(s) == [of |-> s.of, opened |-> s.at, cleared |-> 0, ended |-> 0, told |-> 0]

Cleared(s, r) ==
    [row[r] EXCEPT !.cleared = s.at, !.ended = IF s.recovered THEN @ + 1 ELSE @]

\* ReconcileTelling commits: the clears, what is said of them, what opens.
Writes(w) ==
    LET s == watch[w]
        old == [r \in Ids |-> IF r \in Clears(s.stopped) THEN Cleared(s, r) ELSE row[r]]
    IN
    /\ s.pc = "write"
    /\ row' = IF Opens(s) THEN Append(old, Opened(s)) ELSE old
    /\ Sweeps(w, IF s.todo = {s.of} THEN Swept
                 ELSE [Swept EXCEPT !.wanted = s.wanted, !.recovered = s.recovered,
                                    !.todo = s.todo \ {s.of}])
    /\ UNCHANGED <<world, now, delivery, carry, mishaps>>

\* A statement fails or the replica ends: nothing is written, and the rest waits
\* for another sweep.
SweepStops(w) ==
    /\ watch[w].todo # {}
    /\ Mishap
    /\ Sweeps(w, Swept)
    /\ UNCHANGED <<world, row, now, delivery, carry>>

----------------------------------------------------------------------------
(* The cycle that carries. *)

Carries(p, c) == carry' = [carry EXCEPT ![p] = c]

\* unsettled: what the destination has still to be told.
Settled(r) ==
    /\ delivery.row \in Ids
    /\ delivery.row = r \/ Open(delivery.row)
    /\ delivery.sent \/ delivery.attempts >= Tries

Window == {r \in Ids : Open(r) /\ ~Settled(r)}

InCycle(p) == carry[p].pc # "idle"

\* The lease taken and the window read.
Begins(p) ==
    /\ ~InCycle(p)
    /\ \A q \in Carriers : ~InCycle(q)
    /\ Window # {}
    /\ Carries(p, [Waits EXCEPT !.pc = "next", !.todo = Window])
    /\ UNCHANGED <<world, row, now, watch, delivery, mishaps>>

\* A replica slow enough to have lost the lease goes on beside the next.
Overtakes(p) ==
    /\ ~InCycle(p)
    /\ \E q \in Carriers : InCycle(q)
    /\ Window # {}
    /\ Mishap
    /\ Carries(p, [Waits EXCEPT !.pc = "next", !.todo = Window])
    /\ UNCHANGED <<world, row, now, watch, delivery>>

Onward(c) == IF c.todo \subseteq {c.row} THEN Waits
           ELSE [Waits EXCEPT !.pc = "next", !.todo = c.todo \ {c.row}]

Judged_mutant(c) ==
    IF c.held.sent \/ (~c.held.failed /\ c.held.out) THEN Onward(c) ELSE [c EXCEPT !.pc = "again"]

\* What claim does with a delivery it read: nothing where it has gone, was given
\* up on or is on its way; another attempt where it has not.
Judged(c) ==
    IF \/ c.held.sent
       \/ c.held.attempts >= Tries
       \/ ~c.held.failed /\ c.held.out
    THEN Onward(c)
    ELSE [c EXCEPT !.pc = "again"]

\* What the window was read in the order of.
First(todo) == {r \in todo : \A q \in todo : row[r].opened <= row[q].opened}

\* The insert, which the unique index refuses where there is a delivery already.
Stakes(p) ==
    /\ carry[p].pc = "next"
    /\ \E r \in First(carry[p].todo) :
          LET c == [carry[p] EXCEPT !.row = r, !.held = delivery] IN
          IF delivery.row = 0
          THEN /\ delivery' = [NoDelivery EXCEPT !.row = r, !.attempts = 1, !.out = TRUE]
               /\ Carries(p, [c EXCEPT !.pc = "sending"])
          ELSE /\ UNCHANGED delivery
               /\ Carries(p, IF delivery.row = r THEN Judged(c) ELSE [c EXCEPT !.pc = "prior"])
    /\ UNCHANGED <<world, row, now, watch, mishaps>>

\* reopened: the row that claimed the delivery, which may have been cleared.
ReadsPrior(p) ==
    LET c == carry[p] IN
    /\ c.pc = "prior"
    /\ Carries(p, [c EXCEPT !.pc = "walk", !.prior = c.held.row, !.end = row[c.held.row].cleared])
    /\ UNCHANGED <<world, row, now, watch, delivery, mishaps>>

\* (Only what has cleared since.)
Across_mutant(prior, end) == {r \in Ids \ {prior} : row[r].opened <= end /\ row[r].cleared > end}

\* The rows that were open when one cleared at end, but it.
Across(prior, end) ==
    {r \in Ids \ {prior} : row[r].opened <= end /\ (Open(r) \/ row[r].cleared > end)}

\* The first of them: one still open, or the one that stayed open longest.
Longest(rs) ==
    LET open == {r \in rs : Open(r)} IN
    IF open # {} THEN {r \in open : \A q \in open : r <= q}
    ELSE {r \in rs : \A q \in rs : row[r].cleared >= row[q].cleared}

WalkStep(p) ==
    LET c == carry[p] IN
    /\ c.pc = "walk" /\ c.end # 0
    /\ LET across == Across(c.prior, c.end) IN
       IF across = {}
       THEN Carries(p, [c EXCEPT !.pc = "retake"])
       ELSE \E r \in Longest(across) : Carries(p, [c EXCEPT !.prior = r, !.end = row[r].cleared])
    /\ UNCHANGED <<world, row, now, watch, delivery, mishaps>>

WalkEnds(p) ==
    LET c == carry[p] IN
    /\ c.pc = "walk" /\ c.end = 0
    /\ Carries(p, IF c.prior = c.held.row THEN Judged(c) ELSE [c EXCEPT !.pc = "hand"])
    /\ UNCHANGED <<world, row, now, watch, delivery, mishaps>>

\* The delivery handed to a row of its opening that is still open.
Hands(p) ==
    LET c == carry[p] IN
    /\ c.pc = "hand"
    /\ delivery' = IF delivery.row = c.held.row THEN [delivery EXCEPT !.row = c.prior] ELSE delivery
    /\ Carries(p, Judged(c))
    /\ UNCHANGED <<world, row, now, watch, mishaps>>

Anew_mutant(r) == [delivery EXCEPT !.row = r]

Anew(r) == [NoDelivery EXCEPT !.row = r]

\* retake: the delivery taken again, unsent, for the opening of the row at hand.
Retakes(p) ==
    LET c == carry[p] IN
    /\ c.pc = "retake"
    /\ IF delivery.row = c.held.row
       THEN /\ delivery' = Anew(c.row)
            /\ Carries(p, Judged([c EXCEPT !.held = Anew(c.row)]))
       ELSE /\ UNCHANGED delivery
            /\ Carries(p, Judged(c))
    /\ UNCHANGED <<world, row, now, watch, mishaps>>

NotTakenSince_mutant(held) == ~delivery.sent

NotTakenSince(held) == ~delivery.sent /\ delivery.attempts = held.attempts

\* Another attempt, unless it went or somebody took one since it was read.
Again(p) ==
    LET c == carry[p] IN
    /\ c.pc = "again"
    /\ IF NotTakenSince(c.held)
       THEN /\ delivery' = [delivery EXCEPT !.attempts = @ + 1, !.out = TRUE, !.failed = FALSE]
            /\ Carries(p, [c EXCEPT !.pc = "sending"])
       ELSE /\ UNCHANGED delivery
            /\ Carries(p, Onward(c))
    /\ UNCHANGED <<world, row, now, watch, mishaps>>

Heard(r) == row' = [row EXCEPT ![r].told = @ + 1]

Answered(p, went) == Carries(p, [carry[p] EXCEPT !.pc = "settling", !.went = went])

\* The request is received and answered so.
Received(p) ==
    /\ carry[p].pc = "sending"
    /\ Heard(carry[p].row)
    /\ Answered(p, TRUE)
    /\ UNCHANGED <<world, now, watch, delivery, mishaps>>

\* It is refused, or does not arrive.
Refused(p) ==
    /\ carry[p].pc = "sending"
    /\ Answered(p, FALSE)
    /\ UNCHANGED <<world, row, now, watch, delivery, mishaps>>

\* It is received, and the answer is not.
AnswerLost(p) ==
    /\ carry[p].pc = "sending"
    /\ Mishap
    /\ Heard(carry[p].row)
    /\ Answered(p, FALSE)
    /\ UNCHANGED <<world, now, watch, delivery>>

Recorded(went) == IF went THEN [delivery EXCEPT !.sent = TRUE, !.failed = FALSE]
                  ELSE [delivery EXCEPT !.failed = TRUE]

Settles(p) ==
    /\ carry[p].pc = "settling"
    /\ delivery' = Recorded(carry[p].went)
    /\ Carries(p, Onward(carry[p]))
    /\ UNCHANGED <<world, row, now, watch, mishaps>>

\* Why it was refused is not written and the cycle goes on; that it went is not,
\* and the cycle ends.
SettleLost(p) ==
    /\ carry[p].pc = "settling"
    /\ Mishap
    /\ Carries(p, IF carry[p].went THEN Waits ELSE Onward(carry[p]))
    /\ UNCHANGED <<world, row, now, watch, delivery>>

\* A statement fails or the replica ends, a request it has made received or not.
CycleStops(p) ==
    /\ InCycle(p)
    /\ Mishap
    /\ IF carry[p].pc = "sending" THEN UNCHANGED row \/ Heard(carry[p].row) ELSE UNCHANGED row
    /\ Carries(p, Waits)
    /\ UNCHANGED <<world, now, watch, delivery>>

\* inFlight has passed: twice the bound on one request.  That nobody is still sending
\* or settling by then is taken from the comment beside it.
Overdue ==
    /\ delivery.out
    /\ \A p \in Carriers : carry[p].pc \notin {"sending", "settling"}
    /\ delivery' = [delivery EXCEPT !.out = FALSE]
    /\ UNCHANGED <<world, row, now, watch, carry, mishaps>>

----------------------------------------------------------------------------
Watching(w) == Derive(w) \/ (\E x \in People : Reads(w, x)) \/ Writes(w)

Carrying(p) ==
    \/ Begins(p) \/ Stakes(p) \/ ReadsPrior(p) \/ WalkStep(p) \/ WalkEnds(p)
    \/ Hands(p) \/ Retakes(p) \/ Again(p) \/ Received(p) \/ Refused(p) \/ Settles(p)

Mishaps(p) == Overtakes(p) \/ AnswerLost(p) \/ SettleLost(p) \/ CycleStops(p)

NotifyNext ==
    \/ Turns
    \/ \E x \in People : Concerns(x)
    \/ \E w \in Watchers : Watching(w) \/ SweepStops(w)
    \/ \E p \in Carriers : Carrying(p) \/ Mishaps(p)
    \/ Overdue

NotifySpec == NotifyInit /\ [][NotifyNext]_notifyVars

----------------------------------------------------------------------------
(* Properties. *)

\* Somebody is told once that a condition ended, however many replicas reconcile
\* at once (ReconcileTelling).
EndIsSaidOnce ==
    \A r \in Ids : row[r].ended <= 1 /\ (row[r].ended = 1 => ~Open(r))

\* No moment between the two rows' openings at which none was open.
SameOpening(r, s) ==
    \A t \in 1 .. now :
        (t < row[r].opened) # (t < row[s].opened) =>
            \E n \in Ids : row[n].opened <= t /\ (Open(n) \/ t < row[n].cleared)

\* The opening lasts.
Standing(r) == \E n \in Ids : Open(n) /\ SameOpening(r, n)

\* How often the destination heard of r's opening.
TimesHeard(r) ==
    Cardinality(UNION {{s} \X (1 .. row[s].told) : s \in {s \in Ids : SameOpening(r, s)}})

Hears(p) == carry[p].pc = "sending" /\ row' # row /\ carry'[p] # carry[p]

\* A destination hears of an opening once while it lasts, of however many people
\* it is said and whichever of their rows clears first, and once more at most for
\* each thing that went wrong: a lost answer or record, a cycle cut short
\* (reopened, claim).  This is of one replica that sweeps and one that carries.
\* Where two carry and few people have rows, one that outlasted its lease counts as
\* one thing gone wrong; over more rows it may have an opening said again and again.
OneOpeningIsSaidOnce ==
    [][\A p \in Carriers :
          Hears(p) /\ Standing(carry[p].row) => TimesHeard(carry[p].row) <= mishaps]_notifyVars

\* While the first opening of a condition lasts nobody sends beside a request that
\* is out, though a replica outlasted its lease: of two passes that take another
\* attempt at once, one does (claim).  This is of one replica that sweeps: where two
\* do, a row one read the clock for before the other cleared the rest, and wrote
\* after, makes one opening of two, between which a delivery was taken again.
NobodySendsBeside ==
    \A p, q \in Carriers :
        /\ p # q
        /\ carry[p].pc = "sending" /\ carry[q].pc = "sending"
        /\ Standing(carry[p].row) /\ Standing(carry[q].row)
        => \E r \in Ids : ~SameOpening(r, carry[p].row)

GivenUp(r) ==
    /\ delivery.attempts >= Tries
    /\ delivery.row \in Ids /\ SameOpening(r, delivery.row)

\* What stays open is said, or given up on after that many tries, though what
\* was said before it of the same condition had gone, or had been given up on: a
\* condition that ended and came back is news again (reopened).
EveryOpeningIsSaid == []<>(\A r \in Ids : Open(r) => TimesHeard(r) > 0 \/ GivenUp(r))

\* A channel wants an opening once (outbound.go: Delivery).  It may hear of one
\* that has ended again: a cycle sends the row of one person, the rows of all of
\* them clear, and the row of another, still in the window the cycle read, takes
\* the delivery of what it finds over for a new opening.  No run checks this.
EndedIsSaidOnce ==
    [][\A p \in Carriers : Hears(p) => TimesHeard(carry[p].row) <= mishaps]_notifyVars

\* Two replicas reaching a delivery together act once (outbound.go: reopened).
\* They may not when it is taken again: who comes second keeps the count it read,
\* of attempts at what was said before, and the new count, on its way up from
\* none, passes it.  No run checks this.
ReachedTogetherActOnce ==
    \A p, q \in Carriers :
        /\ p # q
        /\ carry[p].pc = "sending" /\ carry[q].pc = "sending"
        /\ Standing(carry[p].row) /\ Standing(carry[q].row)
        => ~SameOpening(carry[p].row, carry[q].row)
=============================================================================
