--------------------------- MODULE DeadlineRewrite ---------------------------
(***************************************************************************)
(* Stored deadlines, and the rewrite a changed policy forces               *)
(* (internal/httpapi/adminapi/settings.go).                                *)
(*                                                                         *)
(* A finding stores the deadline the policy gave it, so a change of policy *)
(* makes every stored one wrong.  The handler that changed it asks its own *)
(* process's rewriter, which runs one rewrite at a time and remembers, at  *)
(* most once, that another was asked for.  A run waits for the lease that  *)
(* keeps two processes apart, reads the policy once its turn has come, and *)
(* walks the findings slice by slice, each a statement of its own.  Asking *)
(* is not stored: a process that ends forgets it.                          *)
(*                                                                         *)
(* The policy is a version, and so is what a slice of the findings was     *)
(* last written from.  A scan being applied is the other writer: it reads  *)
(* the policy as it begins and writes its findings' deadlines when its     *)
(* transaction commits, taking no lease.                                   *)
(***************************************************************************)
EXTENDS Lease, FiniteSets

CONSTANTS
    Slices,      \* ranges of finding identifiers, walked lowest first
    Limit,       \* recomputeLimit: one run's bound, and its lease's length
    MaxChanges,  \* bound: how often the policy is changed
    MaxEvents    \* bound: crashes, shutdowns, failures, lost answers, scans

ASSUME SlicesAssumption == Slices \subseteq Nat /\ Slices # {} /\ IsFiniteSet(Slices)
ASSUME LimitAssumption == Limit \in Nat \ {0}
ASSUME EventsAssumption == MaxChanges \in Nat /\ MaxEvents \in Nat

VARIABLES
    policy,   \* the version of the settings in force
    due,      \* the version each slice's deadlines were written from
    scanned,  \* the slices a scan wrote last
    rw,       \* each process's rewriter, and its handlers
    scan,     \* the scan being applied
    lost,     \* a rewrite was forgotten, cut short or refused, and none since made up for it
    events

vars == <<lease, policy, due, scanned, rw, scan, lost, events>>

----------------------------------------------------------------------------
(* The state. *)

\* pc is where the rewriter's goroutine is, "idle" where none runs.
Rewriter == [pc : {"down", "idle", "next", "waiting", "turn", "writing", "returning"},
             asking : Nat,            \* handlers that changed the policy and have not asked yet
             pending : BOOLEAN,       \* asked for since the run in progress began
             stopped : BOOLEAN,       \* StopRewrites has been called
             left : Nat,              \* of the run's own bound
             read : Nat,              \* the policy the run read
             todo : SUBSET Slices]    \* what it has yet to walk

Fresh == [pc |-> "idle", asking |-> 0, pending |-> FALSE, stopped |-> FALSE,
          left |-> 0, read |-> 0, todo |-> {}]

TypeOK ==
    /\ lease \in LeaseRow
    /\ policy \in Nat
    /\ due \in [Slices -> Nat]
    /\ scanned \in SUBSET Slices
    /\ rw \in [Procs -> Rewriter]
    /\ scan \in [applying : BOOLEAN, read : Nat]
    /\ lost \in BOOLEAN
    /\ events \in Nat

Init ==
    /\ lease = FreeLease
    /\ policy = 0
    /\ due = [s \in Slices |-> 0]
    /\ scanned = {}
    /\ rw = [p \in Procs |-> Fresh]
    /\ scan = [applying |-> FALSE, read |-> 0]
    /\ lost = FALSE
    /\ events = 0

MayHappen == events < MaxEvents /\ events' = events + 1

\* A rewriter that has its turn and time left: what no two of may overlap.
InTurn(p) == rw[p].pc \in {"turn", "writing"} /\ rw[p].left > 0

\* What a process would forget if it ended now.
Owes(p) == rw[p].asking > 0 \/ rw[p].pending \/ rw[p].pc \in {"waiting", "turn", "writing"}

----------------------------------------------------------------------------
(* The handler. *)

\* The transaction that changes the policy commits on p.
Change(p) ==
    /\ rw[p].pc # "down"
    /\ policy < MaxChanges
    /\ policy' = policy + 1
    /\ rw' = [rw EXCEPT ![p].asking = @ + 1]
    /\ UNCHANGED <<lease, due, scanned, scan, lost, events>>

\* It commits and the handler is told it did not, so it asks for nothing.
ChangeAnswerLost(p) ==
    /\ rw[p].pc # "down"
    /\ policy < MaxChanges
    /\ policy' = policy + 1
    /\ lost' = TRUE
    /\ MayHappen
    /\ UNCHANGED <<lease, due, scanned, rw, scan>>

\* (Definitions named *_mutant are planted faults: each is the definition that
\* follows it with one mistake, and shows which property notices.)
Asked_mutant(r) == [r EXCEPT !.asking = @ - 1, !.pc = IF @ = "idle" THEN "next" ELSE @,
                             !.pending = (r.pc = "idle")]

Asked(r) == [r EXCEPT !.asking = @ - 1, !.pc = IF @ = "idle" THEN "next" ELSE @,
                      !.pending = TRUE]

\* The handler's call once its change has committed.
Ask(p) ==
    /\ rw[p].asking > 0
    /\ ~rw[p].stopped
    /\ rw' = [rw EXCEPT ![p] = Asked(rw[p])]
    /\ UNCHANGED <<lease, policy, due, scanned, scan, lost, events>>

AskRefused(p) ==
    /\ rw[p].asking > 0
    /\ rw[p].stopped
    /\ rw' = [rw EXCEPT ![p].asking = @ - 1]
    /\ lost' = TRUE
    /\ UNCHANGED <<lease, policy, due, scanned, scan, events>>

----------------------------------------------------------------------------
(* The rewriter's goroutine. *)

NextRun(p) ==
    /\ rw[p].pc = "next"
    /\ rw[p].pending /\ ~rw[p].stopped
    /\ rw' = [rw EXCEPT ![p] = [@ EXCEPT !.pc = "waiting", !.pending = FALSE, !.left = Limit]]
    /\ UNCHANGED <<lease, policy, due, scanned, scan, lost, events>>

\* The goroutine ends; what a stop left pending is forgotten.
NoMoreRuns(p) ==
    /\ rw[p].pc = "next"
    /\ ~rw[p].pending \/ rw[p].stopped
    /\ rw' = [rw EXCEPT ![p].pc = "idle"]
    /\ lost' = (lost \/ rw[p].pending)
    /\ UNCHANGED <<lease, policy, due, scanned, scan, events>>

\* The poll of Await that gets the lease.
TakeTurn(p) ==
    /\ rw[p].pc = "waiting"
    /\ rw[p].left > 0
    /\ Takeable(p)
    /\ lease' = HeldFor(p, Limit)
    /\ rw' = [rw EXCEPT ![p].pc = "turn"]
    /\ UNCHANGED <<policy, due, scanned, scan, lost, events>>

\* The take lands and is reported failed: a turn missed, asked for again.
TakeAnswerLost(p) ==
    /\ rw[p].pc = "waiting"
    /\ rw[p].left > 0
    /\ Takeable(p)
    /\ lease' = HeldFor(p, Limit)
    /\ MayHappen
    /\ UNCHANGED <<policy, due, scanned, rw, scan, lost>>

\* The bound ends before a turn came; nothing is handed back.
NoTurnCame(p) ==
    /\ rw[p].pc = "waiting"
    /\ rw[p].left = 0
    /\ rw' = [rw EXCEPT ![p].pc = "next"]
    /\ lost' = TRUE
    /\ UNCHANGED <<lease, policy, due, scanned, scan, events>>

\* The policy, read once the turn has come.
LoadWindows(p) ==
    /\ rw[p].pc = "turn"
    /\ rw[p].left > 0
    /\ rw' = [rw EXCEPT ![p] = [@ EXCEPT !.pc = "writing", !.read = policy, !.todo = Slices]]
    /\ UNCHANGED <<lease, policy, due, scanned, scan, lost, events>>

\* Recompute's statement for the next slice.  The last ends the run.
WriteSlice(p, s) ==
    /\ rw[p].pc = "writing"
    /\ rw[p].left > 0
    /\ s \in rw[p].todo
    /\ \A t \in rw[p].todo : s <= t
    /\ due' = [due EXCEPT ![s] = rw[p].read]
    /\ scanned' = scanned \ {s}
    /\ IF rw[p].todo = {s}
       THEN /\ rw' = [rw EXCEPT ![p] = [@ EXCEPT !.pc = "returning", !.todo = {}]]
            /\ lost' = (lost /\ rw[p].read # policy)
       ELSE /\ rw' = [rw EXCEPT ![p].todo = @ \ {s}]
            /\ UNCHANGED lost
    /\ UNCHANGED <<lease, policy, scan, events>>

\* Reading the policy or a statement fails, or the bound is over.  The slices
\* already walked stay as they were written.
CutShort(p) ==
    /\ rw[p].pc \in {"turn", "writing"}
    /\ IF rw[p].left = 0 THEN UNCHANGED events ELSE MayHappen
    /\ rw' = [rw EXCEPT ![p] = [@ EXCEPT !.pc = "returning", !.todo = {}]]
    /\ lost' = TRUE
    /\ UNCHANGED <<lease, policy, due, scanned, scan>>

ReturnTurn(p) ==
    /\ rw[p].pc = "returning"
    /\ lease' = Released(p)
    /\ rw' = [rw EXCEPT ![p].pc = "next"]
    /\ UNCHANGED <<policy, due, scanned, scan, lost, events>>

\* The database did not answer in settleLease: the lease is left to lapse.
ReturnFails(p) ==
    /\ rw[p].pc = "returning"
    /\ rw' = [rw EXCEPT ![p].pc = "next"]
    /\ MayHappen
    /\ UNCHANGED <<lease, policy, due, scanned, scan, lost>>

----------------------------------------------------------------------------
(* A scan being applied, processes and time. *)

\* Apply reads the policy inside its transaction ...
ScanReads ==
    /\ ~scan.applying
    /\ scan' = [applying |-> TRUE, read |-> policy]
    /\ MayHappen
    /\ UNCHANGED <<lease, policy, due, scanned, rw, lost>>

\* ... which commits with the deadlines of the findings it opened or re-rated.
ScanCommits(s) ==
    /\ scan.applying
    /\ due' = [due EXCEPT ![s] = scan.read]
    /\ scanned' = scanned \cup {s}
    /\ scan' = [applying |-> FALSE, read |-> 0]
    /\ UNCHANGED <<lease, policy, rw, lost, events>>

\* StopRewrites: the run in progress is cancelled, and later asks refused.
StopRewrites(p) ==
    /\ rw[p].pc # "down"
    /\ ~rw[p].stopped
    /\ rw' = [rw EXCEPT ![p] = [@ EXCEPT !.stopped = TRUE, !.left = 0]]
    /\ MayHappen
    /\ UNCHANGED <<lease, policy, due, scanned, scan, lost>>

\* A process ends: killed, or at the end of its shutdown.
Exit(p) ==
    /\ rw[p].pc # "down"
    /\ rw' = [rw EXCEPT ![p] = [Fresh EXCEPT !.pc = "down"]]
    /\ lease' = Orphaned(p)
    /\ lost' = (lost \/ Owes(p))
    /\ MayHappen
    /\ UNCHANGED <<policy, due, scanned, scan>>

Start(p) ==
    /\ rw[p].pc = "down"
    /\ rw' = [rw EXCEPT ![p] = Fresh]
    /\ UNCHANGED <<lease, policy, due, scanned, scan, lost, events>>

Tick_mutant ==
    /\ lease' = Aged
    /\ rw' = [p \in Procs |->
                 [rw[p] EXCEPT !.left = IF rw[p].pc \in {"waiting", "turn", "writing"}
                                        THEN @ - 1 ELSE 0]]
    /\ UNCHANGED <<policy, due, scanned, scan, lost, events>>

Tick ==
    /\ lease' = Aged
    /\ rw' = [p \in Procs |->
                 [rw[p] EXCEPT !.left = IF @ > 0 /\ rw[p].pc \in {"waiting", "turn", "writing"}
                                        THEN @ - 1 ELSE 0]]
    /\ UNCHANGED <<policy, due, scanned, scan, lost, events>>

----------------------------------------------------------------------------

Handler(p) == Change(p) \/ ChangeAnswerLost(p) \/ Ask(p) \/ AskRefused(p)

Run(p) ==
    \/ NextRun(p) \/ NoMoreRuns(p)
    \/ TakeTurn(p) \/ TakeAnswerLost(p) \/ NoTurnCame(p)
    \/ LoadWindows(p) \/ CutShort(p) \/ ReturnTurn(p) \/ ReturnFails(p)
    \/ \E s \in Slices : WriteSlice(p, s)

Process(p) == StopRewrites(p) \/ Exit(p) \/ Start(p)

Scan == ScanReads \/ \E s \in Slices : ScanCommits(s)

Next == (\E p \in Procs : Handler(p) \/ Run(p) \/ Process(p)) \/ Scan \/ Tick

Spec == Init /\ [][Next]_vars

(***************************************************************************)
(* Fairness.  A unit of time is long against everything a rewriter does    *)
(* but wait for its turn: the bound is thirty minutes, a rewrite of        *)
(* 441,108 findings took nineteen seconds (settings.go), and a waiter asks *)
(* every two.  So in a prompt world time stands while a rewriter can step. *)
(***************************************************************************)
CanStep(p) ==
    \/ rw[p].asking > 0
    \/ rw[p].pc \in {"next", "turn", "writing", "returning"}
    \/ rw[p].pc = "waiting" /\ (rw[p].left = 0 \/ Takeable(p))

PromptTick == Tick /\ \A p \in Procs : ~CanStep(p)

Advance(p) ==
    \/ Ask(p) \/ AskRefused(p) \/ NextRun(p) \/ NoMoreRuns(p)
    \/ TakeTurn(p) \/ NoTurnCame(p) \/ LoadWindows(p) \/ ReturnTurn(p)
    \/ (CutShort(p) /\ rw[p].left = 0)
    \/ \E s \in Slices : WriteSlice(p, s)

Fairness ==
    /\ WF_vars(PromptTick)
    /\ \A p \in Procs : WF_vars(Advance(p))
    /\ WF_vars(\E s \in Slices : ScanCommits(s))

----------------------------------------------------------------------------
(* Properties. *)

\* Two rewrites overlap for less than the clocks differ by, and so not at all
\* where they agree: the lease a run takes outlasts the bound that run began
\* with, and nobody hands back a lease that is not theirs any more (Await,
\* Release, rewriteDeadlines).
OneRewriteAtATime ==
    \A p, q \in Procs :
        p # q /\ InTurn(p) /\ InTurn(q) => rw[p].left < Spread \/ rw[q].left < Spread

\* Deadlines that describe a superseded policy are owed a rewrite: a handler is
\* about to ask for it, one is asked for or waits for its turn, or the one in
\* progress read the newest policy - unless one was lost in a way the log tells
\* of, or a scan wrote them.  Coalescing and the wait for a turn drop nothing.
Renews(p) ==
    \/ rw[p].asking > 0 \/ rw[p].pending
    \/ rw[p].pc \in {"waiting", "turn"}
    \/ rw[p].pc = "writing" /\ rw[p].read = policy

SupersededAreOwed ==
    (Spread = 0 /\ ~lost /\ \E s \in Slices \ scanned : due[s] # policy)
        => \E p \in Procs : Renews(p)

\* The rewrite that finishes last holds the newest policy: none puts back
\* deadlines of an older one over those another wrote (settings.go, "the last
\* rewrite is the one holding the newest policy").
NeverPutsBack ==
    [][Spread = 0 => \A s \in Slices : s \notin scanned /\ s \notin scanned' => due'[s] >= due[s]]_vars

\* What the comment of rewriteDeadlines says the lease and the late read are for:
\* stored deadlines do not end up describing a policy that has been superseded
\* with nothing saying so.
NothingSupersededUnsaid ==
    (~lost /\ \E s \in Slices : due[s] # policy) => \E p \in Procs : Renews(p)
=============================================================================
