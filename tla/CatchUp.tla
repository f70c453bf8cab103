------------------------------- MODULE CatchUp -------------------------------
(***************************************************************************)
(* The daily catch-up of the assignment rules (internal/finding/sweep.go): *)
(* every replica asks every few minutes whether a day has passed since the *)
(* last one on any replica, and the first to find that it has queues the   *)
(* sweep of every product a rule is in force in.  The lease that lets one  *)
(* do it is taken for a day and left to lapse, so its expiry is the record *)
(* of when the catch-up last ran; it is handed back only by a pass that    *)
(* failed.                                                                 *)
(*                                                                         *)
(* The sweeps that wait are counted: which product each is for is told by  *)
(* the step that queues it, and what one does is Assignment's.             *)
(***************************************************************************)
EXTENDS Lease, FiniteSets

CONSTANTS
    Products,    \* in the order of their identifiers
    Day,         \* betweenCatchUps, in units of time
    MaxBacklog,  \* queue.backlog
    MaxEvents    \* bound: failures, crashes, rules written or retired, arrivals

ASSUME ProductsAssumption == Products \subseteq Nat /\ IsFiniteSet(Products)
ASSUME DayAssumption == Day \in Nat /\ Day > Spread
ASSUME BoundsAssumption == MaxBacklog \in Nat /\ MaxEvents \in Nat

VARIABLES
    cu,       \* the catch-up loop of each process
    ruled,    \* the products a rule is in force in
    waiting,  \* how many sweeps wait
    since,    \* how long ago the catch-up that counts was taken up
    events

vars == <<lease, cu, ruled, waiting, since, events>>

----------------------------------------------------------------------------
(* The state. *)

Loop == [pc : {"idle", "listing", "queuing", "returning"}, todo : SUBSET Products]

Resting == [pc |-> "idle", todo |-> {}]

\* Longer ago than a day is told apart from a day by nothing.
LongAgo == Day + 1

TypeOK ==
    /\ lease \in LeaseRow
    /\ cu \in [Procs -> Loop]
    /\ ruled \subseteq Products
    /\ waiting \in 0 .. MaxBacklog
    /\ since \in 0 .. LongAgo
    /\ events \in 0 .. MaxEvents

Init ==
    /\ lease = FreeLease
    /\ cu = [p \in Procs |-> Resting]
    /\ ruled \in SUBSET Products
    /\ waiting = 0
    /\ since = LongAgo
    /\ events = 0

Happens == events < MaxEvents /\ events' = events + 1

Does(p, s) == cu' = [cu EXCEPT ![p] = s]

\* What list scans first.
Lowest(todo) == CHOOSE d \in todo : \A e \in todo : d <= e

----------------------------------------------------------------------------
(* A pass. *)

\* TakeLapsed, which the holder's own tick does not renew.
Due(p) == cu[p].pc = "idle" /\ Lapsed(p)

TakeUp(p) ==
    /\ Due(p)
    /\ lease' = HeldFor(p, Day)
    /\ since' = 0
    /\ Does(p, [Resting EXCEPT !.pc = "listing"])
    /\ UNCHANGED <<ruled, waiting, events>>

\* It commits, and is reported failed: the day is spent and nothing is queued.
TakeAnswerLost(p) ==
    /\ Due(p)
    /\ lease' = HeldFor(p, Day)
    /\ since' = 0
    /\ Happens
    /\ UNCHANGED <<cu, ruled, waiting>>

List(p) ==
    /\ cu[p].pc = "listing"
    /\ Does(p, [cu[p] EXCEPT !.pc = "queuing", !.todo = ruled])
    /\ UNCHANGED <<lease, ruled, waiting, since, events>>

\* (Definitions named *_mutant are planted faults: each is the definition that
\* follows it with one mistake, and shows which property notices.)
Room_mutant == waiting <= MaxBacklog

\* The queue takes another sweep.
Room == waiting < MaxBacklog

Left_mutant(todo) == {}

\* What is left once the next product's sweep is queued.
Left(todo) == todo \ {Lowest(todo)}

QueueSweep(p) ==
    /\ cu[p].pc = "queuing"
    /\ cu[p].todo # {}
    /\ Room
    /\ waiting' = waiting + 1
    /\ Does(p, [cu[p] EXCEPT !.todo = Left(@)])
    /\ UNCHANGED <<lease, ruled, since, events>>

\* Nothing left, or a full queue: the lease stays, and the rest waits a day.
PassEnds(p) ==
    /\ cu[p].pc = "queuing"
    /\ cu[p].todo = {} \/ ~Room
    /\ Does(p, Resting)
    /\ UNCHANGED <<lease, ruled, waiting, since, events>>

\* Listing fails, or an Add does, its commit landed or not.
PassFails(p) ==
    /\ cu[p].pc \in {"listing", "queuing"}
    /\ Happens
    /\ \/ UNCHANGED waiting
       \/ cu[p].todo # {} /\ Room /\ waiting' = waiting + 1
    /\ Does(p, [Resting EXCEPT !.pc = "returning"])
    /\ UNCHANGED <<lease, ruled, since>>

\* The pass that failed is no pass, unless another has taken the work since.
HandBack(p) ==
    /\ cu[p].pc = "returning"
    /\ lease' = Released(p)
    /\ since' = IF lease.by = p THEN LongAgo ELSE since
    /\ Does(p, Resting)
    /\ UNCHANGED <<ruled, waiting, events>>

HandBackFails(p) ==
    /\ cu[p].pc = "returning"
    /\ Happens
    /\ Does(p, Resting)
    /\ UNCHANGED <<lease, ruled, waiting, since>>

\* A process ends, and another starts under another name.
Crash(p) ==
    /\ Happens
    /\ lease' = Orphaned(p)
    /\ Does(p, Resting)
    /\ UNCHANGED <<ruled, waiting, since>>

----------------------------------------------------------------------------
(* The rest of the deployment, and time. *)

\* A rule is written where none was in force, or the last is retired.
Rule(d) ==
    /\ Happens
    /\ ruled' = IF d \in ruled THEN ruled \ {d} ELSE ruled \cup {d}
    /\ UNCHANGED <<lease, cu, waiting, since>>

\* A scan's arrival, a rule or a full batch queues a sweep.
Arrives ==
    /\ Happens
    /\ Room
    /\ waiting' = waiting + 1
    /\ UNCHANGED <<lease, cu, ruled, since>>

Claim ==
    /\ waiting > 0
    /\ waiting' = waiting - 1
    /\ UNCHANGED <<lease, cu, ruled, since, events>>

Tick ==
    /\ lease' = Aged
    /\ since' = IF since < LongAgo THEN since + 1 ELSE since
    /\ UNCHANGED <<cu, ruled, waiting, events>>

----------------------------------------------------------------------------
Pass(p) == TakeUp(p) \/ List(p) \/ QueueSweep(p) \/ PassEnds(p) \/ HandBack(p)

Fails(p) == TakeAnswerLost(p) \/ PassFails(p) \/ HandBackFails(p) \/ Crash(p)

Around == (\E d \in Products : Rule(d)) \/ Arrives \/ Claim

Next == (\E p \in Procs : Pass(p) \/ Fails(p)) \/ Around \/ Tick

Spec == Init /\ [][Next]_vars

(***************************************************************************)
(* Fairness.  A day is long against a pass, against the minutes between    *)
(* two ticks of a loop and the seconds between two claims of a sweep: in a *)
(* prompt world time stands while any of them can be.                      *)
(***************************************************************************)
CanStep == waiting > 0 \/ \E p \in Procs : cu[p].pc # "idle" \/ Lapsed(p)

PromptTick == Tick /\ ~CanStep

Fairness ==
    /\ WF_vars(PromptTick)
    /\ WF_vars(Claim)
    /\ \A p \in Procs : WF_vars(Pass(p))

----------------------------------------------------------------------------
(* Properties. *)

\* Two catch-ups are a day apart but for what the clocks differ by, over crashes,
\* restarts and a replica slow enough to lose the lease, unless the earlier one
\* failed and said so: nobody renews their own lease, hands back another's, or
\* starts afresh because a process did (CatchUp, CatchUpOnce, TakeLapsed).
OneCatchUpADay == [][\A p \in Procs : TakeUp(p) \/ TakeAnswerLost(p) => since > Day - Spread]_vars

\* A product whose rule stays in force has its sweep queued again and again,
\* the last in the order too, whatever failed on the way, where the queue has
\* room for every product's and is drained within the day.
SweepOf(d) == \E p \in Procs : QueueSweep(p) /\ Lowest(cu[p].todo) = d

EveryProductInTurn ==
    \A d \in Products :
        []<><<SweepOf(d)>>_vars \/ []<>(d \notin ruled)
=============================================================================
