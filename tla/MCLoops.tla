------------------------------- MODULE MCLoops -------------------------------
\* Instances of what every replica runs on its own: CatchUp, with replicas of
\* which one's clock is ahead, in a world that is prompt for the whole of a
\* behaviour or is not; and Notify, as two replicas that sweep, one that sweeps
\* and one that carries, and one that sweeps and two that carry.  A behaviour
\* follows one of them, and the rest stands as it began.
EXTENDS CatchUp, Notify

OneClockAhead == [p \in Procs |-> IF p = "p1" THEN 1 ELSE 0]

VARIABLES
    follows,   \* what the behaviour follows
    prompt     \* the world of the catch-up is prompt

MCInit ==
    /\ Init
    /\ NotifyInit
    /\ follows \in {"catching up", "telling", "carrying", "overtaking"}
    /\ prompt \in BOOLEAN
    /\ follows # "catching up" => prompt /\ ruled = {}
    /\ follows = "catching up" => hearing = {}
    /\ follows \in {"telling", "overtaking"} => hearing = {"ana"}

CatchesUp ==
    \/ \E p \in Procs : Pass(p) \/ Fails(p)
    \/ Around
    \/ prompt /\ PromptTick
    \/ ~prompt /\ Tick

Tells ==
    \/ Turns
    \/ Concerns("ana")
    \/ \E w \in Watchers : Watching(w) \/ SweepStops(w)

OneSweeps == Turns \/ (\E x \in People : Concerns(x)) \/ Watching("w1")

\* Fewer changes where something goes wrong as well.
Carry ==
    /\ \/ OneSweeps
       \/ Carrying("c1") \/ Mishaps("c1")
       \/ Overdue
    /\ changes' + mishaps' <= MaxChanges

\* c2 comes in beside c1.
Overtake ==
    /\ \/ OneSweeps
       \/ \E p \in Carriers : Carrying(p) \/ Mishaps(p)
       \/ Overdue
    /\ changes' < MaxChanges
    /\ carry'["c2"].pc # "idle" => mishaps' > 0

MCNext ==
    /\ \/ follows = "catching up" /\ CatchesUp /\ UNCHANGED notifyVars
       \/ follows = "telling" /\ Tells /\ UNCHANGED vars
       \/ follows = "carrying" /\ Carry /\ UNCHANGED vars
       \/ follows = "overtaking" /\ Overtake /\ UNCHANGED vars
    /\ UNCHANGED <<follows, prompt>>

\* The fairness of CatchUp, and of Notify where liveness is asked: sweeps and
\* cycles come round on tickers, and time passes.
MCFairness ==
    /\ WF_vars(follows = "catching up" /\ PromptTick)
    /\ WF_vars(follows = "catching up" /\ Claim)
    /\ \A p \in Procs : WF_vars(follows = "catching up" /\ Pass(p))
    /\ WF_notifyVars(follows = "carrying" /\ Watching("w1"))
    /\ WF_notifyVars(follows = "carrying" /\ Carrying("c1"))
    /\ WF_notifyVars(follows = "carrying" /\ Overdue)

MCSpec == MCInit /\ [][MCNext]_<<vars, notifyVars, follows, prompt>> /\ MCFairness

\* A product whose rule stays in force has its sweep queued again and again, the
\* last in the order too, whatever failed on the way, in a world that is prompt.
EveryProductIsSwept == follows = "catching up" /\ prompt => EveryProductInTurn

\* What stays open is said, or given up on, by the one replica that carries,
\* whatever went wrong on the way.
WhatIsOpenIsSaid == follows = "carrying" => EveryOpeningIsSaid
=============================================================================
