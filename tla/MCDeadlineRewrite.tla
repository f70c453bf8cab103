-------------------------- MODULE MCDeadlineRewrite --------------------------
\* An instance of DeadlineRewrite: replicas whose clocks agree, in a world that
\* is prompt for the whole of a behaviour, or is not.
EXTENDS DeadlineRewrite, TLC

SameClocks == [p \in Procs |-> 0]

VARIABLE prompt

MCInit == Init /\ prompt \in BOOLEAN

MCNext ==
    /\ \/ \E p \in Procs : Handler(p) \/ Run(p) \/ Process(p)
       \/ Scan
       \/ prompt /\ PromptTick
       \/ ~prompt /\ Tick
    /\ UNCHANGED prompt

MCSpec == MCInit /\ [][MCNext]_<<vars, prompt>> /\ Fairness

\* A change reaches every deadline in the end, or was lost to a failure, in a
\* world that is prompt: asking is coalesced, the turn waited for, the walk made.
ChangesArrive ==
    (prompt /\ \E s \in Slices \ scanned : due[s] # policy)
        ~> (lost \/ \A s \in Slices \ scanned : due[s] = policy)
=============================================================================
