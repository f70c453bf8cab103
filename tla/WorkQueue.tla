------------------------------ MODULE WorkQueue ------------------------------
(***************************************************************************)
(* What the queue promises the packages that use it, with no workers,      *)
(* claims or clocks: each job is waiting, out with somebody, done or       *)
(* failed; it is handed out at most MaxAttempts times before an operator   *)
(* has to look at it; done is final, and failed is left only by being      *)
(* resubmitted.  JobQueue implements it.                                   *)
(***************************************************************************)
EXTENDS Naturals

CONSTANTS Jobs, MaxAttempts

VARIABLES status, handed

Init ==
    /\ status = [j \in Jobs |-> "absent"]
    /\ handed = [j \in Jobs |-> 0]

Submit(j) ==
    /\ status[j] = "absent"
    /\ status' = [status EXCEPT ![j] = "waiting"]
    /\ UNCHANGED handed

\* Out for the first time, or taken over from whoever had it.
HandOut(j) ==
    /\ status[j] \in {"waiting", "out"}
    /\ handed[j] < MaxAttempts
    /\ status' = [status EXCEPT ![j] = "out"]
    /\ handed' = [handed EXCEPT ![j] = @ + 1]

Finish(j) ==
    /\ status[j] = "out"
    /\ status' = [status EXCEPT ![j] = "done"]
    /\ UNCHANGED handed

\* Back to waiting after a try that counts.
Return(j) ==
    /\ status[j] = "out"
    /\ handed[j] < MaxAttempts
    /\ status' = [status EXCEPT ![j] = "waiting"]
    /\ UNCHANGED handed

\* Back to waiting untried: the try is given back.
ReturnUntried(j) ==
    /\ status[j] = "out"
    /\ handed[j] > 0
    /\ status' = [status EXCEPT ![j] = "waiting"]
    /\ handed' = [handed EXCEPT ![j] = @ - 1]

\* Every try is spent.  Several jobs can be given up in one step.
GiveUp(S) ==
    /\ \A j \in S : status[j] = "out" /\ handed[j] = MaxAttempts
    /\ status' = [j \in Jobs |-> IF j \in S THEN "failed" ELSE status[j]]
    /\ UNCHANGED handed

Resubmit(j) ==
    /\ status[j] = "failed"
    /\ status' = [status EXCEPT ![j] = "waiting"]
    /\ handed' = [handed EXCEPT ![j] = 0]

Next ==
    \/ \E j \in Jobs : \/ Submit(j) \/ HandOut(j) \/ Finish(j) \/ Return(j)
                       \/ ReturnUntried(j) \/ Resubmit(j)
    \/ \E S \in SUBSET Jobs : GiveUp(S)

Spec == Init /\ [][Next]_<<status, handed>>
=============================================================================
