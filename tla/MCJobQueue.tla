----------------------------- MODULE MCJobQueue -----------------------------
(***************************************************************************)
(* Instances of JobQueue for TLC.  For the whole of a behaviour either one *)
(* job is there and anything may happen to it, or every job is and nothing *)
(* unscheduled happens and no commit is tried again: two rows and a crash  *)
(* together are too many states.                                           *)
(***************************************************************************)
EXTENDS JobQueue

OneClockAhead == [w \in Workers |-> IF w = "w1" THEN 1 ELSE 0]

VARIABLE several

MCInit == Init /\ several \in BOOLEAN

MCNext ==
    /\ Next
    /\ IF several THEN events' = events /\ \A w \in Workers : ~wk'[w].matched
       ELSE \A j \in Jobs \ {1} : row'[j] = row[j]
    /\ UNCHANGED several

MCSpec == MCInit /\ [][MCNext]_<<vars, several>> /\ Fairness
=============================================================================
