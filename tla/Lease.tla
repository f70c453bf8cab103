-------------------------------- MODULE Lease --------------------------------
(***************************************************************************)
(* One row of the lease table of internal/queue/lease.go: which process is *)
(* doing a named piece of work, and until when.  The module holds the row  *)
(* and what each statement on it matches and writes; the work that takes   *)
(* the lease EXTENDS it and says when.                                     *)
(*                                                                         *)
(* A row that was never made reads as one handed back: Take makes it in    *)
(* its own transaction.  The row keeps how long until it lapses, on a true *)
(* clock; the process asking reads its own, which runs Ahead of that one.  *)
(***************************************************************************)
EXTENDS Integers

CONSTANTS
    Procs,   \* the processes that ask for the lease
    Ahead,   \* how far each process's clock is ahead of true time
    Spread   \* no two clocks differ by more

ASSUME ClocksAssumption ==
    /\ Ahead \in [Procs -> Nat]
    /\ Spread \in Nat
    /\ \A p, q \in Procs : Ahead[p] - Ahead[q] <= Spread

\* held_by of a lease handed back, and of one taken by a process that has
\* ended: a process's name carries a random part, so no later one has it.
NoOne == "no one"
Gone == "gone"
ASSUME NamesAssumption == {NoOne, Gone} \cap Procs = {}

VARIABLE lease

LeaseRow == [by : Procs \cup {NoOne, Gone}, left : Int]

FreeLease == [by |-> NoOne, left |-> 0]

\* What TakeLapsed matches: nobody holds it, or the time it was held for is over
\* on the clock of the process asking.
Lapsed(p) == lease.by = NoOne \/ lease.left < Ahead[p]

\* What Take matches: the holder may also extend its own.
Takeable(p) == Lapsed(p) \/ lease.by = p

HeldFor(p, length) == [by |-> p, left |-> length + Ahead[p]]

\* (A planted fault: the definition below with the holder forgotten.)
Released_mutant(p) == FreeLease

\* Release, which matches only the holder's own row.
Released(p) == IF lease.by = p THEN FreeLease ELSE lease

\* The holder's process has ended, and its name with it.
Orphaned(p) == IF lease.by = p THEN [lease EXCEPT !.by = Gone] ELSE lease

\* One unit of time.  Nobody's clock tells apart times below none left.
Aged == IF lease.by # NoOne /\ lease.left >= 0
        THEN [lease EXCEPT !.left = @ - 1] ELSE lease
=============================================================================
