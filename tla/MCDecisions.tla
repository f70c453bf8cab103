---------------------------- MODULE MCDecisions ----------------------------
(***************************************************************************)
(* Instances of Decisions for TLC.  Where one transaction runs at a time,  *)
(* sequences are long: two people, and three revisions unless the code     *)
(* moved and both occurrences are decided; where two run at once, one      *)
(* occurrence, two revisions and code that stays: three people who each    *)
(* read one moment, or two whose statements each read their own.           *)
(***************************************************************************)
EXTENDS Decisions, TLC

\* People, occurrences and sessions are interchangeable.
Symmetry == Permutations(People) \cup Permutations(Places) \cup Permutations(Sessions)

Apart(p) ==
    /\ \A d \in Decisions : decision[d].by # p /\ p \notin Writers(d)
    /\ \A a \in agreement : a.by # p
    /\ \A s \in Sessions : txn[s].by # p
Undecided(pl) == \A r \in Rows : r[2] = pl => row[r].state = "absent"
Brief == \A d \in Decisions : Len(decision[d].words) <= 2

Within ==
    IF engine = "serial"
    THEN /\ \E p \in People : Apart(p)
         /\ Brief \/ code = 1 \/ \E pl \in Places : Undecided(pl)
    ELSE /\ \E pl \in Places : Undecided(pl)
         /\ code = 1 /\ Brief
         /\ engine = "snapshot" \/ \E p \in People : Apart(p)

MCSpec == Init /\ [][Next /\ Within']_vars
=============================================================================
