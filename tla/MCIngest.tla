------------------------------ MODULE MCIngest ------------------------------
(* Small instances of Ingest: what producers send, and who may be alike. *)
EXTENDS Ingest, TLC

CONSTANTS early, late, argued, rival, r1, r2, u1, u2

\* Yesterday's build, today's, today's with other claims beside it, and another
\* inventory claiming today's build time.
MCBuiltAt == [s \in Submissions |-> IF s = early THEN 1 ELSE 2]
MCInventory == [s \in Submissions |-> CASE s = early -> "a" [] s = rival -> "c" [] OTHER -> "b"]

Alike == Permutations(Readers) \cup Permutations(Senders)
=============================================================================
