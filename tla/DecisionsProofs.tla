-------------------------- MODULE DecisionsProofs --------------------------
(***************************************************************************)
(* What Decisions keeps for any people, occurrences and transactions, and  *)
(* for any number of decisions, revisions and versions.                    *)
(***************************************************************************)
EXTENDS Decisions, TLAPS

----------------------------------------------------------------------------
(* Shapes.  A transaction that will quote words holds a revision its one   *)
(* decision has, so that the words it quotes are there, and the rows it    *)
(* read belong to decisions; one that will sign something has a name.      *)

Quotes(t) ==
    t.pc # "idle" /\ t.act \in {"approve", "split"} =>
        \E d \in Decisions : t.over = {d} /\ t.rev \in 1 .. Len(decision[d].words)

Holds(t) ==
    /\ \A r \in t.ids \cup t.aside : row[r].in # None
    /\ t.act \in {"reaffirm", "approve", "revise"} => t.by \in People
    /\ t.act = "revise" => t.over \subseteq Made

Authored == \A d \in Decisions : decision[d].words # <<>> => decision[d].by \in People

ShapeInv ==
    /\ TypeOK
    /\ Authored
    /\ \A r \in Rows : row[r].state # "absent" => row[r].in # None
    /\ \A s \in Sessions : Quotes(txn[s]) /\ Holds(txn[s])

USE EnginesAssumption, BoundsAssumption, NamesAssumption

LEMMA ConstantFacts ==
    /\ None \notin Decisions
    /\ 1 \in Versions
    /\ Decisions \subseteq Nat
BY DEF None, Decisions, Versions

\* A session's transaction is as it was, or gone.
Kept == \A q \in Sessions : txn'[q] = txn[q] \/ txn'[q] = Idle

LEMMA RestampedKeeps ==
    ASSUME TypeOK, NEW s, NEW ds, Restamped(s, ds)
    PROVE  Kept /\ txn' \in [Sessions -> Txn]
<1>1. Idle \in Txn
  BY DEF Idle, Txn, None, Nobody
<1>2. txn \in [Sessions -> Txn]
  BY DEF TypeOK
<1> QED
  BY <1>1, <1>2 DEF Restamped, Kept

LEMMA EndedKeeps ==
    ASSUME TypeOK, NEW s, txn' = [txn EXCEPT ![s] = Idle]
    PROVE  Kept /\ txn' \in [Sessions -> Txn]
<1>1. Idle \in Txn
  BY DEF Idle, Txn, None, Nobody
<1>2. txn \in [Sessions -> Txn]
  BY DEF TypeOK
<1> QED
  BY <1>1, <1>2 DEF Kept

\* Words are only added to.
Longer == \A d \in Decisions : Len(decision[d].words) <= Len(decision'[d].words)

LEMMA QuotesKept ==
    ASSUME ShapeInv, Kept, Longer, decision' \in [Decisions -> Decision]
    PROVE  (\A s \in Sessions : Quotes(txn[s]))'
<1> SUFFICES ASSUME NEW s \in Sessions
             PROVE  Quotes(txn[s])'
  OBVIOUS
<1>1. CASE txn'[s] = Idle
  BY <1>1 DEF Quotes, Idle
<1>2. CASE txn'[s] = txn[s]
  <2> SUFFICES ASSUME txn[s].pc # "idle", txn[s].act \in {"approve", "split"}
               PROVE  \E d \in Decisions :
                         txn[s].over = {d} /\ txn[s].rev \in 1 .. Len(decision'[d].words)
    BY <1>2 DEF Quotes
  <2>1. PICK d \in Decisions : txn[s].over = {d} /\ txn[s].rev \in 1 .. Len(decision[d].words)
    BY DEF ShapeInv, Quotes
  <2>2. /\ Len(decision[d].words) \in Nat
        /\ Len(decision'[d].words) \in Nat
    BY DEF ShapeInv, TypeOK, Decision
  <2>3. txn[s].rev \in 1 .. Len(decision'[d].words)
    BY <2>1, <2>2 DEF Longer
  <2> QED
    BY <2>1, <2>3
<1> QED
  BY <1>1, <1>2 DEF Kept

\* A decision written: the others stand as they were.
LEMMA SaysWrites ==
    ASSUME TypeOK, NEW d \in Decisions, NEW by \in People, NEW from \in People,
           d \notin Made, Says(d, by, from)
    PROVE  /\ decision' \in [Decisions -> Decision]
           /\ \A e \in Decisions \ {d} : decision'[e] = decision[e]
           /\ decision'[d] = [by |-> by, words |-> <<[by |-> by, from |-> from]>>]
           /\ Len(decision'[d].words) = 1
           /\ Longer
<1>1. decision \in [Decisions -> Decision]
  BY DEF TypeOK
<1>2. [by |-> by, words |-> <<[by |-> by, from |-> from]>>] \in Decision
  BY DEF Decision, Word
<1>3. decision'[d] = [by |-> by, words |-> <<[by |-> by, from |-> from]>>]
  BY <1>1 DEF Says
<1>4. Len(decision'[d].words) = 1
  BY <1>3
<1>5. Len(decision[d].words) = 0
  BY DEF Made
<1>6. Longer
  <2> SUFFICES ASSUME NEW e \in Decisions
               PROVE  Len(decision[e].words) <= Len(decision'[e].words)
    BY DEF Longer
  <2>1. Len(decision[e].words) \in Nat
    BY <1>1 DEF Decision
  <2> QED
    BY <2>1, <1>1, <1>4, <1>5 DEF Says
<1> QED
  BY <1>1, <1>2, <1>3, <1>4, <1>6 DEF Says

\* A step is of one of these shapes; each layer below goes through them once.
LEMMA ShapeInit == Init => ShapeInv
<1> SUFFICES ASSUME Init
             PROVE  ShapeInv
  OBVIOUS
<1>1. TypeOK
  <2>1. Unmade \in Decision
    BY DEF Unmade, Decision
  <2>2. Absent \in Row
    BY DEF Absent, Row
  <2>3. Idle \in Txn
    BY DEF Idle, Txn
  <2> QED
    BY <2>1, <2>2, <2>3, ConstantFacts DEF Init, TypeOK
<1>2. \A d \in Decisions : decision[d].words = <<>>
  BY DEF Init, Unmade
<1>3. \A s \in Sessions : txn[s].pc = "idle"
  BY DEF Init, Idle
<1>4. \A s \in Sessions : Holds(txn[s])
  BY DEF Init, Idle, Holds
<1>5. \A r \in Rows : row[r].state = "absent"
  BY DEF Init, Absent
<1> QED
  BY <1>1, <1>2, <1>3, <1>4, <1>5 DEF ShapeInv, Quotes, Authored

\* A row written for a decision made now, and the rows of an act's table.
LEMMA WrittenIsARow ==
    ASSUME TypeOK, NEW d \in Decisions, NEW state \in Live
    PROVE  Written(d, state) \in Row
BY DEF TypeOK, Written, Row, Live

LEMMA RowsReturned ==
    ASSUME TypeOK, NEW ds, NEW left
    PROVE  ToWaiting(ds, left) \in [Rows -> Row]
<1>1. ASSUME NEW r \in Rows
      PROVE  [row[r] EXCEPT !.state = "proposed", !.back = FALSE] \in Row
  BY DEF TypeOK, Row, Live
<1> QED
  BY <1>1 DEF TypeOK, ToWaiting

LEMMA RowsFinished ==
    ASSUME TypeOK, NEW rs, NEW state \in Ended
    PROVE  Finished(rs, state) \in [Rows -> Row]
<1>1. Made \subseteq Decisions
  BY DEF Made
<1>2. ASSUME NEW r \in Rows
      PROVE  [row[r] EXCEPT !.state = state, !.live = FALSE, !.ended = Made] \in Row
  BY <1>1 DEF TypeOK, Row, Ended
<1> QED
  BY <1>2 DEF TypeOK, Finished

LEMMA RowsRevived ==
    ASSUME TypeOK, NEW ids
    PROVE  Revived(ids) \in [Rows -> Row]
<1>1. ASSUME NEW r \in Rows
      PROVE  [row[r] EXCEPT !.state = "proposed", !.live = TRUE,
                            !.back = FALSE, !.ended = {}] \in Row
  BY DEF TypeOK, Row, Live
<1> QED
  BY <1>1 DEF TypeOK, Revived

LEMMA RowsMoved ==
    ASSUME TypeOK, NEW ids, NEW e \in Decisions \cup {None}, NEW aside
    PROVE  Moved(ids, e, aside) \in [Rows -> Row]
<1>1. ASSUME NEW r \in Rows
      PROVE  /\ [row[r] EXCEPT !.in = e, !.back = TRUE] \in Row
             /\ [row[r] EXCEPT !.state = "approved"] \in Row
  BY DEF TypeOK, Row, Live
<1> QED
  BY <1>1 DEF TypeOK, Moved

\* A row stays in some decision once it is in one.
RowsStay ==
    \A r \in Rows : /\ row[r].in # None => row'[r].in # None
                    /\ row'[r].state # "absent" => row'[r].in # None

LEMMA MadeGrows ==
    ASSUME ShapeInv, Longer, decision' \in [Decisions -> Decision]
    PROVE  Made \subseteq Made'
<1> SUFFICES ASSUME NEW d \in Decisions, decision[d].words # <<>>
             PROVE  decision'[d].words # <<>>
  BY DEF Made
<1>1. decision[d].words \in Seq(Word) /\ decision'[d].words \in Seq(Word)
  BY DEF ShapeInv, TypeOK, Decision
<1>2. Len(decision[d].words) # 0 /\ Len(decision[d].words) \in Nat /\ Len(decision'[d].words) \in Nat
  BY <1>1
<1>3. Len(decision[d].words) <= Len(decision'[d].words)
  BY DEF Longer
<1> QED
  BY <1>1, <1>2, <1>3

LEMMA ShapeKept ==
    ASSUME ShapeInv, TypeOK', Kept, Longer, Authored', RowsStay
    PROVE  ShapeInv'
<1>1. (\A s \in Sessions : Quotes(txn[s]))'
  BY QuotesKept DEF TypeOK
<1>3. Made \subseteq Made'
  BY MadeGrows DEF TypeOK
<1>2. ASSUME NEW s \in Sessions
      PROVE  Holds(txn[s])'
  <2>1. CASE txn'[s] = Idle
    BY <2>1 DEF Holds, Idle
  <2>2. CASE txn'[s] = txn[s]
    <3>1. txn[s].ids \cup txn[s].aside \subseteq Rows
      BY DEF ShapeInv, TypeOK, Txn
    <3> QED
      BY <2>2, <3>1, <1>3 DEF ShapeInv, Holds, RowsStay
  <2> QED
    BY <2>1, <2>2 DEF Kept
<1> QED
  BY <1>1, <1>2 DEF ShapeInv, RowsStay

LEMMA SameWords == ASSUME ShapeInv, decision' = decision PROVE Longer /\ Authored'
<1>1. \A d \in Decisions : Len(decision[d].words) \in Nat
  BY DEF ShapeInv, TypeOK, Decision
<1> QED
  BY <1>1 DEF Longer, Authored, ShapeInv

\* What a transaction that read these things holds.
Same(u, t) ==
    /\ u.act = t.act /\ u.over = t.over /\ u.ids = t.ids /\ u.aside = t.aside /\ u.whole = t.whole
    /\ t.act # "send back" => u.rev = t.rev /\ u.by = t.by

LEMMA LookedSame ==
    ASSUME NEW t \in Txn
    PROVE  /\ Looked(t) \in Txn /\ Same(Looked(t), t) /\ Looked(t).pc = "ready"
           /\ Looked(t).carry = {p \in People : /\ t.act = "reaffirm"
                                                /\ \E d \in t.over : /\ p \in ToCarry(d, t.by)
                                                                     /\ SecondPerson(p, d)}
BY DEF Looked, Txn, Stamped, Same

LEMMA BeginEffect ==
    ASSUME NEW s, NEW t \in Txn, Begin(s, t)
    PROVE  \E u \in Txn :
             /\ txn' = [txn EXCEPT ![s] = u]
             /\ Same(u, t)
             /\ \/ u.pc = "rows" /\ engine = "statements"
                \/ u = Looked(t) /\ Permits(t)
<1>1. CASE txn' = [txn EXCEPT ![s] = [t EXCEPT !.pc = "rows"]] /\ engine = "statements"
  <2>1. /\ [t EXCEPT !.pc = "rows"] \in Txn
        /\ Same([t EXCEPT !.pc = "rows"], t)
        /\ [t EXCEPT !.pc = "rows"].pc = "rows"
    BY DEF Txn, Same
  <2> QED
    BY <1>1, <2>1
<1>2. CASE txn' = [txn EXCEPT ![s] = Looked(t)] /\ Permits(t)
  BY <1>2, LookedSame
<1> QED
  BY <1>1, <1>2 DEF Begin

LEMMA ReadingShape ==
    ASSUME ShapeInv, NEW act \in Stamped, NEW p \in People \cup {Nobody}, NEW d \in Made
    PROVE  /\ Reading(act, p, d) \in Txn
           /\ Reading(act, p, d).over = {d}
           /\ Reading(act, p, d).rev \in 1 .. Len(decision[d].words)
<1>1. d \in Decisions /\ decision[d].words # <<>> /\ decision[d].words \in Seq(Word)
  BY DEF Made, ShapeInv, TypeOK, Decision
<1>2. Len(decision[d].words) \in Nat /\ Len(decision[d].words) # 0
  BY <1>1
<1>3. Idle \in Txn
  BY DEF Idle, Txn
<1>4. /\ [Idle EXCEPT !.act = act, !.by = p, !.over = {d}, !.rev = Len(decision[d].words)] \in Txn
      /\ [Idle EXCEPT !.act = act, !.by = p, !.over = {d}, !.rev = Len(decision[d].words)].over = {d}
      /\ [Idle EXCEPT !.act = act, !.by = p, !.over = {d}, !.rev = Len(decision[d].words)].rev
             = Len(decision[d].words)
  BY <1>1, <1>2, <1>3 DEF Txn
<1> QED
  BY <1>2, <1>4 DEF Reading

\* What each act hands to Begin.
LEMMA IdleTxn ==
    /\ Idle \in Txn
    /\ Idle.pc = "idle" /\ Idle.act = "none" /\ Idle.ids = {} /\ Idle.aside = {} /\ Idle.over = {}
BY DEF Idle, Txn

\* What each act has read when it begins.
TookOf(t, d) ==
    /\ t.over = {d}
    /\ \/ /\ t.act = "approve" /\ t.by \in People /\ t.rev = Len(decision[d].words)
          /\ t.ids \subseteq Waiting(d) /\ t.aside \subseteq Argued(d) /\ (t.whole => t.ids = {})
       \/ /\ t.act = "split" /\ t.rev = Len(decision[d].words)
          /\ t.ids = {} /\ t.aside \subseteq Argued(d)
       \/ t.act = "send back" /\ t.ids = Waiting(d) /\ t.aside = {}
       \/ t.act = "revise" /\ t.by \in People /\ t.ids = In(d) /\ t.aside = {}
       \/ t.act = "withdraw" /\ t.ids = {} /\ t.aside = {}

Took(t) ==
    \/ \E d \in Made : TookOf(t, d)
    \/ /\ t.act = "reaffirm" /\ t.by \in People /\ t.aside = {}
       /\ \E r \in Rows : row[r].in # None /\ t.over = {row[r].in} /\ t.ids = {r}
    \/ t.act = "undo" /\ t.ids = {} /\ t.aside = {}
    \/ t.act = "incident" /\ t.ids = {} /\ t.aside = {} /\ t.over = Contradicted

\* Every transaction that begins has read what its act reads.
Begins(s) ==
    \/ BeginReaffirm(s) \/ BeginApprove(s) \/ BeginSplit(s) \/ BeginSendBack(s)
    \/ BeginRevise(s) \/ BeginWithdraw(s) \/ BeginUndo(s) \/ BeginIncident(s)

LEMMA BeginsTook ==
    ASSUME ShapeInv, NEW s \in Sessions, Begins(s)
    PROVE  \E t \in Txn : Took(t) /\ Begin(s, t)
<1>0. /\ TypeOK
      /\ \A d \in Decisions : In(d) \subseteq Rows
      /\ Made \subseteq Decisions
      /\ \A d \in Decisions : \A r \in In(d) : row[r].in # None
  BY ConstantFacts DEF ShapeInv, In, Made
<1>1. CASE BeginReaffirm(s)
  <2>1. PICK p \in People, r \in Rows :
          /\ Reaffirmable(r, p)
          /\ Begin(s, [Idle EXCEPT !.act = "reaffirm", !.by = p, !.over = {row[r].in}, !.ids = {r}])
    BY <1>1 DEF BeginReaffirm
  <2>2. row[r].in # None /\ row[r].in \in Decisions
    BY <2>1 DEF Reaffirmable, ShapeInv, TypeOK, Row
  <2> DEFINE t == [Idle EXCEPT !.act = "reaffirm", !.by = p, !.over = {row[r].in}, !.ids = {r}]
  <2>3. t \in Txn /\ t.act = "reaffirm" /\ t.by = p /\ t.over = {row[r].in} /\ t.ids = {r} /\ t.aside = {}
    BY <2>2, IdleTxn DEF Txn, Stamped
  <2>4. Begin(s, t)
    BY <2>1
  <2> HIDE DEF t
  <2> QED
    BY <2>2, <2>3, <2>4 DEF Took
<1>2. CASE BeginApprove(s)
  <2>1. PICK p \in People, d \in Made : \E aside \in SUBSET Argued(d) :
          LET ids == Waiting(d) \ aside IN
          /\ ids \cup aside # {}
          /\ Begin(s, [Reading("approve", p, d) EXCEPT !.ids = ids, !.aside = aside,
                                                     !.whole = aside = Argued(d)])
    BY <1>2 DEF BeginApprove
  <2>2. PICK aside \in SUBSET Argued(d) :
          Begin(s, [Reading("approve", p, d) EXCEPT !.ids = Waiting(d) \ aside, !.aside = aside,
                                                   !.whole = aside = Argued(d)])
    BY <2>1
  <2> DEFINE t == [Reading("approve", p, d) EXCEPT !.ids = Waiting(d) \ aside, !.aside = aside,
                                                   !.whole = aside = Argued(d)]
  <2>3. aside \subseteq In(d) /\ Waiting(d) \ aside \subseteq In(d) /\ In(d) \subseteq Rows
    BY DEF Argued, Waiting, In
  <2>4. /\ Reading("approve", p, d) \in Txn
        /\ Reading("approve", p, d).over = {d}
        /\ Reading("approve", p, d).rev \in 1 .. Len(decision[d].words)
    BY ReadingShape DEF Stamped
  <2>5. t \in Txn
    BY <2>3, <2>4 DEF Txn
  <2>6. t.over = {d} /\ t.rev \in 1 .. Len(decision[d].words)
        /\ t.ids = Waiting(d) \ aside /\ t.aside = aside /\ t.act = "approve" /\ t.by = p
        /\ t.rev = Len(decision[d].words) /\ t.whole = (aside = Argued(d))
    BY <2>4 DEF Txn, Reading, Idle
  <2>7. Begin(s, t)
    BY <2>2
  <2> HIDE DEF t
  <2> QED
    <3>1. t.ids \subseteq Waiting(d) /\ t.aside \subseteq Argued(d) /\ (t.whole => t.ids = {})
      BY <2>6 DEF Waiting
    <3> QED
      BY <2>5, <2>6, <2>7, <3>1 DEF Took, TookOf
<1>3. CASE BeginSplit(s)
  <2>1. PICK d \in Made : \E held \in SUBSET Argued(d) \ {{}, Argued(d)} :
          Begin(s, [Reading("split", Nobody, d) EXCEPT !.aside = held])
    BY <1>3 DEF BeginSplit
  <2>2. PICK held \in SUBSET Argued(d) :
          Begin(s, [Reading("split", Nobody, d) EXCEPT !.aside = held])
    BY <2>1
  <2> DEFINE t == [Reading("split", Nobody, d) EXCEPT !.aside = held]
  <2>3. held \subseteq In(d) /\ In(d) \subseteq Rows
    BY DEF Argued, In
  <2>4. /\ Reading("split", Nobody, d) \in Txn
        /\ Reading("split", Nobody, d).over = {d}
        /\ Reading("split", Nobody, d).rev \in 1 .. Len(decision[d].words)
    BY ReadingShape DEF Stamped
  <2>5. Reading("split", Nobody, d).ids = {}
    BY DEF Reading, Idle
  <2>6. t \in Txn
    BY <2>3, <2>4 DEF Txn
  <2>7. t.over = {d} /\ t.rev \in 1 .. Len(decision[d].words) /\ t.ids = {} /\ t.aside = held
        /\ t.act = "split" /\ t.rev = Len(decision[d].words)
    BY <2>4, <2>5 DEF Txn, Reading, Idle
  <2>8. Begin(s, t)
    BY <2>2
  <2> HIDE DEF t
  <2> QED
    BY <2>6, <2>7, <2>8 DEF Took, TookOf
<1>4. CASE BeginSendBack(s)
  <2>1. PICK p \in People, d \in Made :
          Begin(s, [Reading("send back", p, d) EXCEPT !.ids = Waiting(d)])
    BY <1>4 DEF BeginSendBack
  <2> DEFINE t == [Reading("send back", p, d) EXCEPT !.ids = Waiting(d)]
  <2>2. Waiting(d) \subseteq In(d) /\ In(d) \subseteq Rows
    BY DEF Waiting, Argued, In
  <2>3. /\ Reading("send back", p, d) \in Txn
        /\ Reading("send back", p, d).over = {d}
        /\ Reading("send back", p, d).rev \in 1 .. Len(decision[d].words)
    BY ReadingShape DEF Stamped
  <2>4. Reading("send back", p, d).aside = {}
    BY DEF Reading, Idle
  <2>5. t \in Txn
    BY <2>2, <2>3 DEF Txn
  <2>6. t.over = {d} /\ t.rev \in 1 .. Len(decision[d].words) /\ t.ids = Waiting(d) /\ t.aside = {}
        /\ t.act = "send back"
    BY <2>3, <2>4 DEF Txn, Reading, Idle
  <2>7. Begin(s, t)
    BY <2>1
  <2> HIDE DEF t
  <2> QED
    BY <2>5, <2>6, <2>7 DEF Took, TookOf
<1>5. CASE BeginRevise(s)
  <2>1. PICK p \in People, d \in Made :
          Begin(s, [Idle EXCEPT !.act = "revise", !.by = p, !.over = {d}, !.ids = In(d)])
    BY <1>5 DEF BeginRevise
  <2> DEFINE t == [Idle EXCEPT !.act = "revise", !.by = p, !.over = {d}, !.ids = In(d)]
  <2>2. t \in Txn /\ t.act = "revise" /\ t.by = p /\ t.over = {d} /\ t.ids = In(d) /\ t.aside = {}
    BY <1>0, IdleTxn DEF Txn, Stamped
  <2>3. Begin(s, t)
    BY <2>1
  <2> HIDE DEF t
  <2> QED
    BY <2>2, <2>3 DEF Took, TookOf
<1>6. CASE BeginWithdraw(s)
  <2>1. PICK d \in Made : Begin(s, [Idle EXCEPT !.act = "withdraw", !.over = {d}])
    BY <1>6 DEF BeginWithdraw
  <2> DEFINE t == [Idle EXCEPT !.act = "withdraw", !.over = {d}]
  <2>2. t \in Txn /\ t.act = "withdraw" /\ t.over = {d} /\ t.ids = {} /\ t.aside = {}
    BY <1>0, IdleTxn DEF Txn, Stamped
  <2>3. Begin(s, t)
    BY <2>1
  <2> HIDE DEF t
  <2> QED
    BY <2>2, <2>3 DEF Took, TookOf
<1>7. CASE BeginUndo(s)
  <2>1. PICK p \in People :
          Begin(s, [Idle EXCEPT !.act = "undo", !.by = p, !.over = {a.on : a \in Batch(p)}])
    BY <1>7 DEF BeginUndo
  <2>2. {a.on : a \in Batch(p)} \in SUBSET Decisions
    BY <1>0 DEF Batch, TypeOK, Agreement
  <2> DEFINE t == [Idle EXCEPT !.act = "undo", !.by = p, !.over = {a.on : a \in Batch(p)}]
  <2>3. t \in Txn /\ t.act = "undo" /\ t.ids = {} /\ t.aside = {}
    BY <2>2, IdleTxn DEF Txn, Stamped
  <2>4. Begin(s, t)
    BY <2>1
  <2> HIDE DEF t
  <2> QED
    BY <2>3, <2>4 DEF Took
<1>8. CASE BeginIncident(s)
  <2>1. Contradicted \in SUBSET Decisions
    BY DEF Contradicted
  <2> DEFINE t == [Idle EXCEPT !.act = "incident", !.over = Contradicted]
  <2>2. t \in Txn /\ t.act = "incident" /\ t.over = Contradicted /\ t.ids = {} /\ t.aside = {}
    BY <2>1, IdleTxn DEF Txn, Stamped
  <2>3. Begin(s, t)
    BY <1>8 DEF BeginIncident
  <2> HIDE DEF t
  <2> QED
    BY <2>2, <2>3 DEF Took
<1> QED
  BY <1>1, <1>2, <1>3, <1>4, <1>5, <1>6, <1>7, <1>8 DEF Begins

LEMMA TookShape ==
    ASSUME ShapeInv, NEW t \in Txn, Took(t), NEW u \in Txn, Same(u, t)
    PROVE  Quotes(u) /\ Holds(u)
<1>1. \A d \in Made : /\ d \in Decisions
                     /\ Len(decision[d].words) \in 1 .. Len(decision[d].words)
                     /\ Waiting(d) \subseteq In(d) /\ Argued(d) \subseteq In(d)
                     /\ \A r \in In(d) : row[r].in # None
  <2> SUFFICES ASSUME NEW d \in Made
               PROVE  /\ d \in Decisions
                      /\ Len(decision[d].words) \in 1 .. Len(decision[d].words)
                      /\ Waiting(d) \subseteq In(d) /\ Argued(d) \subseteq In(d)
                      /\ \A r \in In(d) : row[r].in # None
    OBVIOUS
  <2>1. d \in Decisions /\ decision[d].words # <<>> /\ decision[d].words \in Seq(Word)
    BY DEF Made, ShapeInv, TypeOK, Decision
  <2>2. Len(decision[d].words) \in Nat /\ Len(decision[d].words) # 0
    BY <2>1
  <2>3. Waiting(d) \subseteq In(d) /\ Argued(d) \subseteq In(d)
    BY DEF Waiting, Argued
  <2>4. \A r \in In(d) : row[r].in # None
    BY <2>1, ConstantFacts DEF In
  <2> QED
    BY <2>1, <2>2, <2>3, <2>4
<1>2. CASE \E d \in Made : TookOf(t, d)
  <2>1. PICK d \in Made : TookOf(t, d)
    BY <1>2
  <2>2. Quotes(u)
    <3>1. u.act \in {"approve", "split"} => u.over = {d} /\ u.rev = Len(decision[d].words)
      BY <2>1 DEF TookOf, Same
    <3>2. d \in Decisions /\ Len(decision[d].words) \in 1 .. Len(decision[d].words)
      BY <1>1
    <3> QED
      BY <3>1, <3>2 DEF Quotes
  <2>3. Holds(u)
    <3>1. u.ids \subseteq In(d) /\ u.aside \subseteq In(d) /\ u.over = {d}
      <4>1. Waiting(d) \subseteq In(d) /\ Argued(d) \subseteq In(d)
        BY <1>1
      <4> QED
        BY <2>1, <4>1 DEF TookOf, Same
    <3>2. u.act \in {"reaffirm", "approve", "revise"} => u.by \in People
      BY <2>1 DEF TookOf, Same
    <3>3. \A r \in In(d) : row[r].in # None
      BY <1>1
    <3> QED
      BY <3>1, <3>2, <3>3 DEF Holds
  <2> QED
    BY <2>2, <2>3
<1>3. CASE ~ \E d \in Made : TookOf(t, d)
  BY <1>3 DEF Took, Quotes, Holds, Same
<1> QED
  BY <1>2, <1>3

LEMMA BeginsShape == ASSUME ShapeInv, NEW s \in Sessions, Begins(s) PROVE ShapeInv'
<1>1. PICK t \in Txn : Took(t) /\ Begin(s, t)
  BY BeginsTook
<1>2. PICK u \in Txn : txn' = [txn EXCEPT ![s] = u] /\ Same(u, t)
  BY <1>1, BeginEffect
<1>3. UNCHANGED <<engine, decision, row, agreement, incident, code>>
  BY <1>1 DEF Begin
<1>4. Quotes(u) /\ Holds(u)
  BY <1>1, <1>2, TookShape
<1>5. TypeOK'
  BY <1>2, <1>3 DEF ShapeInv, TypeOK
<1>6. ASSUME NEW q \in Sessions
      PROVE  Quotes(txn[q])' /\ Holds(txn[q])'
  <2>1. txn'[q] = u \/ txn'[q] = txn[q]
    BY <1>2 DEF ShapeInv, TypeOK
  <2> QED
    BY <2>1, <1>3, <1>4 DEF Quotes, Holds, ShapeInv, Made
<1> QED
  BY <1>3, <1>5, <1>6 DEF ShapeInv, Authored

\* What the other acts do to the rows' decisions.
LEMMA ReturnedStay ==
    ASSUME ShapeInv, NEW ds, NEW left,
           row' = ToWaiting(ds, left)
    PROVE  RowsStay
<1> SUFFICES ASSUME NEW r \in Rows
             PROVE  /\ row[r].in # None => row'[r].in # None
                    /\ row'[r].state # "absent" => row'[r].in # None
  BY DEF RowsStay
<1>1. row[r] \in Row /\ (row[r].state # "absent" => row[r].in # None)
  BY DEF ShapeInv, TypeOK
<1> QED
  BY <1>1 DEF ToWaiting, Row

LEMMA FinishedStay ==
    ASSUME ShapeInv, NEW rs, NEW state, \A r \in rs : row[r].in # None,
           row' = Finished(rs, state)
    PROVE  RowsStay
<1> SUFFICES ASSUME NEW r \in Rows
             PROVE  /\ row[r].in # None => row'[r].in # None
                    /\ row'[r].state # "absent" => row'[r].in # None
  BY DEF RowsStay
<1>1. row[r] \in Row /\ (row[r].state # "absent" => row[r].in # None)
  BY DEF ShapeInv, TypeOK
<1> QED
  BY <1>1 DEF Finished, Row

LEMMA RevivedStay ==
    ASSUME ShapeInv, NEW ids, \A r \in ids : row[r].in # None,
           row' = Revived(ids)
    PROVE  RowsStay
<1> SUFFICES ASSUME NEW r \in Rows
             PROVE  /\ row[r].in # None => row'[r].in # None
                    /\ row'[r].state # "absent" => row'[r].in # None
  BY DEF RowsStay
<1>1. row[r] \in Row /\ (row[r].state # "absent" => row[r].in # None)
  BY DEF ShapeInv, TypeOK
<1> QED
  BY <1>1 DEF Revived, Row

LEMMA MovedStay ==
    ASSUME ShapeInv, NEW ids, NEW e, NEW aside, \A r \in ids : row[r].in # None,
           aside # {} => e # None,
           row' = Moved(ids, e, aside)
    PROVE  RowsStay
<1> SUFFICES ASSUME NEW r \in Rows
             PROVE  /\ row[r].in # None => row'[r].in # None
                    /\ row'[r].state # "absent" => row'[r].in # None
  BY DEF RowsStay
<1>1. row[r] \in Row /\ (row[r].state # "absent" => row[r].in # None)
  BY DEF ShapeInv, TypeOK
<1> QED
  BY <1>1 DEF Moved, Row

LEMMA SameStay == ASSUME ShapeInv, row' = row PROVE RowsStay
BY DEF RowsStay, ShapeInv

LEMMA WritesStay ==
    ASSUME ShapeInv, NEW d \in Decisions, NEW ps, NEW state \in Live,
           row' = [r \in Rows |-> IF r[1] = d /\ r[2] \in ps THEN Written(d, state) ELSE row[r]]
    PROVE  RowsStay /\ row' \in [Rows -> Row]
<1>1. Written(d, state) \in Row /\ Written(d, state).in = d
  BY WrittenIsARow DEF ShapeInv, Written
<1> QED
  BY <1>1, ConstantFacts DEF RowsStay, ShapeInv, TypeOK

\* Setting rows aside: the words exist, and their decision is new.
LEMMA SetsAsideShape ==
    ASSUME ShapeInv, NEW s \in Sessions, NEW d \in Decisions, NEW e \in Decisions \cup {None},
           NEW act \in {"approve", "split"}, Ready(s, act, d), SetsAside(d, e, txn[s])
    PROVE  /\ decision' \in [Decisions -> Decision]
           /\ Longer
           /\ Authored'
           /\ txn[s].aside # {} => e \in Decisions
           /\ txn[s].rev \in 1 .. Len(decision[d].words)
           /\ d \in Made
<1>1. txn[s].rev \in 1 .. Len(decision[d].words)
  BY DEF ShapeInv, Quotes, Ready
<1>2. decision[d] \in Decision /\ decision \in [Decisions -> Decision]
  BY DEF ShapeInv, TypeOK
<1>3. d \in Made
  <2>1. Len(decision[d].words) # 0
    BY <1>1, <1>2 DEF Decision
  <2> QED
    BY <2>1, <1>2 DEF Made, Decision
<1>4. decision[d].by \in People
  BY <1>3 DEF ShapeInv, Authored, Made
<1>5. CASE txn[s].aside = {}
  <2>1. decision' = decision
    BY <1>5 DEF SetsAside
  <2> QED
    BY <2>1, <1>1, <1>2, <1>3, <1>5, SameWords
<1>6. CASE txn[s].aside # {}
  <2>1. e \in Decisions /\ Fresh(e) /\ Says(e, decision[d].by, decision[d].words[txn[s].rev].from)
    BY <1>6 DEF SetsAside
  <2> DEFINE w == decision[d].words[txn[s].rev]
  <2>0. decision[d].words \in Seq(Word)
    BY <1>2 DEF Decision
  <2>2. w.from \in People
    <3>1. w \in Word
      BY <1>1, <2>0
    <3> QED
      BY <3>1 DEF Word
  <2>3. e \notin Made
    BY <2>1 DEF Fresh
  <2>4. /\ decision' \in [Decisions -> Decision]
        /\ \A x \in Decisions \ {e} : decision'[x] = decision[x]
        /\ decision'[e].by = decision[d].by
        /\ Longer
    <3>1. TypeOK
      BY DEF ShapeInv
    <3> DEFINE p == decision[d].by
               f == w.from
    <3>2. Says(e, p, f)
      BY <2>1
    <3>3. p \in People /\ f \in People /\ e \in Decisions
      BY <1>4, <2>1, <2>2
    <3> HIDE DEF w, f, p
    <3>4. /\ decision' \in [Decisions -> Decision]
          /\ \A x \in Decisions \ {e} : decision'[x] = decision[x]
          /\ decision'[e] = [by |-> p, words |-> <<[by |-> p, from |-> f]>>]
          /\ Longer
      BY <3>1, <3>2, <3>3, <2>3, SaysWrites
    <3> QED
      BY <3>4 DEF p
  <2>5. Authored'
    BY <2>4, <1>4 DEF Authored, ShapeInv
  <2> QED
    BY <2>1, <2>4, <2>5, <1>1, <1>3
<1> QED
  BY <1>5, <1>6

LEMMA ProposeShape == ASSUME ShapeInv, NEW p \in People, Propose(p) PROVE ShapeInv'
<1>1. PICK d \in Decisions, ps \in SUBSET Places \ {{}} :
        /\ Fresh(d)
        /\ Says(d, p, p)
        /\ row' = [r \in Rows |-> IF r[1] = d /\ r[2] \in ps THEN Written(d, "proposed") ELSE row[r]]
        /\ UNCHANGED <<engine, agreement, incident, code, txn>>
  BY DEF Propose
<1>2. /\ decision' \in [Decisions -> Decision]
      /\ \A e \in Decisions \ {d} : decision'[e] = decision[e]
      /\ decision'[d] = [by |-> p, words |-> <<[by |-> p, from |-> p]>>]
      /\ Longer
  <2>1. TypeOK /\ d \notin Made
    BY <1>1 DEF ShapeInv, Fresh
  <2>2. Says(d, p, p)
    BY <1>1
  <2> QED
    BY <2>1, <2>2, SaysWrites
<1>3. "proposed" \in Live
  BY DEF Live
<1>4. RowsStay /\ row' \in [Rows -> Row]
  BY <1>1, <1>3, WritesStay
<1>5. TypeOK'
  BY <1>1, <1>2, <1>4 DEF ShapeInv, TypeOK
<1>6. Authored'
  BY <1>2 DEF Authored, ShapeInv
<1>7. Kept
  BY <1>1 DEF Kept
<1> QED
  BY <1>2, <1>4, <1>5, <1>6, <1>7, ShapeKept

LEMMA ReaffirmShape == ASSUME ShapeInv, NEW s \in Sessions, Reaffirm(s) PROVE ShapeInv'
<1>1. PICK d \in Decisions, e \in Decisions, r \in Rows :
        /\ Ready(s, "reaffirm", d)
        /\ txn[s].ids = {r}
        /\ Fresh(e)
        /\ Says(e, txn[s].by, txn[s].by)
        /\ \/ /\ row' = [row EXCEPT ![<<e, r[2]>>] = Written(e, "proposed")]
              /\ UNCHANGED agreement
           \/ \E p \in txn[s].carry :
                 /\ row' = [row EXCEPT ![<<e, r[2]>>] = Written(e, "approved")]
                 /\ agreement' = agreement \cup {[on |-> e, rev |-> 1, by |-> p, carried |-> d]}
        /\ txn' = [txn EXCEPT ![s] = Idle]
        /\ UNCHANGED <<engine, incident, code>>
  BY DEF Reaffirm
<1>0. TypeOK /\ txn[s] \in Txn
  BY DEF ShapeInv, TypeOK
<1>2. Kept /\ txn' \in [Sessions -> Txn]
  BY <1>0, <1>1, EndedKeeps
<1>3. txn[s].by \in People
  BY <1>1 DEF ShapeInv, Holds, Ready
<1> QED
  <2>1. /\ decision' \in [Decisions -> Decision]
        /\ \A x \in Decisions \ {e} : decision'[x] = decision[x]
        /\ decision'[e].by = txn[s].by
        /\ Longer
    <3> DEFINE p == txn[s].by
    <3>1. e \notin Made /\ Says(e, p, p) /\ p \in People
      BY <1>1, <1>3 DEF Fresh
    <3> HIDE DEF p
    <3>2. /\ decision' \in [Decisions -> Decision]
          /\ \A x \in Decisions \ {e} : decision'[x] = decision[x]
          /\ decision'[e] = [by |-> p, words |-> <<[by |-> p, from |-> p]>>]
          /\ Longer
      BY <1>0, <3>1, SaysWrites
    <3> QED
      BY <3>2 DEF p
  <2>2. PICK state \in Live : row' = [row EXCEPT ![<<e, r[2]>>] = Written(e, state)]
    BY <1>1 DEF Live
  <2>3. Written(e, state) \in Row /\ Written(e, state).in = e
    BY <1>0, WrittenIsARow DEF Written
  <2>4. row' \in [Rows -> Row]
    BY <2>2, <2>3, <1>0 DEF TypeOK
  <2>5. RowsStay
    BY <2>2, <2>3, ConstantFacts DEF RowsStay, ShapeInv, TypeOK
  <2>6. agreement' \in SUBSET Agreement
    <3>1. txn[s].carry \subseteq People
      BY <1>0 DEF Txn
    <3>2. \A p \in txn[s].carry : [on |-> e, rev |-> 1, by |-> p, carried |-> d] \in Agreement
      BY <3>1 DEF Agreement
    <3> QED
      BY <3>2, <1>0, <1>1 DEF TypeOK
  <2>7. TypeOK'
    BY <1>0, <1>1, <1>2, <2>1, <2>4, <2>6 DEF TypeOK
  <2>8. Authored'
    BY <1>3, <2>1 DEF Authored, ShapeInv
  <2> QED
    BY <1>2, <2>1, <2>5, <2>7, <2>8, ShapeKept

LEMMA ApproveShape == ASSUME ShapeInv, NEW s \in Sessions, ApproveDecision(s) PROVE ShapeInv'
<1>1. PICK d \in Decisions, e \in Decisions \cup {None} :
        /\ Ready(s, "approve", d)
        /\ SetsAside(d, e, txn[s])
        /\ row' = Moved(txn[s].ids, e, txn[s].aside)
        /\ \/ UNCHANGED agreement
           \/ agreement' = agreement \cup
                 {[on |-> d, rev |-> txn[s].rev, by |-> txn[s].by, carried |-> None]}
        /\ Restamped(s, {d})
        /\ UNCHANGED <<engine, incident, code>>
  BY DEF ApproveDecision
<1>2. TypeOK /\ txn[s] \in Txn
  BY DEF ShapeInv, TypeOK
<1>3. Kept /\ txn' \in [Sessions -> Txn]
  BY <1>1, <1>2, RestampedKeeps
<1>4. /\ decision' \in [Decisions -> Decision]
      /\ Longer
      /\ Authored'
      /\ txn[s].aside # {} => e \in Decisions
  BY <1>1, SetsAsideShape
<1>5. row' \in [Rows -> Row]
  BY <1>1, <1>2, RowsMoved
<1>6. RowsStay
  <2>1. \A r \in txn[s].ids : row[r].in # None
    BY DEF ShapeInv, Holds
  <2> QED
    BY <1>1, <1>4, <2>1, MovedStay, ConstantFacts
<1>7. agreement' \in SUBSET Agreement
  <2>1. txn[s].by \in People /\ txn[s].rev \in Nat
    BY <1>1, <1>2 DEF ShapeInv, Holds, Ready, Txn
  <2> QED
    BY <2>1, <1>1, <1>2 DEF TypeOK, Agreement
<1>8. TypeOK'
  BY <1>1, <1>2, <1>3, <1>4, <1>5, <1>7 DEF TypeOK
<1> QED
  BY <1>3, <1>4, <1>6, <1>8, ShapeKept

LEMMA SplitShape == ASSUME ShapeInv, NEW s \in Sessions, Split(s) PROVE ShapeInv'
<1>1. PICK d \in Decisions, e \in Decisions :
        /\ Ready(s, "split", d)
        /\ SetsAside(d, e, txn[s])
        /\ row' = Moved({}, e, txn[s].aside)
        /\ Restamped(s, {d})
        /\ UNCHANGED <<engine, agreement, incident, code>>
  BY DEF Split
<1>2. TypeOK
  BY DEF ShapeInv
<1>3. Kept /\ txn' \in [Sessions -> Txn]
  BY <1>1, <1>2, RestampedKeeps
<1>4. decision' \in [Decisions -> Decision] /\ Longer /\ Authored'
  BY <1>1, SetsAsideShape
<1>5. row' \in [Rows -> Row]
  BY <1>1, <1>2, RowsMoved
<1>6. RowsStay
  BY <1>1, MovedStay, ConstantFacts
<1>7. TypeOK'
  BY <1>1, <1>2, <1>3, <1>4, <1>5 DEF TypeOK
<1> QED
  BY <1>3, <1>4, <1>6, <1>7, ShapeKept

LEMMA SendBackShape == ASSUME ShapeInv, NEW s \in Sessions, SendBackDecision(s) PROVE ShapeInv'
<1>1. PICK d \in Decisions :
        /\ row' = [r \in Rows |-> IF r \in txn[s].ids THEN [row[r] EXCEPT !.back = TRUE] ELSE row[r]]
        /\ Restamped(s, {d})
        /\ UNCHANGED <<engine, decision, agreement, incident, code>>
  BY DEF SendBackDecision
<1>2. TypeOK /\ row \in [Rows -> Row]
  BY DEF ShapeInv, TypeOK
<1>3. Kept /\ txn' \in [Sessions -> Txn]
  BY <1>1, <1>2, RestampedKeeps
<1>4. row' \in [Rows -> Row] /\ RowsStay
  <2>1. ASSUME NEW r \in Rows
        PROVE  /\ [row[r] EXCEPT !.back = TRUE] \in Row
               /\ [row[r] EXCEPT !.back = TRUE].in = row[r].in
               /\ [row[r] EXCEPT !.back = TRUE].state = row[r].state
    BY <1>2 DEF Row
  <2>2. row' \in [Rows -> Row]
    BY <1>1, <1>2, <2>1
  <2>3. \A r \in Rows : row'[r].in = row[r].in /\ row'[r].state = row[r].state
    BY <1>1, <2>1
  <2> QED
    BY <2>2, <2>3 DEF RowsStay, ShapeInv
<1>5. TypeOK'
  BY <1>1, <1>2, <1>3, <1>4 DEF TypeOK
<1> QED
  BY <1>1, <1>3, <1>4, <1>5, SameWords, ShapeKept

LEMMA ReviseShape == ASSUME ShapeInv, NEW s \in Sessions, Revise(s) PROVE ShapeInv'
<1>1. PICK d \in Decisions :
        /\ Ready(s, "revise", d)
        /\ decision' = [decision EXCEPT ![d].words = Append(@, [by |-> txn[s].by, from |-> txn[s].by])]
        /\ agreement' = agreement \ Standing(d)
        /\ row' = Revived(txn[s].ids)
        /\ Restamped(s, {d})
        /\ UNCHANGED <<engine, incident, code>>
  BY DEF Revise
<1>2. TypeOK
  BY DEF ShapeInv
<1>3. Kept /\ txn' \in [Sessions -> Txn]
  BY <1>1, <1>2, RestampedKeeps
<1>4. txn[s].by \in People /\ \A r \in txn[s].ids : row[r].in # None
  BY <1>1 DEF ShapeInv, Holds, Ready
<1> DEFINE w == [by |-> txn[s].by, from |-> txn[s].by]
<1>5. w \in Word
  BY <1>4 DEF Word
<1>6. decision \in [Decisions -> Decision] /\ decision[d].words \in Seq(Word)
  BY <1>2 DEF TypeOK, Decision
<1>7. decision' = [decision EXCEPT ![d].words = Append(decision[d].words, w)]
  BY <1>1
<1> HIDE DEF w
<1>8. /\ Append(decision[d].words, w) \in Seq(Word)
      /\ Len(Append(decision[d].words, w)) = Len(decision[d].words) + 1
  BY <1>5, <1>6
<1>9. /\ decision' \in [Decisions -> Decision]
      /\ \A e \in Decisions \ {d} : decision'[e] = decision[e]
      /\ decision'[d].words = Append(decision[d].words, w)
      /\ decision'[d].by = decision[d].by
  BY <1>6, <1>7, <1>8 DEF Decision
<1>10. Longer
  <2>1. \A e \in Decisions : Len(decision[e].words) \in Nat
    BY <1>6 DEF Decision
  <2> QED
    BY <2>1, <1>8, <1>9 DEF Longer
<1>11. Authored'
  <2>1. d \in Made
    BY <1>1 DEF ShapeInv, Ready, Holds
  <2> QED
    BY <2>1, <1>9 DEF ShapeInv, Authored, Made
<1>12. row' \in [Rows -> Row] /\ RowsStay
  BY <1>1, <1>2, <1>4, RowsRevived, RevivedStay
<1>13. TypeOK'
  BY <1>1, <1>2, <1>3, <1>9, <1>12 DEF TypeOK
<1> QED
  BY <1>3, <1>10, <1>11, <1>12, <1>13, ShapeKept

LEMMA WithdrawShape == ASSUME ShapeInv, NEW s \in Sessions, Withdraw(s) PROVE ShapeInv'
<1>1. PICK d \in Decisions :
        /\ agreement' = agreement \ Standing(d)
        /\ row' = Finished({r \in In(d) : row[r].state \in Live}, "withdrawn")
        /\ Restamped(s, {d})
        /\ UNCHANGED <<engine, decision, incident, code>>
  BY DEF Withdraw
<1>2. TypeOK
  BY DEF ShapeInv
<1>3. Kept /\ txn' \in [Sessions -> Txn]
  BY <1>1, <1>2, RestampedKeeps
<1>4. row' \in [Rows -> Row]
  BY <1>1, <1>2, RowsFinished DEF Ended
<1>5. RowsStay
  <2>1. \A r \in {r \in In(d) : row[r].state \in Live} : row[r].in # None
    BY ConstantFacts DEF In
  <2> QED
    BY <1>1, <2>1, FinishedStay
<1>6. TypeOK'
  BY <1>1, <1>2, <1>3, <1>4 DEF TypeOK
<1> QED
  BY <1>1, <1>3, <1>5, <1>6, SameWords, ShapeKept

LEMMA UndoShape == ASSUME ShapeInv, NEW s \in Sessions, UndoBatch(s) PROVE ShapeInv'
<1>1. /\ agreement' \subseteq agreement
      /\ row' = ToWaiting(txn[s].over, agreement')
      /\ Restamped(s, txn[s].over)
      /\ UNCHANGED <<engine, decision, incident, code>>
  BY DEF UndoBatch
<1>2. TypeOK
  BY DEF ShapeInv
<1>3. Kept /\ txn' \in [Sessions -> Txn]
  BY <1>1, <1>2, RestampedKeeps
<1>4. row' \in [Rows -> Row] /\ RowsStay
  BY <1>1, <1>2, RowsReturned, ReturnedStay
<1>5. TypeOK'
  BY <1>1, <1>2, <1>3, <1>4 DEF TypeOK
<1> QED
  BY <1>1, <1>3, <1>4, <1>5, SameWords, ShapeKept

LEMMA IncidentShape == ASSUME ShapeInv, NEW s \in Sessions, RecordIncident(s) PROVE ShapeInv'
<1>1. /\ incident' = TRUE
      /\ agreement' \subseteq agreement
      /\ row' = ToWaiting(txn[s].over, agreement')
      /\ txn' = [txn EXCEPT ![s] = Idle]
      /\ UNCHANGED <<engine, decision, code>>
  BY DEF RecordIncident
<1>2. TypeOK
  BY DEF ShapeInv
<1>3. Kept /\ txn' \in [Sessions -> Txn]
  BY <1>1, <1>2, EndedKeeps
<1>4. row' \in [Rows -> Row] /\ RowsStay
  BY <1>1, <1>2, RowsReturned, ReturnedStay
<1>5. TypeOK'
  BY <1>1, <1>2, <1>3, <1>4 DEF TypeOK
<1> QED
  BY <1>1, <1>3, <1>4, <1>5, SameWords, ShapeKept

\* What the world does to the tables: no transaction is touched.
World == MoveCode \/ Lapse \/ ClearIncident

LEMMA WorldShape == ASSUME ShapeInv, World PROVE ShapeInv'
<1>1. TypeOK
  BY DEF ShapeInv
<1>2. /\ UNCHANGED <<engine, decision, agreement, txn>>
      /\ code' \in Versions
      /\ incident' \in BOOLEAN
  <2>1. CASE MoveCode
    <3>1. code \in 1 .. MaxVersion /\ code < MaxVersion /\ MaxVersion \in Nat
      BY <1>1, <2>1 DEF MoveCode, TypeOK, Versions
    <3>2. code + 1 \in 1 .. MaxVersion
      BY <3>1
    <3> QED
      BY <1>1, <2>1, <3>2 DEF MoveCode, TypeOK, Versions
  <2>2. CASE Lapse
    BY <1>1, <2>2 DEF Lapse, TypeOK
  <2>3. CASE ClearIncident
    BY <1>1, <2>3 DEF ClearIncident, TypeOK
  <2> QED
    BY <2>1, <2>2, <2>3 DEF World
<1>3. row' \in [Rows -> Row] /\ RowsStay
  <2>1. CASE Lapse
    <3>1. PICK rs \in SUBSET {r \in Rows : row[r].state \in Live /\ row[r].at # code} :
            row' = Finished(rs, "lapsed")
      BY <2>1 DEF Lapse
    <3>2. \A r \in rs : row[r].in # None
      BY DEF ShapeInv, Live
    <3> QED
      BY <1>1, <3>1, <3>2, RowsFinished, FinishedStay DEF Ended
  <2>2. CASE row' = row
    BY <1>1, <2>2, SameStay DEF TypeOK
  <2> QED
    BY <2>1, <2>2 DEF World, MoveCode, ClearIncident
<1>4. TypeOK'
  BY <1>1, <1>2, <1>3 DEF TypeOK
<1>5. Kept
  BY <1>2 DEF Kept
<1> QED
  BY <1>2, <1>3, <1>4, <1>5, SameWords, ShapeKept

LEMMA RollbackShape == ASSUME ShapeInv, NEW s \in Sessions, Rollback(s) PROVE ShapeInv'
<1>1. /\ txn' = [txn EXCEPT ![s] = Idle]
      /\ UNCHANGED <<engine, decision, row, agreement, incident, code>>
  BY DEF Rollback
<1>2. TypeOK
  BY DEF ShapeInv
<1>3. Kept /\ txn' \in [Sessions -> Txn]
  BY <1>1, <1>2, EndedKeeps
<1>4. TypeOK'
  BY <1>1, <1>2, <1>3 DEF TypeOK
<1> QED
  BY <1>1, <1>3, <1>4, SameWords, SameStay, ShapeKept

LEMMA ReadStampShape == ASSUME ShapeInv, NEW s \in Sessions, ReadStamp(s) PROVE ShapeInv'
<1> DEFINE t == txn[s]
           u == Looked(t)
<1>1. /\ t.pc = "rows"
      /\ txn' = [txn EXCEPT ![s] = u]
      /\ UNCHANGED <<engine, decision, row, agreement, incident, code>>
  BY DEF ReadStamp
<1>2. TypeOK /\ t \in Txn /\ Quotes(t) /\ Holds(t)
  BY DEF ShapeInv, TypeOK
<1>3. u \in Txn /\ Same(u, t)
  BY <1>2, LookedSame
<1> HIDE DEF u, t
<1>4. TypeOK'
  BY <1>1, <1>2, <1>3 DEF TypeOK
<1>5. Quotes(u) /\ Holds(u)
  BY <1>1, <1>2, <1>3 DEF Quotes, Holds, Same
<1>6. ASSUME NEW q \in Sessions
      PROVE  Quotes(txn[q])' /\ Holds(txn[q])'
  <2>1. txn'[q] = u \/ txn'[q] = txn[q]
    BY <1>1, <1>2 DEF TypeOK
  <2> QED
    BY <2>1, <1>1, <1>5 DEF Quotes, Holds, ShapeInv, Made
<1> QED
  BY <1>1, <1>4, <1>6 DEF ShapeInv, Authored

\* Every step, by the kind of transaction it is.
Commits(s) ==
    \/ Reaffirm(s) \/ ApproveDecision(s) \/ Split(s) \/ SendBackDecision(s)
    \/ Revise(s) \/ Withdraw(s) \/ UndoBatch(s) \/ RecordIncident(s)

LEMMA StepKinds ==
    ASSUME Next
    PROVE  \/ \E p \in People : Propose(p)
           \/ \E s \in Sessions : Begins(s) \/ Commits(s) \/ ReadStamp(s) \/ Rollback(s)
           \/ World
BY DEF Next, Begins, Commits, World

LEMMA ShapeStep == ShapeInv /\ [Next]_vars => ShapeInv'
<1> SUFFICES ASSUME ShapeInv, [Next]_vars
             PROVE  ShapeInv'
  OBVIOUS
<1>1. CASE \E p \in People : Propose(p)
  BY <1>1, ProposeShape
<1>2. ASSUME NEW s \in Sessions, Begins(s) \/ Commits(s) \/ ReadStamp(s) \/ Rollback(s)
      PROVE  ShapeInv'
  <2>1. CASE Commits(s)
    BY <2>1, ReaffirmShape, ApproveShape, SplitShape, SendBackShape, ReviseShape,
       WithdrawShape, UndoShape, IncidentShape DEF Commits
  <2> QED
    BY <1>2, <2>1, BeginsShape, ReadStampShape, RollbackShape
<1>3. CASE World
  BY <1>3, WorldShape
<1>4. CASE UNCHANGED vars
  BY <1>4 DEF vars, ShapeInv, TypeOK, Authored, Quotes, Holds, Made
<1> QED
  BY <1>1, <1>2, <1>3, <1>4, StepKinds

\* Every table and every transaction keeps its shape, for any number of people,
\* occurrences, transactions at once, decisions and revisions.
THEOREM TypeCorrect == Spec => []TypeOK
<1>1. ShapeInv => TypeOK
  BY DEF ShapeInv
<1> QED
  BY <1>1, ShapeInit, ShapeStep, PTL DEF Spec

----------------------------------------------------------------------------
(* One answer at a place.  The live key is held by the rows that stand, and *)
(* by one row a key; rows enter only a decision that is new, so a decision  *)
(* covers a place once, and a revision takes no key twice.                  *)

Keyed == \A r \in Rows : row[r].live <=> row[r].state \in Live

OneKey ==
    \A r, q \in Rows :
        row[r].live /\ row[q].live /\ r[2] = q[2] /\ row[r].at = row[q].at => r = q

OnePlace ==
    \A r, q \in Rows : row[r].in # None /\ row[r].in = row[q].in /\ r[2] = q[2] => r = q

InMade == \A r \in Rows : row[r].in # None => row[r].in \in Made

Unwritten == \A r \in Rows : r[1] \notin Made => row[r] = Absent

Apart(ids) == \A r, q \in ids : r[2] = q[2] => r = q

KeyInv ==
    /\ ShapeInv
    /\ Keyed /\ OneKey /\ OnePlace /\ InMade /\ Unwritten
    /\ \A s \in Sessions : Apart(txn[s].ids)

RowsInv == Keyed /\ OneKey /\ OnePlace /\ InMade /\ Unwritten

\* A row is its decision's at its place, once.
LEMMA RowIs == ASSUME NEW r \in Rows PROVE r = <<r[1], r[2]>> /\ r[1] \in Decisions /\ r[2] \in Places
BY DEF Rows

\* A new decision's rows, at places where no key is held.
LEMMA WritingKeys ==
    ASSUME KeyInv, NEW d \in Decisions, NEW ps, NEW state \in Live,
           d \notin Made, \A pl \in ps : ~Taken(pl, code, {}),
           row' = [r \in Rows |-> IF r[1] = d /\ r[2] \in ps THEN Written(d, state) ELSE row[r]],
           Made' = Made \cup {d}
    PROVE  RowsInv'
<1> DEFINE New(r) == r[1] = d /\ r[2] \in ps
<1>1. /\ \A r \in Rows : New(r) => row'[r] = Written(d, state)
      /\ \A r \in Rows : ~New(r) => row'[r] = row[r]
  OBVIOUS
<1>2. \A r, q \in Rows : New(r) /\ New(q) /\ r[2] = q[2] => r = q
  BY RowIs
<1>3. \A r, q \in Rows : New(r) /\ row[q].live /\ q[2] = r[2] => row[q].at # code
  BY DEF Taken, SameKey
<1>4. d # None
  BY ConstantFacts
<1> HIDE DEF New
<1>0. \A r \in Rows : New(r) => /\ row'[r].state \in Live /\ row'[r].in = d
                               /\ row'[r].at = code /\ row'[r].live = TRUE
  <2>1. /\ Written(d, state).state = state /\ Written(d, state).in = d
        /\ Written(d, state).at = code /\ Written(d, state).live = TRUE
    BY DEF Written
  <2> QED
    BY <1>1, <2>1
<1>5. Keyed'
  <2> SUFFICES ASSUME NEW r \in Rows
               PROVE  row'[r].live <=> row'[r].state \in Live
    BY DEF Keyed
  <2>1. row[r].live <=> row[r].state \in Live
    BY DEF KeyInv, Keyed
  <2> QED
    BY <1>0, <1>1, <2>1
<1>6. OneKey'
  <2> SUFFICES ASSUME NEW r \in Rows, NEW q \in Rows, row'[r].live, row'[q].live,
                      r[2] = q[2], row'[r].at = row'[q].at
               PROVE  r = q
    BY DEF OneKey
  <2>1. CASE New(r) /\ New(q)
    BY <2>1, <1>2
  <2>2. CASE New(r) /\ ~New(q)
    BY <2>2, <1>0, <1>1, <1>3
  <2>3. CASE ~New(r) /\ New(q)
    BY <2>3, <1>0, <1>1, <1>3
  <2>4. CASE ~New(r) /\ ~New(q)
    <3>1. row[r].live /\ row[q].live /\ row[r].at = row[q].at
      BY <2>4, <1>1
    <3> QED
      BY <3>1 DEF KeyInv, OneKey
  <2> QED
    BY <2>1, <2>2, <2>3, <2>4
<1>7. OnePlace'
  <2> SUFFICES ASSUME NEW r \in Rows, NEW q \in Rows, row'[r].in # None,
                      row'[r].in = row'[q].in, r[2] = q[2]
               PROVE  r = q
    BY DEF OnePlace
  <2>0. (row[r].in # None => row[r].in # d) /\ (row[q].in # None => row[q].in # d)
    BY DEF KeyInv, InMade
  <2>1. CASE New(r) /\ New(q)
    BY <2>1, <1>2
  <2>2. CASE New(r) /\ ~New(q)
    BY <2>2, <2>0, <1>0, <1>1, <1>4
  <2>3. CASE ~New(r) /\ New(q)
    BY <2>3, <2>0, <1>0, <1>1, <1>4
  <2>4. CASE ~New(r) /\ ~New(q)
    <3>1. row[r].in # None /\ row[r].in = row[q].in
      BY <2>4, <1>1
    <3> QED
      BY <3>1 DEF KeyInv, OnePlace
  <2> QED
    BY <2>1, <2>2, <2>3, <2>4
<1>8. InMade'
  <2> SUFFICES ASSUME NEW r \in Rows, row'[r].in # None
               PROVE  row'[r].in \in Made'
    BY DEF InMade
  <2>1. row[r].in # None => row[r].in \in Made
    BY DEF KeyInv, InMade
  <2> QED
    BY <2>1, <1>0, <1>1
<1>9. Unwritten'
  BY <1>1 DEF Unwritten, KeyInv, New
<1> QED
  BY <1>5, <1>6, <1>7, <1>8, <1>9 DEF RowsInv

\* Rows moved into a new decision, and rows agreed to.
LEMMA MovingKeys ==
    ASSUME KeyInv, NEW d \in Decisions, NEW e \in Decisions \cup {None}, NEW ids \in SUBSET Rows,
           NEW aside \in SUBSET In(d),
           \A r \in ids : row[r].state = "proposed",
           aside # {} => e \in Decisions \ Made /\ e \in Made',
           Made \subseteq Made',
           row' = Moved(ids, e, aside)
    PROVE  RowsInv'
<1>1. ASSUME NEW r \in Rows
      PROVE  /\ row'[r].at = row[r].at /\ row'[r].live = row[r].live
             /\ r \in aside => row'[r].in = e /\ row'[r].state = row[r].state
             /\ r \notin aside => row'[r].in = row[r].in
             /\ r \in ids \ aside => row'[r].state = "approved"
             /\ r \notin ids \cup aside => row'[r] = row[r]
  <2>1. row[r] \in Row
    BY DEF KeyInv, ShapeInv, TypeOK
  <2> QED
    BY <2>1 DEF Moved, Row
<1>2. aside \subseteq In(d) /\ \A r \in aside : r \in Rows /\ row[r].in = d
  BY DEF In
<1>3. \A r \in ids \cup aside : r[1] \in Made
  <2>1. \A r \in Rows : row[r] = Absent => row[r].state = "absent" /\ row[r].in = None
    BY DEF Absent
  <2> QED
    BY <1>2, <2>1, ConstantFacts DEF KeyInv, Unwritten
<1>4. Keyed'
  <2> SUFFICES ASSUME NEW r \in Rows
               PROVE  row'[r].live <=> row'[r].state \in Live
    BY DEF Keyed
  <2>1. row[r].live <=> row[r].state \in Live
    BY DEF KeyInv, Keyed
  <2>2. row'[r].live = row[r].live
    BY <1>1
  <2>3. row'[r].state = row[r].state \/ (row'[r].state = "approved" /\ row[r].state = "proposed")
    BY <1>1
  <2> QED
    BY <2>1, <2>2, <2>3 DEF Live
<1>5. OneKey'
  <2> SUFFICES ASSUME NEW r \in Rows, NEW q \in Rows, row'[r].live, row'[q].live,
                      r[2] = q[2], row'[r].at = row'[q].at
               PROVE  r = q
    BY DEF OneKey
  <2>1. row[r].live /\ row[q].live /\ row[r].at = row[q].at
    BY <1>1
  <2> QED
    BY <2>1 DEF KeyInv, OneKey
<1>6. OnePlace'
  <2> SUFFICES ASSUME NEW r \in Rows, NEW q \in Rows, row'[r].in # None,
                      row'[r].in = row'[q].in, r[2] = q[2]
               PROVE  r = q
    BY DEF OnePlace
  <2>0. /\ row[r].in # None => row[r].in \in Made
        /\ row[q].in # None => row[q].in \in Made
        /\ row[r].in # None /\ row[r].in = row[q].in => r = q
    BY DEF KeyInv, InMade, OnePlace
  <2>1. CASE r \in aside /\ q \in aside
    BY <2>0, <2>1, <1>2, ConstantFacts
  <2>2. CASE r \in aside /\ q \notin aside
    <3>1. row'[r].in = e /\ row'[q].in = row[q].in
      BY <2>2, <1>1
    <3> QED
      BY <2>0, <2>2, <3>1
  <2>3. CASE r \notin aside /\ q \in aside
    <3>1. row'[q].in = e /\ row'[r].in = row[r].in
      BY <2>3, <1>1
    <3> QED
      BY <2>0, <2>3, <3>1
  <2>4. CASE r \notin aside /\ q \notin aside
    <3>1. row'[r].in = row[r].in /\ row'[q].in = row[q].in
      BY <2>4, <1>1
    <3> QED
      BY <2>0, <3>1
  <2> QED
    BY <2>1, <2>2, <2>3, <2>4
<1>7. InMade'
  <2> SUFFICES ASSUME NEW r \in Rows, row'[r].in # None
               PROVE  row'[r].in \in Made'
    BY DEF InMade
  <2>1. row[r].in # None => row[r].in \in Made
    BY DEF KeyInv, InMade
  <2>2. CASE r \in aside
    BY <2>2, <1>1
  <2>3. CASE r \notin aside
    BY <2>1, <2>3, <1>1
  <2> QED
    BY <2>2, <2>3
<1>8. Unwritten'
  <2> SUFFICES ASSUME NEW r \in Rows, r[1] \notin Made'
               PROVE  row'[r] = Absent
    BY DEF Unwritten
  <2>1. r[1] \notin Made
    OBVIOUS
  <2>2. r \notin ids \cup aside /\ row[r] = Absent
    BY <2>1, <1>3 DEF KeyInv, Unwritten
  <2> QED
    BY <2>2, <1>1
<1> QED
  BY <1>4, <1>5, <1>6, <1>7, <1>8 DEF RowsInv

\* Rows that end, rows that stand again, rows that return to waiting.
LEMMA FinishingKeys ==
    ASSUME KeyInv, NEW rs \in SUBSET Rows, NEW state \in Ended, \A r \in rs : row[r].in # None,
           row' = Finished(rs, state), Made' = Made
    PROVE  RowsInv'
<1>1. ASSUME NEW r \in Rows
      PROVE  /\ row'[r].at = row[r].at /\ row'[r].in = row[r].in
             /\ r \in rs => row'[r].live = FALSE /\ row'[r].state = state
             /\ r \notin rs => row'[r] = row[r]
  <2>1. row[r] \in Row
    BY DEF KeyInv, ShapeInv, TypeOK
  <2> QED
    BY <2>1 DEF Finished, Row
<1>2. Keyed'
  <2> SUFFICES ASSUME NEW r \in Rows
               PROVE  row'[r].live <=> row'[r].state \in Live
    BY DEF Keyed
  <2>1. row[r].live <=> row[r].state \in Live
    BY DEF KeyInv, Keyed
  <2>2. state \notin Live
    BY DEF Live, Ended
  <2> QED
    BY <1>1, <2>1, <2>2
<1>3. OneKey'
  <2> SUFFICES ASSUME NEW r \in Rows, NEW q \in Rows, row'[r].live, row'[q].live,
                      r[2] = q[2], row'[r].at = row'[q].at
               PROVE  r = q
    BY DEF OneKey
  <2>1. row[r].live /\ row[q].live /\ row[r].at = row[q].at
    BY <1>1
  <2> QED
    BY <2>1 DEF KeyInv, OneKey
<1>4. OnePlace' /\ InMade'
  <2>1. \A r \in Rows : row'[r].in = row[r].in
    BY <1>1
  <2> QED
    BY <2>1 DEF KeyInv, OnePlace, InMade
<1>5. Unwritten'
  <2> SUFFICES ASSUME NEW r \in Rows, r[1] \notin Made
               PROVE  row'[r] = Absent
    BY DEF Unwritten
  <2>1. row[r] = Absent
    BY DEF KeyInv, Unwritten
  <2>2. r \notin rs
    BY <2>1 DEF Absent
  <2> QED
    BY <1>1, <2>1, <2>2
<1> QED
  BY <1>2, <1>3, <1>4, <1>5 DEF RowsInv

LEMMA RevivingKeys ==
    ASSUME KeyInv, NEW ids \in SUBSET Rows, \A r \in ids : row[r].in # None, Apart(ids),
           \A r \in ids : ~Taken(r[2], row[r].at, {r}),
           row' = Revived(ids), Made' = Made
    PROVE  RowsInv'
<1>1. ASSUME NEW r \in Rows
      PROVE  /\ row'[r].at = row[r].at /\ row'[r].in = row[r].in
             /\ r \in ids => row'[r].live = TRUE /\ row'[r].state = "proposed"
             /\ r \notin ids => row'[r] = row[r]
  <2>1. row[r] \in Row
    BY DEF KeyInv, ShapeInv, TypeOK
  <2> QED
    BY <2>1 DEF Revived, Row
<1>2. Keyed'
  <2> SUFFICES ASSUME NEW r \in Rows
               PROVE  row'[r].live <=> row'[r].state \in Live
    BY DEF Keyed
  <2>1. row[r].live <=> row[r].state \in Live
    BY DEF KeyInv, Keyed
  <2> QED
    BY <1>1, <2>1 DEF Live
<1>3. OneKey'
  <2> SUFFICES ASSUME NEW r \in Rows, NEW q \in Rows, row'[r].live, row'[q].live,
                      r[2] = q[2], row'[r].at = row'[q].at
               PROVE  r = q
    BY DEF OneKey
  <2>1. row[r].at = row[q].at
    BY <1>1
  <2>2. CASE r \in ids /\ q \in ids
    BY <2>2 DEF Apart
  <2>3. CASE r \in ids /\ q \notin ids
    <3>1. row[q].live
      BY <2>3, <1>1
    <3> QED
      BY <2>1, <2>3, <3>1 DEF Taken, SameKey
  <2>4. CASE r \notin ids /\ q \in ids
    <3>1. row[r].live
      BY <2>4, <1>1
    <3> QED
      BY <2>1, <2>4, <3>1 DEF Taken, SameKey
  <2>5. CASE r \notin ids /\ q \notin ids
    <3>1. row[r].live /\ row[q].live
      BY <2>5, <1>1
    <3> QED
      BY <2>1, <3>1 DEF KeyInv, OneKey
  <2> QED
    BY <2>2, <2>3, <2>4, <2>5
<1>4. OnePlace' /\ InMade'
  <2>1. \A r \in Rows : row'[r].in = row[r].in
    BY <1>1
  <2> QED
    BY <2>1 DEF KeyInv, OnePlace, InMade
<1>5. Unwritten'
  <2> SUFFICES ASSUME NEW r \in Rows, r[1] \notin Made
               PROVE  row'[r] = Absent
    BY DEF Unwritten
  <2>1. row[r] = Absent
    BY DEF KeyInv, Unwritten
  <2>2. r \notin ids
    BY <2>1 DEF Absent
  <2> QED
    BY <1>1, <2>1, <2>2
<1> QED
  BY <1>2, <1>3, <1>4, <1>5 DEF RowsInv

\* A step that leaves each row's key, decision and standing.
LEMMA KeepingKeys ==
    ASSUME KeyInv, Made' = Made,
           \A r \in Rows : /\ row'[r].at = row[r].at /\ row'[r].in = row[r].in
                           /\ row'[r].live = row[r].live
                           /\ row'[r].state \in Live <=> row[r].state \in Live
                           /\ row[r] = Absent => row'[r] = row[r]
    PROVE  RowsInv'
<1>1. Keyed'
  BY DEF Keyed, KeyInv
<1>2. OneKey'
  <2> SUFFICES ASSUME NEW r \in Rows, NEW q \in Rows, row'[r].live, row'[q].live,
                      r[2] = q[2], row'[r].at = row'[q].at
               PROVE  r = q
    BY DEF OneKey
  <2>1. row[r].live /\ row[q].live /\ row[r].at = row[q].at
    OBVIOUS
  <2> QED
    BY <2>1 DEF KeyInv, OneKey
<1>3. OnePlace' /\ InMade'
  BY DEF KeyInv, OnePlace, InMade
<1>4. Unwritten'
  BY DEF KeyInv, Unwritten
<1> QED
  BY <1>1, <1>2, <1>3, <1>4 DEF RowsInv

LEMMA ReturningKeys ==
    ASSUME KeyInv, NEW ds, NEW left, row' = ToWaiting(ds, left), Made' = Made
    PROVE  RowsInv'
<1>1. ASSUME NEW r \in Rows
      PROVE  /\ row'[r].at = row[r].at /\ row'[r].in = row[r].in
             /\ row'[r].live = row[r].live
             /\ row'[r].state \in Live <=> row[r].state \in Live
             /\ row[r] = Absent => row'[r] = row[r]
  <2>1. row[r] \in Row /\ (row[r] = Absent => row[r].state = "absent")
    BY DEF KeyInv, ShapeInv, TypeOK, Absent
  <2> QED
    BY <2>1 DEF ToWaiting, Row, Live
<1> QED
  BY <1>1, KeepingKeys

\* Which decisions are made.
LEMMA MadeSame == ASSUME decision' = decision PROVE Made' = Made
BY DEF Made

LEMMA MadeNew ==
    ASSUME TypeOK, NEW d \in Decisions, NEW by \in People, NEW from \in People,
           d \notin Made, Says(d, by, from)
    PROVE  Made' = Made \cup {d}
<1>1. /\ \A e \in Decisions \ {d} : decision'[e] = decision[e]
      /\ decision'[d].words # <<>>
  <2>1. /\ \A e \in Decisions \ {d} : decision'[e] = decision[e]
        /\ decision'[d] = [by |-> by, words |-> <<[by |-> by, from |-> from]>>]
    BY SaysWrites
  <2> QED
    BY <2>1
<1> QED
  BY <1>1 DEF Made

LEMMA AsideMade ==
    ASSUME ShapeInv, NEW s \in Sessions, NEW d \in Decisions, NEW e \in Decisions \cup {None},
           NEW act \in {"approve", "split"}, Ready(s, act, d), SetsAside(d, e, txn[s])
    PROVE  /\ txn[s].aside \subseteq In(d)
           /\ txn[s].aside = {} => decision' = decision /\ Made' = Made
           /\ txn[s].aside # {} => /\ e \in Decisions \ Made
                                  /\ Made' = Made \cup {e}
                                  /\ Says(e, decision[d].by, decision[d].words[txn[s].rev].from)
                                  /\ decision[d].by \in People
                                  /\ decision[d].words[txn[s].rev].from \in People
<1>1. txn[s].rev \in 1 .. Len(decision[d].words) /\ d \in Made
  BY SetsAsideShape
<1>2. decision[d].by \in People /\ TypeOK /\ decision[d].words \in Seq(Word)
  BY <1>1 DEF ShapeInv, Authored, Made, TypeOK, Decision
<1> DEFINE p == decision[d].by
           f == decision[d].words[txn[s].rev].from
<1>3. p \in People /\ f \in People
  <2>1. decision[d].words[txn[s].rev] \in Word
    BY <1>1, <1>2
  <2> QED
    BY <1>2, <2>1 DEF Word
<1>4. txn[s].aside \subseteq In(d)
  BY DEF SetsAside, Argued
<1>5. CASE txn[s].aside = {}
  <2>1. decision' = decision
    BY <1>5 DEF SetsAside
  <2> QED
    BY <1>4, <1>5, <2>1 DEF Made
<1>6. CASE txn[s].aside # {}
  <2>1. e \in Decisions /\ e \notin Made /\ Says(e, p, f)
    BY <1>6 DEF SetsAside, Fresh
  <2> HIDE DEF p, f
  <2>2. Made' = Made \cup {e}
    BY <1>2, <1>3, <2>1, MadeNew
  <2> QED
    BY <1>3, <1>4, <1>6, <2>1, <2>2 DEF p, f
<1> QED
  BY <1>5, <1>6

\* A commit ends its own transaction and perhaps others; it opens none.
LEMMA CommitsKeep == ASSUME ShapeInv, NEW s \in Sessions, Commits(s) PROVE Kept
<1>1. TypeOK
  BY DEF ShapeInv
<1>2. CASE \E ds : Restamped(s, ds)
  BY <1>1, <1>2, RestampedKeeps
<1>3. CASE txn' = [txn EXCEPT ![s] = Idle]
  BY <1>1, <1>3, EndedKeeps
<1> QED
  BY <1>2, <1>3 DEF Commits, Reaffirm, ApproveDecision, Split, SendBackDecision, Revise,
     Withdraw, UndoBatch, RecordIncident

LEMMA ProposeKeys == ASSUME KeyInv, NEW p \in People, Propose(p) PROVE RowsInv'
<1>1. PICK d \in Decisions, ps \in SUBSET Places \ {{}} :
        /\ d \notin Made
        /\ \A pl \in ps : ~Taken(pl, code, {})
        /\ Says(d, p, p)
        /\ row' = [r \in Rows |-> IF r[1] = d /\ r[2] \in ps THEN Written(d, "proposed") ELSE row[r]]
  BY DEF Propose, Fresh
<1>2. TypeOK /\ "proposed" \in Live
  BY DEF KeyInv, ShapeInv, Live
<1>3. Made' = Made \cup {d}
  BY <1>1, <1>2, MadeNew
<1> QED
  BY <1>1, <1>2, <1>3, WritingKeys

LEMMA ReaffirmKeys == ASSUME KeyInv, NEW s \in Sessions, Reaffirm(s) PROVE RowsInv'
<1>1. PICK e \in Decisions, r \in Rows, state \in Live :
        /\ txn[s].pc = "ready" /\ txn[s].act = "reaffirm"
        /\ e \notin Made
        /\ ~Taken(r[2], code, {})
        /\ Says(e, txn[s].by, txn[s].by)
        /\ row' = [row EXCEPT ![<<e, r[2]>>] = Written(e, state)]
  <2>1. {"proposed", "approved"} = Live
    BY DEF Live
  <2> QED
    BY <2>1 DEF Reaffirm, Ready, Fresh
<1>2. TypeOK /\ txn[s].by \in People
  BY <1>1 DEF KeyInv, ShapeInv, Holds
<1>3. Made' = Made \cup {e}
  <2> DEFINE p == txn[s].by
  <2>1. p \in People /\ Says(e, p, p)
    BY <1>1, <1>2
  <2> HIDE DEF p
  <2> QED
    BY <1>1, <1>2, <2>1, MadeNew
<1> DEFINE ps == {r[2]}
<1>4. row' = [q \in Rows |-> IF q[1] = e /\ q[2] \in ps THEN Written(e, state) ELSE row[q]]
  <2>1. row \in [Rows -> Row]
    BY <1>2 DEF TypeOK
  <2>2. \A q \in Rows : q = <<e, r[2]>> <=> q[1] = e /\ q[2] = r[2]
    BY RowIs
  <2> QED
    BY <1>1, <2>1, <2>2
<1>5. \A pl \in ps : ~Taken(pl, code, {})
  BY <1>1
<1>6. e \notin Made
  BY <1>1
<1> HIDE DEF ps
<1> QED
  BY <1>3, <1>4, <1>5, <1>6, WritingKeys

LEMMA ApproveKeys == ASSUME KeyInv, NEW s \in Sessions, ApproveDecision(s) PROVE RowsInv'
<1>1. PICK d \in Decisions, e \in Decisions \cup {None} :
        /\ Ready(s, "approve", d)
        /\ SetsAside(d, e, txn[s])
        /\ row' = Moved(txn[s].ids, e, txn[s].aside)
        /\ txn[s].ids # {} => WhileRevised(d, txn[s])
  BY DEF ApproveDecision
<1>2. txn[s].ids \subseteq Rows
  BY DEF KeyInv, ShapeInv, TypeOK, Txn
<1>3. \A r \in txn[s].ids : row[r].state = "proposed"
  BY <1>1 DEF WhileRevised
<1>4. /\ txn[s].aside \subseteq In(d)
      /\ txn[s].aside # {} => e \in Decisions \ Made /\ e \in Made'
      /\ Made \subseteq Made'
  BY <1>1, AsideMade DEF KeyInv
<1> QED
  BY <1>1, <1>2, <1>3, <1>4, MovingKeys

LEMMA SplitKeys == ASSUME KeyInv, NEW s \in Sessions, Split(s) PROVE RowsInv'
<1>1. PICK d \in Decisions, e \in Decisions :
        /\ Ready(s, "split", d)
        /\ SetsAside(d, e, txn[s])
        /\ row' = Moved({}, e, txn[s].aside)
  BY DEF Split
<1>2. /\ txn[s].aside \subseteq In(d)
      /\ txn[s].aside # {} => e \in Decisions \ Made /\ e \in Made'
      /\ Made \subseteq Made'
  BY <1>1, AsideMade DEF KeyInv
<1> QED
  BY <1>1, <1>2, MovingKeys

LEMMA SendBackKeys == ASSUME KeyInv, NEW s \in Sessions, SendBackDecision(s) PROVE RowsInv'
<1>1. /\ \A r \in txn[s].ids : row[r].state = "proposed"
      /\ row' = [r \in Rows |-> IF r \in txn[s].ids THEN [row[r] EXCEPT !.back = TRUE] ELSE row[r]]
      /\ Made' = Made
  BY MadeSame DEF SendBackDecision
<1>2. ASSUME NEW r \in Rows
      PROVE  /\ row'[r].at = row[r].at /\ row'[r].in = row[r].in
             /\ row'[r].live = row[r].live
             /\ row'[r].state \in Live <=> row[r].state \in Live
             /\ row[r] = Absent => row'[r] = row[r]
  <2>1. row[r] \in Row /\ (row[r] = Absent => row[r].state = "absent")
    BY DEF KeyInv, ShapeInv, TypeOK, Absent
  <2> QED
    BY <1>1, <2>1 DEF Row
<1> QED
  BY <1>1, <1>2, KeepingKeys

LEMMA ReviseKeys == ASSUME KeyInv, NEW s \in Sessions, Revise(s) PROVE RowsInv'
<1>1. PICK d \in Decisions :
        /\ Ready(s, "revise", d)
        /\ \A r \in txn[s].ids : ~Taken(r[2], row[r].at, {r})
        /\ decision' = [decision EXCEPT ![d].words = Append(@, [by |-> txn[s].by, from |-> txn[s].by])]
        /\ row' = Revived(txn[s].ids)
  BY DEF Revise
<1>2. /\ txn[s].ids \subseteq Rows /\ Apart(txn[s].ids)
      /\ \A r \in txn[s].ids : row[r].in # None
  BY DEF KeyInv, ShapeInv, TypeOK, Txn, Holds
<1>3. d \in Made /\ txn[s].by \in People
  BY <1>1 DEF KeyInv, ShapeInv, Holds, Ready
<1>4. Made' = Made
  <2> DEFINE w == [by |-> txn[s].by, from |-> txn[s].by]
  <2>1. w \in Word
    BY <1>3 DEF Word
  <2>2. decision \in [Decisions -> Decision] /\ decision[d].words \in Seq(Word)
    BY DEF KeyInv, ShapeInv, TypeOK, Decision
  <2>3. decision' = [decision EXCEPT ![d].words = Append(decision[d].words, w)]
    BY <1>1
  <2> HIDE DEF w
  <2>4. Append(decision[d].words, w) # <<>>
    BY <2>1, <2>2
  <2>5. /\ \A x \in Decisions \ {d} : decision'[x] = decision[x]
        /\ decision'[d].words # <<>>
    BY <2>2, <2>3, <2>4 DEF Decision
  <2> QED
    BY <1>3, <2>5 DEF Made
<1> QED
  BY <1>1, <1>2, <1>4, RevivingKeys

LEMMA TakingBackKeys ==
    ASSUME KeyInv, NEW s \in Sessions, Withdraw(s) \/ UndoBatch(s) \/ RecordIncident(s)
    PROVE  RowsInv'
<1>1. CASE Withdraw(s)
  <2>1. PICK d \in Decisions :
          /\ row' = Finished({r \in In(d) : row[r].state \in Live}, "withdrawn")
          /\ decision' = decision
    BY <1>1 DEF Withdraw
  <2> DEFINE rs == {r \in In(d) : row[r].state \in Live}
  <2>2. rs \in SUBSET Rows /\ \A r \in rs : row[r].in # None
    BY ConstantFacts DEF In
  <2>3. row' = Finished(rs, "withdrawn") /\ "withdrawn" \in Ended /\ Made' = Made
    BY <2>1, MadeSame DEF Ended
  <2> HIDE DEF rs
  <2> QED
    BY <2>2, <2>3, FinishingKeys
<1>2. CASE UndoBatch(s) \/ RecordIncident(s)
  BY <1>2, MadeSame, ReturningKeys DEF UndoBatch, RecordIncident
<1> QED
  BY <1>1, <1>2

LEMMA WorldKeys == ASSUME KeyInv, World PROVE RowsInv'
<1>1. Made' = Made
  BY MadeSame DEF World, MoveCode, Lapse, ClearIncident
<1>2. CASE Lapse
  <2>1. PICK rs \in SUBSET {r \in Rows : row[r].state \in Live /\ row[r].at # code} :
          row' = Finished(rs, "lapsed")
    BY <1>2 DEF Lapse
  <2>2. rs \in SUBSET Rows /\ \A r \in rs : row[r].in # None
    BY DEF KeyInv, ShapeInv, Live
  <2> QED
    BY <1>1, <2>1, <2>2, FinishingKeys DEF Ended
<1>3. CASE row' = row
  BY <1>1, <1>3, KeepingKeys
<1> QED
  BY <1>2, <1>3 DEF World, MoveCode, ClearIncident

LEMMA ApartKept == ASSUME KeyInv, Kept PROVE (\A s \in Sessions : Apart(txn[s].ids))'
<1>1. Apart(Idle.ids)
  BY IdleTxn DEF Apart
<1> QED
  BY <1>1 DEF Kept, KeyInv, Apart

\* What a transaction read to write covers each place once.
LEMMA TookApart ==
    ASSUME KeyInv, NEW t \in Txn, Took(t)
    PROVE  Apart(t.ids)
<1>1. CASE \E d \in Made : TookOf(t, d)
  <2>1. PICK d \in Made : TookOf(t, d)
    BY <1>1
  <2>2. d # None /\ d \in Decisions
    BY ConstantFacts DEF Made
  <2>3. t.ids \subseteq In(d)
    BY <2>1 DEF TookOf, Waiting, Argued
  <2>4. Apart(In(d))
    BY <2>2 DEF KeyInv, OnePlace, In, Apart
  <2> QED
    BY <2>3, <2>4 DEF Apart
<1>2. CASE ~ \E d \in Made : TookOf(t, d)
  BY <1>2 DEF Took, Apart
<1> QED
  BY <1>1, <1>2

LEMMA KeyInit == Init => KeyInv
<1> SUFFICES ASSUME Init
             PROVE  KeyInv
  OBVIOUS
<1>1. \A r \in Rows : /\ row[r] = Absent /\ row[r].in = None
                      /\ ~row[r].live /\ row[r].state \notin Live
  BY DEF Init, Absent, Live
<1>2. \A s \in Sessions : txn[s].ids = {}
  BY IdleTxn DEF Init
<1>3. Keyed /\ OneKey /\ OnePlace /\ InMade /\ Unwritten
  BY <1>1 DEF Keyed, OneKey, OnePlace, InMade, Unwritten
<1>4. \A s \in Sessions : Apart(txn[s].ids)
  BY <1>2 DEF Apart
<1> QED
  BY <1>3, <1>4, ShapeInit DEF KeyInv

LEMMA KeyStep == KeyInv /\ [Next]_vars => KeyInv'
<1> SUFFICES ASSUME KeyInv, [Next]_vars
             PROVE  RowsInv' /\ (\A s \in Sessions : Apart(txn[s].ids))'
  BY ShapeStep DEF KeyInv, RowsInv
<1>0. TypeOK /\ ShapeInv
  BY DEF KeyInv, ShapeInv
<1>1. CASE \E p \in People : Propose(p)
  <2>1. Kept
    BY <1>1 DEF Propose, Kept
  <2> QED
    BY <1>1, <2>1, ProposeKeys, ApartKept
<1>2. ASSUME NEW s \in Sessions, Commits(s)
      PROVE  RowsInv' /\ (\A q \in Sessions : Apart(txn[q].ids))'
  <2>1. RowsInv'
    BY <1>2, ReaffirmKeys, ApproveKeys, SplitKeys, SendBackKeys, ReviseKeys,
       TakingBackKeys DEF Commits
  <2> QED
    BY <1>0, <1>2, <2>1, CommitsKeep, ApartKept
<1>3. ASSUME NEW s \in Sessions, Begins(s) \/ ReadStamp(s) \/ Rollback(s)
      PROVE  RowsInv' /\ (\A q \in Sessions : Apart(txn[q].ids))'
  <2>1. row' = row /\ decision' = decision /\ code' = code
    BY <1>3, BeginsTook, <1>0 DEF Begin, ReadStamp, Rollback
  <2>2. RowsInv'
    BY <2>1, MadeSame, KeepingKeys
  <2>3. PICK u \in Txn : txn' = [txn EXCEPT ![s] = u] /\ Apart(u.ids)
    <3>1. CASE Begins(s)
      <4>1. PICK t \in Txn : Took(t) /\ Begin(s, t)
        BY <1>0, <3>1, BeginsTook
      <4>2. PICK v \in Txn : txn' = [txn EXCEPT ![s] = v] /\ Same(v, t)
        BY <4>1, BeginEffect
      <4>3. v.ids = t.ids /\ Apart(t.ids)
        BY <4>1, <4>2, TookApart DEF Same
      <4> QED
        BY <4>2, <4>3
    <3>2. CASE ReadStamp(s)
      <4>1. txn[s] \in Txn /\ txn' = [txn EXCEPT ![s] = Looked(txn[s])]
        BY <1>0, <3>2 DEF TypeOK, ReadStamp
      <4>2. Looked(txn[s]) \in Txn /\ Same(Looked(txn[s]), txn[s])
        BY <4>1, LookedSame
      <4> QED
        BY <4>1, <4>2 DEF Same, KeyInv
    <3>3. CASE Rollback(s)
      BY <3>3, IdleTxn DEF Rollback, Apart
    <3> QED
      BY <1>3, <3>1, <3>2, <3>3
  <2>4. ASSUME NEW q \in Sessions
        PROVE  Apart(txn'[q].ids)
    <3>1. txn'[q] = u \/ txn'[q] = txn[q]
      BY <1>0, <2>3 DEF TypeOK
    <3> QED
      BY <2>3, <3>1 DEF KeyInv
  <2> QED
    BY <2>2, <2>4 DEF Apart
<1>4. CASE World
  <2>1. Kept
    BY <1>4 DEF World, MoveCode, Lapse, ClearIncident, Kept
  <2> QED
    BY <1>4, <2>1, WorldKeys, ApartKept
<1>5. CASE UNCHANGED vars
  <2>1. row' = row /\ Made' = Made /\ Kept
    BY <1>5, MadeSame DEF vars, Kept
  <2> QED
    BY <2>1, KeepingKeys, ApartKept
<1> QED
  BY <1>1, <1>2, <1>3, <1>4, <1>5, StepKinds

\* No two rows stand at one occurrence and version of the code, on any engine
\* and however many transactions race (decision_live_unique, and every write
\* that must keep live_key as the states say).
THEOREM OneAnswer == Spec => []OneAnswerAtAPlace
<1>1. KeyInv => OneAnswerAtAPlace
  BY DEF KeyInv, OneAnswerAtAPlace, Keyed, OneKey, SameKey
<1> QED
  BY <1>1, KeyInit, KeyStep, PTL DEF Spec

----------------------------------------------------------------------------
(* In force and agreed, where a transaction reads one moment.  An agreement *)
(* is to the words its decision has; a row in force has one; and what a     *)
(* transaction read of the decision it writes stands until it writes, since *)
(* whoever wrote to that decision in between has ended it.                  *)

Agreements == \A a \in agreement : a.on \in Made /\ a.rev = Len(decision[a.on].words)

Rests == \A r \in Rows : row[r].state = "approved" => Standing(row[r].in) # {}

Reads(t) ==
    t.pc # "idle" =>
        /\ t.pc = "ready"
        /\ t.act \in {"approve", "send back", "revise"} =>
              \E d \in Made :
                 /\ t.over = {d}
                 /\ t.ids \subseteq In(d)
                 /\ t.act = "approve" => \A r \in t.ids : ~row[r].back
                 /\ t.act = "revise" => In(d) \subseteq t.ids

AgreeParts == Agreements /\ Rests /\ \A s \in Sessions : Reads(txn[s])

AgreeInv == KeyInv /\ (engine # "statements" => AgreeParts)

LEMMA ReadyRead ==
    ASSUME AgreeParts, NEW s \in Sessions, NEW act \in {"approve", "send back", "revise"},
           NEW d, Ready(s, act, d)
    PROVE  /\ d \in Made /\ txn[s].ids \subseteq In(d)
           /\ act = "approve" => \A r \in txn[s].ids : ~row[r].back
           /\ act = "revise" => In(d) \subseteq txn[s].ids
<1>1. Reads(txn[s])
  BY DEF AgreeParts
<1>2. txn[s].pc = "ready" /\ txn[s].act = act /\ txn[s].over = {d}
  BY DEF Ready
<1>3. PICK e \in Made :
        /\ txn[s].over = {e}
        /\ txn[s].ids \subseteq In(e)
        /\ txn[s].act = "approve" => \A r \in txn[s].ids : ~row[r].back
        /\ txn[s].act = "revise" => In(e) \subseteq txn[s].ids
  BY <1>1, <1>2 DEF Reads
<1> QED
  BY <1>2, <1>3

\* What a step leaves of a decision it does not restamp.
Untouched(d) ==
    /\ d \in Made'
    /\ decision'[d] = decision[d]
    /\ \A r \in Rows : row'[r].in = d <=> row[r].in = d
    /\ \A r \in Rows : row[r].in = d /\ row'[r].back => row[r].back

\* What a step may not do to a row.
Stays(r) ==
    /\ row[r].back /\ row[r].state = "proposed" => row'[r].state # "approved"
    /\ row[r].state \in Ended /\ row'[r].state \in Live =>
          Len(decision'[row[r].in].words) > Len(decision[row[r].in].words)

AgreeStep(ds) ==
    /\ Agreements'
    /\ Rests'
    /\ \A r \in Rows : Stays(r)
    /\ \A d \in Made \ ds : Untouched(d)

\* A decision made, with the rows written for it.
LEMMA NewAgrees ==
    ASSUME KeyInv, AgreeParts, NEW d \in Decisions, NEW by \in People, NEW from \in People,
           d \notin Made, Says(d, by, from),
           \A r \in Rows : \/ row'[r] = row[r]
                           \/ row[r] = Absent /\ row'[r].in = d /\ row'[r].state \in Live,
           \A a \in agreement' : a \in agreement \/ (a.on = d /\ a.rev = 1),
           agreement \subseteq agreement',
           \A r \in Rows : row'[r].in = d /\ row'[r].state = "approved" =>
                               \E a \in agreement' : a.on = d
    PROVE  AgreeStep({})
<1>1. TypeOK
  BY DEF KeyInv, ShapeInv
<1>2. /\ Made' = Made \cup {d}
      /\ \A e \in Made : decision'[e] = decision[e]
      /\ Len(decision'[d].words) = 1
  BY <1>1, MadeNew, SaysWrites DEF Made
<1>3. Agreements'
  BY <1>2 DEF AgreeParts, Agreements
<1>4. Rests'
  BY DEF AgreeParts, Rests, Standing
<1>5. ASSUME NEW r \in Rows
      PROVE  Stays(r)
  <2>1. row[r] = Absent => row[r].state = "absent"
    BY DEF Absent
  <2> QED
    BY <2>1 DEF Stays, Ended, Live
<1>6. ASSUME NEW e \in Made
      PROVE  Untouched(e)
  <2>1. e # d /\ e # None
    BY ConstantFacts DEF Made
  <2>2. \A r \in Rows : row[r] = Absent => row[r].in = None
    BY DEF Absent
  <2> QED
    BY <1>2, <2>1, <2>2 DEF Untouched
<1> QED
  BY <1>3, <1>4, <1>5, <1>6 DEF AgreeStep

LEMMA ProposeAgrees ==
    ASSUME KeyInv, AgreeParts, NEW p \in People, Propose(p)
    PROVE  AgreeStep({})
<1>1. PICK d \in Decisions, ps \in SUBSET Places \ {{}} :
        /\ d \notin Made
        /\ Says(d, p, p)
        /\ row' = [r \in Rows |-> IF r[1] = d /\ r[2] \in ps THEN Written(d, "proposed") ELSE row[r]]
  BY DEF Propose, Fresh
<1>2. agreement' = agreement
  BY DEF Propose
<1>3. ASSUME NEW r \in Rows
      PROVE  \/ row'[r] = row[r]
             \/ row[r] = Absent /\ row'[r].in = d /\ row'[r].state = "proposed"
  BY <1>1 DEF KeyInv, Unwritten, Written
<1>4. \A r \in Rows : row'[r].in = d => row'[r].state # "approved"
  <2> SUFFICES ASSUME NEW r \in Rows, row'[r].in = d
               PROVE  row'[r].state # "approved"
    OBVIOUS
  <2>1. row[r].in # d
    BY <1>1, ConstantFacts DEF KeyInv, InMade
  <2> QED
    BY <1>3, <2>1
<1> QED
  BY <1>1, <1>2, <1>3, <1>4, NewAgrees DEF Live

LEMMA ReaffirmAgrees ==
    ASSUME KeyInv, AgreeParts, NEW s \in Sessions, Reaffirm(s)
    PROVE  AgreeStep({})
<1>1. PICK d, e \in Decisions, r \in Rows :
        /\ Ready(s, "reaffirm", d)
        /\ e \notin Made
        /\ Says(e, txn[s].by, txn[s].by)
        /\ \/ /\ row' = [row EXCEPT ![<<e, r[2]>>] = Written(e, "proposed")]
              /\ UNCHANGED agreement
           \/ \E p \in txn[s].carry :
                 /\ row' = [row EXCEPT ![<<e, r[2]>>] = Written(e, "approved")]
                 /\ agreement' = agreement \cup
                       {[on |-> e, rev |-> 1, by |-> p, carried |-> d]}
  BY DEF Reaffirm, Fresh
<1> DEFINE by == txn[s].by
           x == <<e, r[2]>>
<1>2. TypeOK /\ by \in People /\ Says(e, by, by)
  BY <1>1 DEF KeyInv, ShapeInv, Holds, Ready
<1>3. x \in Rows /\ x[1] = e /\ row \in [Rows -> Row]
  BY <1>2 DEF Rows, TypeOK
<1>4. row[x] = Absent
  BY <1>1, <1>3 DEF KeyInv, Unwritten
<1>5. \A a \in agreement' : a \in agreement \/ (a.on = e /\ a.rev = 1)
  BY <1>1
<1>6. agreement \subseteq agreement'
  BY <1>1
<1>7. /\ \A q \in Rows \ {x} : row'[q] = row[q]
      /\ row'[x].in = e /\ row'[x].state \in Live
      /\ row'[x].state = "approved" => \E a \in agreement' : a.on = e
  <2>1. CASE row' = [row EXCEPT ![x] = Written(e, "proposed")] /\ UNCHANGED agreement
    BY <1>3, <2>1 DEF Written, Live
  <2>2. CASE \E p \in txn[s].carry :
               /\ row' = [row EXCEPT ![x] = Written(e, "approved")]
               /\ agreement' = agreement \cup {[on |-> e, rev |-> 1, by |-> p, carried |-> d]}
    <3>1. row' = [row EXCEPT ![x] = Written(e, "approved")]
      BY <2>2
    <3>2. row'[x] = Written(e, "approved") /\ \A q \in Rows \ {x} : row'[q] = row[q]
      BY <1>3, <3>1
    <3>3. PICK p \in txn[s].carry :
            agreement' = agreement \cup {[on |-> e, rev |-> 1, by |-> p, carried |-> d]}
      BY <2>2
    <3>4. [on |-> e, rev |-> 1, by |-> p, carried |-> d].on = e
      OBVIOUS
    <3>5. \E a \in agreement' : a.on = e
      BY <3>3, <3>4
    <3> QED
      BY <3>2, <3>5 DEF Written, Live
  <2> QED
    BY <1>1, <2>1, <2>2
<1>8. e \notin Made
  BY <1>1
<1> HIDE DEF by, x
<1>9. ASSUME NEW q \in Rows
      PROVE  /\ \/ row'[q] = row[q]
                \/ row[q] = Absent /\ row'[q].in = e /\ row'[q].state \in Live
             /\ row'[q].in = e /\ row'[q].state = "approved" => \E a \in agreement' : a.on = e
  <2>1. row[q].in # e
    BY <1>8, ConstantFacts DEF KeyInv, InMade
  <2> QED
    BY <1>4, <1>7, <2>1
<1> QED
  BY <1>2, <1>5, <1>6, <1>8, <1>9, NewAgrees

\* Rows set aside, and rows agreed to.
LEMMA MovingAgrees ==
    ASSUME KeyInv, AgreeParts, NEW d \in Made, NEW e \in Decisions \cup {None},
           NEW aside \in SUBSET Argued(d), NEW ids \in SUBSET In(d),
           row' = Moved(ids, e, aside),
           \A r \in ids : row[r].state = "proposed" /\ ~row[r].back,
           Made \subseteq Made', \A x \in Made : decision'[x] = decision[x],
           aside # {} => e \notin Made,
           agreement \subseteq agreement',
           \A a \in agreement' : a \in agreement \/ (a.on = d /\ a.rev = Len(decision[d].words)),
           ids # {} => \E a \in agreement' : a.on = d
    PROVE  AgreeStep({d})
<1>1. row \in [Rows -> Row] /\ \A r \in aside : row[r].state = "proposed" /\ row[r].in = d
  BY DEF KeyInv, ShapeInv, TypeOK, Argued, In
<1>2. ASSUME NEW r \in Rows
      PROVE  /\ r \in aside => row'[r].in = e /\ row'[r].state = "proposed" /\ row'[r].back
             /\ r \notin aside /\ r \in ids => /\ row'[r].in = row[r].in
                                              /\ row'[r].state = "approved"
                                              /\ row'[r].back = row[r].back
             /\ r \notin aside /\ r \notin ids => row'[r] = row[r]
  <2>1. row[r] \in Row
    BY <1>1
  <2>2. r \in aside => row'[r] = [row[r] EXCEPT !.in = e, !.back = TRUE]
    BY DEF Moved
  <2>3. r \notin aside /\ r \in ids => row'[r] = [row[r] EXCEPT !.state = "approved"]
    BY DEF Moved
  <2>4. r \notin aside /\ r \notin ids => row'[r] = row[r]
    BY DEF Moved
  <2>5. r \in aside => row[r].state = "proposed"
    BY <1>1
  <2> QED
    <3>1. CASE r \in aside
      <4>1. row'[r] = [row[r] EXCEPT !.in = e, !.back = TRUE]
        BY <2>2, <3>1
      <4>2. /\ row'[r].in = e /\ row'[r].back
            /\ row'[r].state = row[r].state
        BY <2>1, <4>1 DEF Row
      <4> QED
        BY <2>5, <3>1, <4>2
    <3>2. CASE r \notin aside /\ r \in ids
      BY <2>1, <2>3, <3>2 DEF Row
    <3> QED
      BY <2>4, <3>1, <3>2
<1>3. Agreements'
  BY DEF AgreeParts, Agreements
<1>4. Rests'
  <2> SUFFICES ASSUME NEW r \in Rows, row'[r].state = "approved"
               PROVE  \E a \in agreement' : a.on = row'[r].in
    BY DEF Rests, Standing
  <2>1. r \notin aside
    BY <1>2
  <2>2. CASE r \in ids
    BY <1>2, <2>1, <2>2 DEF In
  <2>3. CASE r \notin ids
    BY <1>2, <2>1, <2>3 DEF AgreeParts, Rests, Standing
  <2> QED
    BY <2>2, <2>3
<1>5. ASSUME NEW r \in Rows
      PROVE  Stays(r)
  BY <1>1, <1>2 DEF Stays, Ended, Live
<1>6. ASSUME NEW x \in Made \ {d}
      PROVE  Untouched(x)
  <2>1. \A r \in Rows : r \in ids => row[r].in = d
    BY DEF In
  <2> QED
    BY <1>1, <1>2, <2>1 DEF Untouched
<1> QED
  BY <1>3, <1>4, <1>5, <1>6 DEF AgreeStep

\* Decisions stand through what is written beside them.
LEMMA AsideLeaves ==
    ASSUME ShapeInv, NEW s \in Sessions, NEW d \in Decisions, NEW e \in Decisions \cup {None},
           NEW act \in {"approve", "split"}, Ready(s, act, d), SetsAside(d, e, txn[s])
    PROVE  /\ \A x \in Made : decision'[x] = decision[x]
           /\ Made \subseteq Made'
           /\ txn[s].aside # {} => e \notin Made
           /\ txn[s].aside \in SUBSET Argued(d)
           /\ d \in Made
<1>1. d \in Made
  BY SetsAsideShape
<1>2. txn[s].aside \in SUBSET Argued(d)
  BY DEF SetsAside
<1>3. TypeOK
  BY DEF ShapeInv
<1>4. CASE txn[s].aside = {}
  BY <1>1, <1>2, <1>4, AsideMade
<1>5. CASE txn[s].aside # {}
  <2> DEFINE p == decision[d].by
             f == decision[d].words[txn[s].rev].from
  <2>1. /\ e \in Decisions /\ e \notin Made /\ Made' = Made \cup {e}
        /\ Says(e, p, f) /\ p \in People /\ f \in People
    BY <1>5, AsideMade
  <2> HIDE DEF p, f
  <2>2. \A x \in Decisions \ {e} : decision'[x] = decision[x]
    BY <1>3, <2>1, SaysWrites
  <2> QED
    BY <1>1, <1>2, <2>1, <2>2 DEF Made
<1> QED
  BY <1>4, <1>5

LEMMA ApproveAgrees ==
    ASSUME KeyInv, AgreeParts, NEW s \in Sessions, ApproveDecision(s)
    PROVE  \E d \in Made : AgreeStep({d}) /\ Restamped(s, {d})
<1> DEFINE t == txn[s]
<1>1. PICK d \in Decisions, e \in Decisions \cup {None} :
        /\ Ready(s, "approve", d)
        /\ SetsAside(d, e, txn[s])
        /\ row' = Moved(t.ids, e, t.aside)
        /\ \/ t.ids = {} /\ UNCHANGED agreement
           \/ /\ t.ids # {}
              /\ WhileRevised(d, t)
              /\ agreement' = agreement \cup
                    {[on |-> d, rev |-> t.rev, by |-> t.by, carried |-> None]}
        /\ Restamped(s, {d})
  BY DEF ApproveDecision
<1>2. /\ d \in Made /\ t.aside \in SUBSET Argued(d)
      /\ \A x \in Made : decision'[x] = decision[x]
      /\ Made \subseteq Made'
      /\ t.aside # {} => e \notin Made
  BY <1>1, AsideLeaves DEF KeyInv
<1>3. t.ids \in SUBSET In(d) /\ \A r \in t.ids : ~row[r].back
  BY <1>1, ReadyRead
<1>4. \A r \in t.ids : row[r].state = "proposed"
  BY <1>1 DEF WhileRevised
<1>5. /\ agreement \subseteq agreement'
      /\ \A a \in agreement' : a \in agreement \/ (a.on = d /\ a.rev = Len(decision[d].words))
      /\ t.ids # {} => \E a \in agreement' : a.on = d
  <2> DEFINE a == [on |-> d, rev |-> t.rev, by |-> t.by, carried |-> None]
  <2>1. a.on = d /\ a.rev = t.rev
    OBVIOUS
  <2>2. \/ t.ids = {} /\ UNCHANGED agreement
        \/ agreement' = agreement \cup {a} /\ t.rev = Len(decision[d].words)
    BY <1>1 DEF WhileRevised
  <2> HIDE DEF a
  <2> QED
    BY <2>1, <2>2
<1>6. row' = Moved(t.ids, e, t.aside) /\ Restamped(s, {d})
  BY <1>1
<1> HIDE DEF t
<1>7. AgreeStep({d})
  BY <1>2, <1>3, <1>4, <1>5, <1>6, MovingAgrees
<1> QED
  BY <1>2, <1>6, <1>7

LEMMA SplitAgrees ==
    ASSUME KeyInv, AgreeParts, NEW s \in Sessions, Split(s)
    PROVE  \E d \in Made : AgreeStep({d}) /\ Restamped(s, {d})
<1>1. PICK d \in Decisions, e \in Decisions :
        /\ Ready(s, "split", d)
        /\ SetsAside(d, e, txn[s])
        /\ row' = Moved({}, e, txn[s].aside)
        /\ Restamped(s, {d})
        /\ agreement' = agreement
  BY DEF Split
<1> DEFINE aside == txn[s].aside
           ids == {}
<1>2. /\ d \in Made /\ aside \in SUBSET Argued(d)
      /\ \A x \in Made : decision'[x] = decision[x]
      /\ Made \subseteq Made'
      /\ aside # {} => e \notin Made
  BY <1>1, AsideLeaves DEF KeyInv
<1>3. row' = Moved({}, e, aside) /\ agreement' = agreement
  BY <1>1
<1>4. /\ row' = Moved(ids, e, aside) /\ ids \in SUBSET In(d)
      /\ ids # {} => \E a \in agreement' : a.on = d
      /\ \A r \in ids : row[r].state = "proposed" /\ ~row[r].back
      /\ e \in Decisions \cup {None}
  BY <1>3
<1> HIDE DEF aside, ids
<1>5. AgreeStep({d})
  BY <1>2, <1>3, <1>4, MovingAgrees
<1> QED
  BY <1>1, <1>2, <1>5

LEMMA SendBackAgrees ==
    ASSUME KeyInv, AgreeParts, NEW s \in Sessions, SendBackDecision(s)
    PROVE  \E d \in Made : AgreeStep({d}) /\ Restamped(s, {d})
<1> DEFINE ids == txn[s].ids
<1>1. PICK d \in Decisions :
        /\ Ready(s, "send back", d)
        /\ \A r \in ids : row[r].state = "proposed"
        /\ row' = [r \in Rows |-> IF r \in ids THEN [row[r] EXCEPT !.back = TRUE] ELSE row[r]]
        /\ Restamped(s, {d})
        /\ decision' = decision /\ agreement' = agreement
  BY DEF SendBackDecision
<1>2. d \in Made /\ ids \subseteq In(d)
  BY <1>1, ReadyRead
<1>3. Made' = Made
  BY <1>1 DEF Made
<1> HIDE DEF ids
<1>4. ASSUME NEW r \in Rows
      PROVE  /\ row'[r].in = row[r].in /\ row'[r].state = row[r].state
             /\ r \notin ids => row'[r] = row[r]
  <2>1. row[r] \in Row
    BY DEF KeyInv, ShapeInv, TypeOK
  <2> QED
    BY <1>1, <2>1 DEF Row
<1>5. Agreements' /\ Rests'
  BY <1>1, <1>3, <1>4 DEF AgreeParts, Agreements, Rests, Standing
<1>6. \A r \in Rows : Stays(r)
  BY <1>4 DEF Stays, Ended, Live
<1>7. \A x \in Made \ {d} : Untouched(x)
  BY <1>1, <1>2, <1>3, <1>4 DEF Untouched, In
<1> QED
  BY <1>1, <1>2, <1>5, <1>6, <1>7 DEF AgreeStep

LEMMA ReviseAgrees ==
    ASSUME KeyInv, AgreeParts, NEW s \in Sessions, Revise(s)
    PROVE  \E d \in Made : AgreeStep({d}) /\ Restamped(s, {d})
<1> DEFINE ids == txn[s].ids
           w == [by |-> txn[s].by, from |-> txn[s].by]
<1>1. PICK d \in Decisions :
        /\ Ready(s, "revise", d)
        /\ decision' = [decision EXCEPT ![d].words = Append(decision[d].words, w)]
        /\ agreement' = agreement \ Standing(d)
        /\ row' = Revived(ids)
        /\ Restamped(s, {d})
  BY DEF Revise
<1>2. d \in Made /\ ids \subseteq In(d) /\ In(d) \subseteq ids
  BY <1>1, ReadyRead
<1>3. w \in Word
  BY <1>1 DEF KeyInv, ShapeInv, Holds, Ready, Word
<1> HIDE DEF w, ids
<1>4. /\ \A x \in Decisions \ {d} : decision'[x] = decision[x]
      /\ Len(decision'[d].words) = Len(decision[d].words) + 1
      /\ decision'[d].words # <<>>
  <2>1. decision \in [Decisions -> Decision] /\ decision[d].words \in Seq(Word)
    BY DEF KeyInv, ShapeInv, TypeOK, Decision
  <2>2. /\ Append(decision[d].words, w) # <<>>
        /\ Len(Append(decision[d].words, w)) = Len(decision[d].words) + 1
    BY <1>3, <2>1
  <2>3. decision'[d].words = Append(decision[d].words, w)
    BY <1>1, <2>1 DEF Decision
  <2>4. \A x \in Decisions \ {d} : decision'[x] = decision[x]
    BY <1>1, <2>1
  <2> QED
    BY <2>2, <2>3, <2>4
<1>5. Made' = Made
  BY <1>2, <1>4 DEF Made
<1>6. ASSUME NEW r \in Rows
      PROVE  /\ row'[r].in = row[r].in
             /\ row[r].in = d => row'[r].state = "proposed"
             /\ row[r].in # d => row'[r] = row[r]
  <2>1. row[r] \in Row /\ (r \in ids <=> row[r].in = d)
    BY <1>2 DEF KeyInv, ShapeInv, TypeOK, In
  <2> QED
    BY <1>1, <2>1 DEF Revived, Row
<1>7. Agreements'
  BY <1>1, <1>4, <1>5 DEF AgreeParts, Agreements, Standing, Made
<1>8. Rests'
  BY <1>1, <1>6 DEF AgreeParts, Rests, Standing
<1>9. ASSUME NEW r \in Rows
      PROVE  Stays(r)
  <2>1. Len(decision[d].words) \in Nat
    BY DEF KeyInv, ShapeInv, TypeOK, Decision
  <2> QED
    BY <1>4, <1>6, <2>1 DEF Stays, Ended, Live
<1>10. \A x \in Made \ {d} : Untouched(x)
  BY <1>4, <1>5, <1>6 DEF Untouched, Made
<1> QED
  BY <1>1, <1>2, <1>7, <1>8, <1>9, <1>10 DEF AgreeStep

\* Rows that end, or wait again: nothing enters force.
LEMMA TakingAgrees ==
    ASSUME KeyInv, AgreeParts, decision' = decision, agreement' \subseteq agreement,
           \A r \in Rows :
               /\ row'[r].in = row[r].in
               /\ row'[r].back => row[r].back
               /\ row'[r].state = row[r].state \/ row'[r].state \in Ended
                     \/ (row[r].state \in Live /\ row'[r].state = "proposed")
               /\ row'[r].state = "approved" => \E a \in agreement' : a.on = row[r].in
    PROVE  AgreeStep({})
<1>1. Made' = Made
  BY MadeSame
<1>2. Agreements'
  BY <1>1 DEF AgreeParts, Agreements
<1>3. Rests'
  BY DEF Rests, Standing
<1>4. \A r \in Rows : Stays(r)
  BY DEF Stays, Ended, Live
<1>5. \A x \in Made : Untouched(x)
  BY <1>1 DEF Untouched
<1> QED
  BY <1>2, <1>3, <1>4, <1>5 DEF AgreeStep

LEMMA WithdrawAgrees ==
    ASSUME KeyInv, AgreeParts, NEW s \in Sessions, Withdraw(s)
    PROVE  AgreeStep({})
<1>1. PICK d \in Decisions :
        /\ agreement' = agreement \ Standing(d)
        /\ row' = Finished({r \in In(d) : row[r].state \in Live}, "withdrawn")
        /\ decision' = decision
  BY DEF Withdraw
<1> DEFINE rs == {r \in In(d) : row[r].state \in Live}
<1>2. ASSUME NEW r \in Rows
      PROVE  /\ row'[r].in = row[r].in
             /\ row'[r].back => row[r].back
             /\ row'[r].state = row[r].state \/ row'[r].state \in Ended
             /\ row'[r].state = "approved" => \E a \in agreement' : a.on = row[r].in
  <2>1. row[r] \in Row /\ (r \in rs <=> row[r].in = d /\ row[r].state \in Live)
    BY DEF KeyInv, ShapeInv, TypeOK, In
  <2>2. row' = Finished(rs, "withdrawn")
    BY <1>1
  <2> HIDE DEF rs
  <2>3. CASE r \in rs
    BY <2>1, <2>2, <2>3 DEF Finished, Row, Ended
  <2>4. CASE r \notin rs
    <3>1. row'[r] = row[r]
      BY <2>2, <2>4 DEF Finished
    <3>2. row[r].state = "approved" => row[r].in # d /\ \E a \in agreement : a.on = row[r].in
      BY <2>1, <2>4 DEF AgreeParts, Rests, Standing, Live
    <3> QED
      BY <1>1, <3>1, <3>2 DEF Standing
  <2> QED
    BY <2>3, <2>4
<1> QED
  BY <1>1, <1>2, TakingAgrees

LEMMA ReturningAgrees ==
    ASSUME KeyInv, AgreeParts, NEW s \in Sessions, UndoBatch(s) \/ RecordIncident(s)
    PROVE  AgreeStep({})
<1> DEFINE ds == txn[s].over
           left == agreement'
<1>1. /\ decision' = decision
      /\ left \subseteq agreement
      /\ \A a \in agreement \ left : a.on \in ds
      /\ row' = ToWaiting(ds, left)
  BY DEF UndoBatch, RecordIncident
<1> HIDE DEF ds
<1>2. ASSUME NEW r \in Rows
      PROVE  /\ row'[r].in = row[r].in
             /\ row'[r].back => row[r].back
             /\ \/ row'[r].state = row[r].state
                \/ row[r].state \in Live /\ row'[r].state = "proposed"
             /\ row'[r].state = "approved" => \E a \in left : a.on = row[r].in
  <2> DEFINE out == /\ row[r].in \in ds
                    /\ row[r].state = "approved"
                    /\ ~ \E a \in left : a.on = row[r].in
  <2>1. row[r] \in Row
    BY DEF KeyInv, ShapeInv, TypeOK
  <2>2. row'[r] = IF out THEN [row[r] EXCEPT !.state = "proposed", !.back = FALSE] ELSE row[r]
    BY <1>1 DEF ToWaiting
  <2>3. CASE out
    BY <2>1, <2>2, <2>3 DEF Row, Live
  <2>4. CASE ~out
    <3>1. row'[r] = row[r]
      BY <2>2, <2>4
    <3>2. row[r].state = "approved" => \E a \in agreement : a.on = row[r].in
      BY DEF AgreeParts, Rests, Standing
    <3> QED
      BY <1>1, <2>4, <3>1, <3>2
  <2> QED
    BY <2>3, <2>4
<1> QED
  BY <1>1, <1>2, TakingAgrees

LEMMA WorldAgrees == ASSUME KeyInv, AgreeParts, World PROVE AgreeStep({})
<1>1. decision' = decision /\ agreement' = agreement
  BY DEF World, MoveCode, Lapse, ClearIncident
<1>2. PICK rs \in SUBSET Rows : row' = Finished(rs, "lapsed") \/ row' = row
  BY DEF World, MoveCode, Lapse, ClearIncident
<1>3. ASSUME NEW r \in Rows
      PROVE  /\ row'[r].in = row[r].in
             /\ row'[r].back => row[r].back
             /\ row'[r].state = row[r].state \/ row'[r].state \in Ended
             /\ row'[r].state = "approved" => \E a \in agreement' : a.on = row[r].in
  <2>1. row[r] \in Row
    BY DEF KeyInv, ShapeInv, TypeOK
  <2>2. row[r].state = "approved" => \E a \in agreement' : a.on = row[r].in
    BY <1>1 DEF AgreeParts, Rests, Standing
  <2>3. \/ row'[r] = row[r]
        \/ row'[r] = [row[r] EXCEPT !.state = "lapsed", !.live = FALSE, !.ended = Made]
    BY <1>2 DEF Finished
  <2> QED
    BY <2>1, <2>2, <2>3 DEF Row, Ended
<1> QED
  BY <1>1, <1>3, TakingAgrees

LEMMA NothingAgrees ==
    ASSUME KeyInv, AgreeParts, UNCHANGED <<decision, row, agreement>>
    PROVE  AgreeStep({})
<1>1. Made' = Made
  BY MadeSame
<1>2. Agreements' /\ Rests'
  BY <1>1 DEF AgreeParts, Agreements, Rests, Standing
<1>3. \A r \in Rows : Stays(r)
  BY DEF Stays, Ended, Live
<1>4. \A x \in Made : Untouched(x)
  BY <1>1 DEF Untouched
<1> QED
  BY <1>2, <1>3, <1>4 DEF AgreeStep

\* What a transaction read stands while nobody restamps the decision it read.
LEMMA ReadsKept ==
    ASSUME KeyInv, AgreeParts, NEW ds, AgreeStep(ds),
           \A q \in Sessions :
               \/ txn'[q] = Idle
               \/ txn'[q] = txn[q] /\ (txn[q].pc = "ready" /\ txn[q].act \in Stamped
                                          => txn[q].over \cap ds = {})
    PROVE  (\A q \in Sessions : Reads(txn[q]))'
<1> SUFFICES ASSUME NEW q \in Sessions
             PROVE  Reads(txn[q])'
  OBVIOUS
<1>1. CASE txn'[q] = Idle
  BY <1>1, IdleTxn DEF Reads
<1>2. CASE /\ txn'[q] = txn[q]
           /\ txn[q].pc = "ready" /\ txn[q].act \in Stamped => txn[q].over \cap ds = {}
  <2> DEFINE t == txn[q]
  <2> SUFFICES ASSUME t.pc = "ready", t.act \in {"approve", "send back", "revise"}
               PROVE  \E d \in Made' :
                         /\ t.over = {d}
                         /\ \A r \in t.ids : r \in Rows /\ row'[r].in = d
                         /\ t.act = "approve" => \A r \in t.ids : ~row'[r].back
                         /\ t.act = "revise" => \A r \in Rows : row'[r].in = d => r \in t.ids
    <3>1. Reads(t) /\ txn'[q] = t
      BY <1>2 DEF AgreeParts
    <3>2. row' = row' /\ \A d : In(d)' = {r \in Rows : row'[r].in = d}
      BY DEF In
    <3> HIDE DEF t
    <3> QED
      BY <3>1, <3>2 DEF Reads
  <2>1. PICK d \in Made :
          /\ t.over = {d}
          /\ t.ids \subseteq In(d)
          /\ t.act = "approve" => \A r \in t.ids : ~row[r].back
          /\ t.act = "revise" => In(d) \subseteq t.ids
    BY DEF AgreeParts, Reads
  <2>2. t.over \cap ds = {}
    BY <1>2 DEF Stamped
  <2> HIDE DEF t
  <2>3. Untouched(d)
    BY <2>1, <2>2 DEF AgreeStep
  <2>4. \A r \in t.ids : r \in Rows /\ row[r].in = d
    BY <2>1 DEF In
  <2>5. t.act = "revise" => \A r \in Rows : row[r].in = d => r \in t.ids
    BY <2>1 DEF In
  <2>6. d \in Made' /\ \A r \in Rows : row'[r].in = d <=> row[r].in = d
    BY <2>3 DEF Untouched
  <2>7. \A r \in t.ids : row'[r].in = d
    BY <2>4, <2>6
  <2>8. t.act = "approve" => \A r \in t.ids : ~row'[r].back
    BY <2>1, <2>3, <2>4 DEF Untouched
  <2>9. t.act = "revise" => \A r \in Rows : row'[r].in = d => r \in t.ids
    BY <2>5, <2>6
  <2> QED
    BY <2>1, <2>4, <2>6, <2>7, <2>8, <2>9
<1> QED
  BY <1>1, <1>2

LEMMA TookReads ==
    ASSUME KeyInv, NEW t \in Txn, Took(t)
    PROVE  Reads(Looked(t))
<1> DEFINE u == Looked(t)
<1>1. Same(u, t) /\ u.pc = "ready"
  BY LookedSame
<1> HIDE DEF u
<1>2. CASE \E d \in Made : TookOf(t, d)
  <2>1. PICK d \in Made : TookOf(t, d)
    BY <1>2
  <2>2. Waiting(d) \subseteq In(d) /\ \A r \in Waiting(d) : ~row[r].back
    BY DEF Waiting, Argued
  <2>3. u.act = t.act /\ u.over = {d} /\ u.ids = t.ids
    BY <1>1, <2>1 DEF Same, TookOf
  <2>4. t.act \in {"approve", "revise", "send back"} => t.ids \subseteq In(d)
    BY <2>1, <2>2 DEF TookOf
  <2>5. /\ t.act = "approve" => \A r \in t.ids : ~row[r].back
        /\ t.act = "revise" => In(d) \subseteq t.ids
    BY <2>1, <2>2 DEF TookOf
  <2>6. Reads(u)
    BY <1>1, <2>3, <2>4, <2>5 DEF Reads
  <2> QED
    BY <2>6 DEF u
<1>3. CASE ~ \E d \in Made : TookOf(t, d)
  BY <1>1, <1>3 DEF Took, Reads, Same, u
<1> QED
  BY <1>2, <1>3

\* Each transaction is as it was or gone, and is gone where what it read was restamped.
Ends(ds) ==
    \A q \in Sessions :
        \/ txn'[q] = Idle
        \/ txn'[q] = txn[q] /\ (txn[q].pc = "ready" /\ txn[q].act \in Stamped
                                   => txn[q].over \cap ds = {})

\* Every step but those that open, read for or close a transaction.
LEMMA StepAgrees ==
    ASSUME KeyInv, AgreeParts,
           \/ \E p \in People : Propose(p)
           \/ \E s \in Sessions : Commits(s)
           \/ World
    PROVE  \E ds : AgreeStep(ds) /\ Ends(ds)
<1>0. ShapeInv
  BY DEF KeyInv
<1>1. ASSUME AgreeStep({}), Kept
      PROVE  \E ds : AgreeStep(ds) /\ Ends(ds)
  <2>1. Ends({})
    BY <1>1 DEF Kept, Ends
  <2> QED
    BY <1>1, <2>1
<1>2. ASSUME NEW d \in Made, NEW s \in Sessions, AgreeStep({d}), Restamped(s, {d})
      PROVE  \E ds : AgreeStep(ds) /\ Ends(ds)
  <2>1. Ends({d})
    BY <1>2 DEF Restamped, Ends
  <2> QED
    BY <1>2, <2>1
<1>3. CASE \E p \in People : Propose(p)
  <2>1. Kept
    BY <1>3 DEF Propose, Kept
  <2> QED
    BY <1>1, <1>3, <2>1, ProposeAgrees
<1>4. ASSUME NEW s \in Sessions, Commits(s)
      PROVE  \E ds : AgreeStep(ds) /\ Ends(ds)
  <2>1. Kept
    BY <1>0, <1>4, CommitsKeep
  <2>2. CASE Reaffirm(s) \/ Withdraw(s) \/ UndoBatch(s) \/ RecordIncident(s)
    BY <1>1, <2>1, <2>2, ReaffirmAgrees, WithdrawAgrees, ReturningAgrees
  <2>3. CASE ApproveDecision(s) \/ Split(s) \/ SendBackDecision(s) \/ Revise(s)
    BY <1>2, <2>3, ApproveAgrees, SplitAgrees, SendBackAgrees, ReviseAgrees
  <2> QED
    BY <1>4, <2>2, <2>3 DEF Commits
<1>5. CASE World
  <2>1. Kept
    BY <1>5 DEF World, MoveCode, Lapse, ClearIncident, Kept
  <2> QED
    BY <1>1, <1>5, <2>1, WorldAgrees
<1> QED
  BY <1>3, <1>4, <1>5

\* One step, wherever a transaction reads one moment.
LEMMA AgreesStep ==
    ASSUME KeyInv, engine # "statements", AgreeParts, [Next]_vars
    PROVE  AgreeParts' /\ \A r \in Rows : Stays(r)
<1>0. TypeOK /\ ShapeInv
  BY DEF KeyInv, ShapeInv
<1>1. CASE \/ \E p \in People : Propose(p)
           \/ \E s \in Sessions : Commits(s)
           \/ World
  <2>1. PICK ds : AgreeStep(ds) /\ Ends(ds)
    BY <1>1, StepAgrees
  <2>2. (\A q \in Sessions : Reads(txn[q]))'
    BY <2>1, ReadsKept DEF Ends
  <2> QED
    BY <2>1, <2>2 DEF AgreeParts, AgreeStep
<1>2. ASSUME NEW s \in Sessions, Begins(s) \/ ReadStamp(s) \/ Rollback(s)
      PROVE  AgreeParts' /\ \A r \in Rows : Stays(r)
  <2>1. UNCHANGED <<decision, row, agreement>>
    BY <1>0, <1>2, BeginsTook DEF Begin, ReadStamp, Rollback
  <2>2. AgreeStep({})
    BY <2>1, NothingAgrees
  <2>3. \E u \in Txn : txn' = [txn EXCEPT ![s] = u] /\ Reads(u)
    <3>1. CASE Begins(s)
      <4>1. PICK t \in Txn : Took(t) /\ Begin(s, t)
        BY <1>0, <3>1, BeginsTook
      <4>2. txn' = [txn EXCEPT ![s] = Looked(t)]
        BY <4>1 DEF Begin
      <4> QED
        BY <4>1, <4>2, TookReads, LookedSame
    <3>2. CASE ReadStamp(s)
      BY <3>2 DEF ReadStamp, AgreeParts, Reads
    <3>3. CASE Rollback(s)
      BY <3>3, IdleTxn DEF Rollback, Reads
    <3> QED
      BY <1>2, <3>1, <3>2, <3>3
  <2>4. PICK u \in Txn : txn' = [txn EXCEPT ![s] = u] /\ Reads(u)
    BY <2>3
  <2>5. Reads(u)'
    BY <2>1, <2>4, MadeSame DEF Reads, In
  <2>6. ASSUME NEW q \in Sessions
        PROVE  Reads(txn[q])'
    <3>1. txn'[q] = u \/ txn'[q] = txn[q]
      BY <1>0, <2>4 DEF TypeOK
    <3>2. CASE txn'[q] = u
      BY <2>5, <3>2 DEF Reads
    <3>3. CASE txn'[q] = txn[q]
      <4>1. PICK t \in Txn : t = txn[q]
        BY <1>0 DEF TypeOK
      <4>2. Reads(t)
        BY <4>1 DEF AgreeParts
      <4>3. Reads(t)'
        BY <2>1, <4>2, MadeSame DEF Reads, In
      <4> QED
        BY <3>3, <4>1, <4>3 DEF Reads
    <3> QED
      BY <3>1, <3>2, <3>3
  <2> QED
    BY <2>2, <2>6 DEF AgreeParts, AgreeStep
<1>3. CASE UNCHANGED vars
  <2>1. Ends({}) /\ AgreeStep({})
    BY <1>3, NothingAgrees DEF vars, Ends
  <2>2. (\A q \in Sessions : Reads(txn[q]))'
    BY <2>1, ReadsKept DEF Ends
  <2> QED
    BY <2>1, <2>2 DEF AgreeParts, AgreeStep
<1> QED
  BY <1>1, <1>2, <1>3, StepKinds

LEMMA AgreeInit == Init => AgreeInv
<1> SUFFICES ASSUME Init
             PROVE  AgreeInv
  OBVIOUS
<1>1. Agreements /\ Rests
  BY DEF Init, Agreements, Rests, Absent
<1>2. \A s \in Sessions : Reads(txn[s])
  BY IdleTxn DEF Init, Reads
<1> QED
  BY <1>1, <1>2, KeyInit DEF AgreeInv, AgreeParts

\* The engine is one for good.
LEMMA EngineStays == [Next]_vars => engine' = engine
<1> SUFFICES ASSUME [Next]_vars
             PROVE  engine' = engine
  OBVIOUS
<1>1. ASSUME NEW s \in Sessions, Begins(s)
      PROVE  engine' = engine
  BY <1>1 DEF Begins, BeginReaffirm, BeginApprove, BeginSplit, BeginSendBack, BeginRevise,
     BeginWithdraw, BeginUndo, BeginIncident, Begin
<1>2. ASSUME NEW s \in Sessions, Commits(s) \/ ReadStamp(s) \/ Rollback(s)
      PROVE  engine' = engine
  BY <1>2 DEF Commits, ReadStamp, Rollback, Reaffirm, ApproveDecision, Split,
     SendBackDecision, Revise, Withdraw, UndoBatch, RecordIncident
<1> QED
  BY <1>1, <1>2, StepKinds DEF World, MoveCode, Lapse, ClearIncident, Propose, vars

LEMMA AgreeNext == AgreeInv /\ [Next]_vars => AgreeInv'
BY KeyStep, AgreesStep, EngineStays DEF AgreeInv

\* Wherever a transaction reads one moment, a row in force rests on a standing
\* agreement to the words its decision has now (approveWhileRevised, Restamp).
THEOREM InForce == Spec => []InForceIsAgreed
<1>1. AgreeInv => InForceIsAgreed
  <2> SUFFICES ASSUME AgreeInv, engine # "statements", NEW r \in Rows, row[r].state = "approved"
               PROVE  \E a \in Standing(row[r].in) : a.rev = Len(decision[row[r].in].words)
    BY DEF InForceIsAgreed, RestsOnAnAgreement
  <2> QED
    BY DEF AgreeInv, AgreeParts, Rests, Agreements, Standing
<1> QED
  BY <1>1, AgreeInit, AgreeNext, PTL DEF Spec

\* A row that is with its author is never agreed to before it is revised.
THEOREM SentBack == Spec => SentBackIsNotAgreed
<1>1. AgreeInv /\ [Next]_vars =>
        [engine # "statements" =>
          \A r \in Rows : row[r].back /\ row[r].state = "proposed" =>
                              row'[r].state # "approved"]_vars
  BY AgreesStep DEF AgreeInv, Stays
<1> QED
  BY <1>1, AgreeInit, AgreeNext, PTL DEF Spec, SentBackIsNotAgreed

\* A row that ended stands again only under new words.
THEOREM EndedStands == Spec => EndedStandsOnlyRevised
<1>1. AgreeInv /\ [Next]_vars =>
        [engine # "statements" =>
          \A r \in Rows :
              row[r].state \in Ended /\ row'[r].state \in Live =>
                  Len(decision'[row[r].in].words) > Len(decision[row[r].in].words)]_vars
  BY AgreesStep DEF AgreeInv, Stays
<1> QED
  BY <1>1, AgreeInit, AgreeNext, PTL DEF Spec, EndedStandsOnlyRevised

----------------------------------------------------------------------------
(* Whoever agreed is another person.  A decision somebody else's words were *)
(* lent to (intoReturned) has its rows with their author until it is        *)
(* revised, so nobody agrees to words they lent.                            *)

Second(p, x) == p # x.by /\ \A i \in 1 .. Len(x.words) : p # x.words[i].by
AgreesTo(p, x) == Second(p, x) /\ p # x.words[Len(x.words)].from
Own(x) == \A i \in 2 .. Len(x.words) : x.words[i].from = x.words[i].by
Lent(x) == Len(x.words) = 1 /\ x.words[1].from # x.words[1].by

Held(r) == row[r].back /\ row[r].state # "approved"
HeldNext(r) == row'[r].back /\ row'[r].state # "approved"

Knows(t) ==
    t.pc # "idle" =>
        /\ t.act = "approve" /\ t.ids # {} =>
              \E d \in Made : t.over = {d} /\ AgreesTo(t.by, decision[d])
        /\ t.act = "reaffirm" => t.by \notin t.carry

TablesSay ==
    /\ \A a \in agreement : AgreesTo(a.by, decision[a.on])
    /\ \A d \in Made : Own(decision[d])
    /\ \A r \in Rows : row[r].in # None /\ Lent(decision[row[r].in]) => Held(r)

OthersParts == TablesSay /\ \A s \in Sessions : Knows(txn[s])

OthersInv == AgreeInv /\ (engine # "statements" => OthersParts)

LEMMA SecondIs == ASSUME NEW p, NEW d PROVE SecondPerson(p, d) <=> Second(p, decision[d])
BY DEF SecondPerson, Second, Writers

\* A step that revises nothing.
LEMMA TablesKept ==
    ASSUME KeyInv, AgreeParts, TablesSay,
           Made \subseteq Made', \A x \in Made : decision'[x] = decision[x],
           \A x \in Made' \ Made : Own(decision'[x]),
           \A a \in agreement' : a \in agreement \/ AgreesTo(a.by, decision'[a.on]),
           \A r \in Rows : \/ row'[r].in = row[r].in /\ (Held(r) => HeldNext(r))
                           \/ HeldNext(r)
                           \/ ~Lent(decision'[row'[r].in])
    PROVE  TablesSay'
<1>1. \A a \in agreement' : AgreesTo(a.by, decision'[a.on])
  <2> SUFFICES ASSUME NEW a \in agreement', a \in agreement
               PROVE  AgreesTo(a.by, decision'[a.on])
    OBVIOUS
  <2>1. decision'[a.on] = decision[a.on] /\ AgreesTo(a.by, decision[a.on])
    BY DEF AgreeParts, Agreements, TablesSay
  <2> QED
    BY <2>1
<1>2. \A d \in Made' : Own(decision'[d])
  <2> SUFFICES ASSUME NEW d \in Made
               PROVE  Own(decision'[d])
    OBVIOUS
  <2>1. decision'[d] = decision[d] /\ Own(decision[d])
    BY DEF TablesSay
  <2> QED
    BY <2>1
<1>3. ASSUME NEW r \in Rows, row'[r].in # None, Lent(decision'[row'[r].in])
      PROVE  HeldNext(r)
  <2>1. CASE row'[r].in = row[r].in /\ (Held(r) => HeldNext(r))
    <3>1. row[r].in \in Made
      BY <1>3, <2>1 DEF KeyInv, InMade
    <3>2. decision'[row'[r].in] = decision[row[r].in]
      BY <2>1, <3>1
    <3>3. Lent(decision[row[r].in])
      BY <1>3, <3>2
    <3> QED
      BY <1>3, <2>1, <3>3 DEF TablesSay
  <2> QED
    BY <1>3, <2>1
<1> QED
  BY <1>1, <1>2, <1>3 DEF TablesSay, Held, HeldNext

\* A decision made: its words are its own, or lent to rows that are held.
LEMMA SaysOwn ==
    ASSUME TypeOK, NEW d \in Decisions, NEW by \in People, NEW from \in People,
           d \notin Made, Says(d, by, from)
    PROVE  /\ Made' = Made \cup {d}
           /\ \A x \in Made : decision'[x] = decision[x]
           /\ Own(decision'[d])
           /\ by = from => ~Lent(decision'[d])
           /\ \A p \in People \ {by} : by = from => AgreesTo(p, decision'[d])
<1>1. /\ Made' = Made \cup {d}
      /\ \A x \in Made : decision'[x] = decision[x]
      /\ decision'[d] = [by |-> by, words |-> <<[by |-> by, from |-> from]>>]
  BY MadeNew, SaysWrites DEF Made
<1> DEFINE x == decision'[d]
<1>2. x.by = by /\ Len(x.words) = 1 /\ x.words[1].by = by /\ x.words[1].from = from
  BY <1>1
<1> HIDE DEF x
<1>3. Own(x) /\ (by = from => ~Lent(x))
  BY <1>2 DEF Own, Lent
<1>4. \A p \in People \ {by} : by = from => AgreesTo(p, x)
  BY <1>2 DEF AgreesTo, Second
<1> QED
  BY <1>1, <1>3, <1>4 DEF x

LEMMA ProposeTables ==
    ASSUME KeyInv, AgreeParts, OthersParts, NEW p \in People, Propose(p)
    PROVE  TablesSay'
<1>1. PICK d \in Decisions, ps \in SUBSET Places \ {{}} :
        /\ d \notin Made
        /\ Says(d, p, p)
        /\ row' = [r \in Rows |-> IF r[1] = d /\ r[2] \in ps THEN Written(d, "proposed") ELSE row[r]]
        /\ agreement' = agreement
  BY DEF Propose, Fresh
<1>2. TypeOK
  BY DEF KeyInv, ShapeInv
<1>3. /\ Made' = Made \cup {d} /\ \A x \in Made : decision'[x] = decision[x]
      /\ Own(decision'[d]) /\ ~Lent(decision'[d])
  BY <1>1, <1>2, SaysOwn
<1>4. \A r \in Rows : row'[r] = row[r] \/ row'[r].in = d
  BY <1>1 DEF Written
<1>5. \A r \in Rows : \/ row'[r].in = row[r].in /\ (Held(r) => HeldNext(r))
                      \/ HeldNext(r)
                      \/ ~Lent(decision'[row'[r].in])
  BY <1>3, <1>4 DEF Held, HeldNext
<1> QED
  BY <1>1, <1>3, <1>5, TablesKept DEF OthersParts

LEMMA ReaffirmTables ==
    ASSUME KeyInv, AgreeParts, OthersParts, NEW s \in Sessions, Reaffirm(s)
    PROVE  TablesSay'
<1> DEFINE by == txn[s].by
<1>1. PICK d, e \in Decisions, r \in Rows :
        /\ Ready(s, "reaffirm", d)
        /\ e \notin Made
        /\ Says(e, by, by)
        /\ \/ /\ row' = [row EXCEPT ![<<e, r[2]>>] = Written(e, "proposed")]
              /\ UNCHANGED agreement
           \/ \E p \in txn[s].carry :
                 /\ row' = [row EXCEPT ![<<e, r[2]>>] = Written(e, "approved")]
                 /\ agreement' = agreement \cup
                       {[on |-> e, rev |-> 1, by |-> p, carried |-> d]}
  BY DEF Reaffirm, Fresh
<1>2. /\ TypeOK /\ by \in People
      /\ txn[s].carry \subseteq People /\ by \notin txn[s].carry
  BY <1>1 DEF KeyInv, ShapeInv, TypeOK, Txn, Holds, Ready, OthersParts, Knows
<1> HIDE DEF by
<1>3. /\ Made' = Made \cup {e} /\ \A x \in Made : decision'[x] = decision[x]
      /\ Own(decision'[e]) /\ ~Lent(decision'[e])
      /\ \A p \in People \ {by} : AgreesTo(p, decision'[e])
  BY <1>1, <1>2, SaysOwn
<1>4. ASSUME NEW a \in agreement', a \notin agreement
      PROVE  AgreesTo(a.by, decision'[a.on])
  <2>1. PICK p \in txn[s].carry : a = [on |-> e, rev |-> 1, by |-> p, carried |-> d]
    BY <1>1, <1>4
  <2>2. a.by = p /\ a.on = e
    BY <2>1
  <2> QED
    BY <1>2, <1>3, <2>2
<1>5. \A q \in Rows : row'[q] = row[q] \/ row'[q].in = e
  <2>1. row \in [Rows -> Row] /\ <<e, r[2]>> \in Rows
    BY <1>2 DEF TypeOK, Rows
  <2>2. PICK state : row' = [row EXCEPT ![<<e, r[2]>>] = Written(e, state)]
    BY <1>1
  <2> QED
    BY <2>1, <2>2 DEF Written
<1>6. \A q \in Rows : \/ row'[q].in = row[q].in /\ (Held(q) => HeldNext(q))
                      \/ HeldNext(q)
                      \/ ~Lent(decision'[row'[q].in])
  BY <1>3, <1>5 DEF Held, HeldNext
<1> QED
  BY <1>3, <1>4, <1>6, TablesKept DEF OthersParts

\* Rows set aside are held by the decision their words were lent to.
LEMMA AsideTables ==
    ASSUME KeyInv, AgreeParts, OthersParts, NEW s \in Sessions, NEW d \in Decisions,
           NEW e \in Decisions \cup {None}, NEW act \in {"approve", "split"},
           Ready(s, act, d), SetsAside(d, e, txn[s]),
           NEW ids \in SUBSET Rows, row' = Moved(ids, e, txn[s].aside),
           \A r \in ids : ~row[r].back,
           \A a \in agreement' : a \in agreement \/ (a.on = d /\ AgreesTo(a.by, decision[d]))
    PROVE  TablesSay'
<1> DEFINE aside == txn[s].aside
<1>1. /\ \A x \in Made : decision'[x] = decision[x]
      /\ Made \subseteq Made' /\ d \in Made
      /\ aside \in SUBSET Argued(d)
  BY AsideLeaves DEF KeyInv
<1>2. \A x \in Made' \ Made : Own(decision'[x])
  <2>1. CASE aside = {}
    BY <2>1, AsideMade DEF KeyInv
  <2>2. CASE aside # {}
    <3> DEFINE p == decision[d].by
               f == decision[d].words[txn[s].rev].from
    <3>1. /\ e \in Decisions /\ e \notin Made
          /\ Says(e, p, f) /\ p \in People /\ f \in People
      BY <2>2, AsideMade DEF KeyInv
    <3>2. TypeOK
      BY DEF KeyInv, ShapeInv
    <3> HIDE DEF p, f
    <3>3. Made' = Made \cup {e} /\ Own(decision'[e])
      BY <3>1, <3>2, SaysOwn
    <3> QED
      BY <3>3
  <2> QED
    BY <2>1, <2>2
<1>3. \A a \in agreement' : a \in agreement \/ AgreesTo(a.by, decision'[a.on])
  BY <1>1
<1>4. ASSUME NEW r \in Rows
      PROVE  \/ row'[r].in = row[r].in /\ (Held(r) => HeldNext(r))
             \/ HeldNext(r)
  <2>1. row[r] \in Row
    BY DEF KeyInv, ShapeInv, TypeOK
  <2>2. CASE r \in aside
    <3>1. row'[r] = [row[r] EXCEPT !.in = e, !.back = TRUE] /\ row[r].state = "proposed"
      BY <1>1, <2>2 DEF Moved, Argued
    <3> QED
      BY <2>1, <3>1 DEF HeldNext, Row
  <2>3. CASE r \notin aside
    <3>1. row'[r] = row[r] \/ (~row[r].back /\ row'[r] = [row[r] EXCEPT !.state = "approved"])
      BY <2>3 DEF Moved
    <3> QED
      BY <2>1, <3>1 DEF Held, HeldNext, Row
  <2> QED
    BY <2>2, <2>3
<1> HIDE DEF aside
<1> QED
  BY <1>1, <1>2, <1>3, <1>4, TablesKept DEF OthersParts

LEMMA ApproveTables ==
    ASSUME KeyInv, AgreeParts, OthersParts, NEW s \in Sessions, ApproveDecision(s)
    PROVE  TablesSay'
<1> DEFINE t == txn[s]
<1>1. PICK d \in Decisions, e \in Decisions \cup {None} :
        /\ Ready(s, "approve", d)
        /\ SetsAside(d, e, txn[s])
        /\ row' = Moved(t.ids, e, txn[s].aside)
        /\ \/ t.ids = {} /\ UNCHANGED agreement
           \/ /\ t.ids # {}
              /\ agreement' = agreement \cup
                    {[on |-> d, rev |-> t.rev, by |-> t.by, carried |-> None]}
  BY DEF ApproveDecision
<1>2. t.ids \in SUBSET Rows /\ \A r \in t.ids : ~row[r].back
  BY <1>1, ReadyRead DEF In
<1>3. t.ids # {} => AgreesTo(t.by, decision[d])
  BY <1>1 DEF OthersParts, Knows, Ready
<1>4. ASSUME NEW a \in agreement', a \notin agreement
      PROVE  a.on = d /\ AgreesTo(a.by, decision[d])
  <2>1. a = [on |-> d, rev |-> t.rev, by |-> t.by, carried |-> None] /\ t.ids # {}
    BY <1>1, <1>4
  <2>2. a.on = d /\ a.by = t.by
    BY <2>1
  <2> QED
    BY <1>3, <2>1, <2>2
<1> DEFINE ids == t.ids
<1>5. ids \in SUBSET Rows /\ (\A r \in ids : ~row[r].back) /\ row' = Moved(ids, e, txn[s].aside)
  BY <1>1, <1>2
<1> HIDE DEF t, ids
<1> QED
  BY <1>1, <1>4, <1>5, AsideTables

LEMMA SplitTables ==
    ASSUME KeyInv, AgreeParts, OthersParts, NEW s \in Sessions, Split(s)
    PROVE  TablesSay'
<1> DEFINE ids == {}
<1>1. PICK d \in Decisions, e \in Decisions :
        /\ Ready(s, "split", d)
        /\ SetsAside(d, e, txn[s])
        /\ row' = Moved(ids, e, txn[s].aside)
        /\ agreement' = agreement
  BY DEF Split
<1>2. ids \in SUBSET Rows /\ \A r \in ids : ~row[r].back
  OBVIOUS
<1>3. e \in Decisions \cup {None}
  OBVIOUS
<1> HIDE DEF ids
<1> QED
  BY <1>1, <1>2, <1>3, AsideTables

\* A step that writes no words and moves no rows.
LEMMA QuietTables ==
    ASSUME KeyInv, AgreeParts, OthersParts, decision' = decision, agreement' \subseteq agreement,
           \A r \in Rows : row'[r].in = row[r].in /\ (Held(r) => HeldNext(r))
    PROVE  TablesSay'
<1>1. Made' = Made
  BY MadeSame
<1> QED
  BY <1>1, TablesKept DEF OthersParts

LEMMA CommitsTables ==
    ASSUME KeyInv, AgreeParts, OthersParts, NEW s \in Sessions,
           SendBackDecision(s) \/ Withdraw(s) \/ UndoBatch(s) \/ RecordIncident(s)
    PROVE  TablesSay'
<1>1. decision' = decision /\ agreement' \subseteq agreement
  BY DEF SendBackDecision, Withdraw, UndoBatch, RecordIncident
<1>2. ASSUME NEW r \in Rows
      PROVE  row'[r].in = row[r].in /\ (Held(r) => HeldNext(r))
  <2>1. row[r] \in Row
    BY DEF KeyInv, ShapeInv, TypeOK
  <2>2. CASE SendBackDecision(s)
    <3>1. row'[r] = row[r] \/ row'[r] = [row[r] EXCEPT !.back = TRUE]
      BY <2>2 DEF SendBackDecision
    <3> QED
      BY <2>1, <3>1 DEF Row, Held, HeldNext
  <2>3. CASE Withdraw(s)
    <3>1. \/ row'[r] = row[r]
          \/ row'[r] = [row[r] EXCEPT !.state = "withdrawn", !.live = FALSE, !.ended = Made]
      BY <2>3 DEF Withdraw, Finished
    <3> QED
      BY <2>1, <3>1 DEF Row, Held, HeldNext
  <2>4. CASE UndoBatch(s) \/ RecordIncident(s)
    <3>1. \/ row'[r] = row[r]
          \/ /\ row[r].state = "approved"
             /\ row'[r] = [row[r] EXCEPT !.state = "proposed", !.back = FALSE]
      BY <2>4 DEF UndoBatch, RecordIncident, ToWaiting
    <3> QED
      BY <2>1, <3>1 DEF Row, Held, HeldNext
  <2> QED
    BY <2>2, <2>3, <2>4
<1> QED
  BY <1>1, <1>2, QuietTables

LEMMA WorldTables ==
    ASSUME KeyInv, AgreeParts, OthersParts, World
    PROVE  TablesSay'
<1>1. decision' = decision /\ agreement' = agreement
  BY DEF World, MoveCode, Lapse, ClearIncident
<1>2. ASSUME NEW r \in Rows
      PROVE  row'[r].in = row[r].in /\ (Held(r) => HeldNext(r))
  <2>1. row[r] \in Row
    BY DEF KeyInv, ShapeInv, TypeOK
  <2>2. \/ row'[r] = row[r]
        \/ row'[r] = [row[r] EXCEPT !.state = "lapsed", !.live = FALSE, !.ended = Made]
    BY DEF World, MoveCode, Lapse, ClearIncident, Finished
  <2> QED
    BY <2>1, <2>2 DEF Row, Held, HeldNext
<1> QED
  BY <1>1, <1>2, QuietTables

LEMMA ReviseTables ==
    ASSUME KeyInv, AgreeParts, OthersParts, NEW s \in Sessions, Revise(s)
    PROVE  TablesSay'
<1> DEFINE ids == txn[s].ids
           w == [by |-> txn[s].by, from |-> txn[s].by]
<1>1. PICK d \in Decisions :
        /\ Ready(s, "revise", d)
        /\ decision' = [decision EXCEPT ![d].words = Append(decision[d].words, w)]
        /\ agreement' = agreement \ Standing(d)
        /\ row' = Revived(ids)
  BY DEF Revise
<1>2. d \in Made /\ ids \subseteq In(d)
  BY <1>1, ReadyRead
<1>3. w \in Word /\ w.from = w.by
  BY <1>1 DEF KeyInv, ShapeInv, Holds, Ready, Word
<1> HIDE DEF w, ids
<1> DEFINE y == decision'[d].words
           z == decision[d].words
<1>4. /\ \A q \in Decisions \ {d} : decision'[q] = decision[q]
      /\ y = Append(z, w) /\ z \in Seq(Word) /\ z # <<>>
  <2>1. decision \in [Decisions -> Decision] /\ decision[d].words \in Seq(Word)
    BY DEF KeyInv, ShapeInv, TypeOK, Decision
  <2>2. decision'[d].words = Append(decision[d].words, w)
    BY <1>1, <2>1 DEF Decision
  <2> QED
    BY <1>1, <1>2, <2>1, <2>2 DEF Made
<1>5. \A i \in 2 .. Len(z) : z[i].from = z[i].by
  BY <1>2 DEF OthersParts, TablesSay, Own
<1> HIDE DEF y, z
<1>6. Len(y) >= 2 /\ \A i \in 2 .. Len(y) : y[i].from = y[i].by
  <2>1. Len(z) \in Nat /\ Len(z) # 0 /\ Len(y) = Len(z) + 1
    BY <1>3, <1>4
  <2> SUFFICES ASSUME NEW i \in 2 .. Len(y)
               PROVE  y[i].from = y[i].by
    BY <2>1
  <2>2. CASE i = Len(z) + 1
    BY <1>3, <1>4, <2>2
  <2>3. CASE i # Len(z) + 1
    <3>1. i \in 1 .. Len(z) /\ i \in 2 .. Len(z)
      BY <2>1, <2>3
    <3>2. y[i] = z[i]
      BY <1>3, <1>4, <3>1
    <3> QED
      BY <1>5, <3>1, <3>2
  <2> QED
    BY <2>2, <2>3
<1>7. Own(decision'[d]) /\ ~Lent(decision'[d]) /\ Made' = Made
  <2>1. y # <<>>
    BY <1>6
  <2>2. decision'[d].words # <<>>
    BY <2>1 DEF y
  <2>3. Made' = Made
    BY <1>2, <1>4, <2>2 DEF Made
  <2> QED
    BY <1>6, <2>3 DEF Own, Lent, y
<1>8. \A a \in agreement' : AgreesTo(a.by, decision'[a.on])
  <2> SUFFICES ASSUME NEW a \in agreement'
               PROVE  AgreesTo(a.by, decision'[a.on])
    OBVIOUS
  <2>1. a \in agreement /\ a.on # d
    BY <1>1 DEF Standing
  <2>2. a.on \in Decisions
    BY <2>1 DEF KeyInv, ShapeInv, TypeOK, Agreement
  <2>3. decision'[a.on] = decision[a.on]
    BY <1>4, <2>1, <2>2
  <2> QED
    BY <2>1, <2>3 DEF OthersParts, TablesSay
<1>9. \A q \in Made' : Own(decision'[q])
  <2> SUFFICES ASSUME NEW q \in Made, q # d
               PROVE  Own(decision'[q])
    BY <1>7
  <2>1. decision'[q] = decision[q]
    BY <1>4 DEF Made
  <2> QED
    BY <2>1 DEF OthersParts, TablesSay
<1>10. ASSUME NEW r \in Rows, row'[r].in # None, Lent(decision'[row'[r].in])
       PROVE  HeldNext(r)
  <2>1. row[r] \in Row
    BY DEF KeyInv, ShapeInv, TypeOK
  <2>2. CASE r \in ids
    <3>1. row'[r] = [row[r] EXCEPT !.state = "proposed", !.live = TRUE, !.back = FALSE, !.ended = {}]
      BY <1>1, <2>2 DEF Revived
    <3>2. row'[r].in = d
      BY <1>2, <2>1, <2>2, <3>1 DEF Row, In
    <3> QED
      BY <1>7, <1>10, <3>2
  <2>3. CASE r \notin ids
    <3>1. row'[r] = row[r]
      BY <1>1, <2>3 DEF Revived
    <3>2. row[r].in \in Decisions /\ row[r].in # d
      BY <1>7, <1>10, <2>1, <3>1 DEF Row
    <3>3. decision'[row'[r].in] = decision[row[r].in]
      BY <1>4, <3>1, <3>2
    <3>4. Lent(decision[row[r].in])
      BY <1>10, <3>3
    <3> QED
      BY <1>10, <3>1, <3>4 DEF OthersParts, TablesSay, Held, HeldNext
  <2> QED
    BY <2>2, <2>3
<1> QED
  BY <1>8, <1>9, <1>10 DEF TablesSay, Held, HeldNext

LEMMA LastIsLater == \A n \in Nat : n # 0 /\ n # 1 => n \in 2 .. n
OBVIOUS

\* Who may agree, as the transaction finds out.
LEMMA TookKnows ==
    ASSUME KeyInv, OthersParts, NEW t \in Txn, Took(t), Permits(t)
    PROVE  Knows(Looked(t))
<1> DEFINE u == Looked(t)
<1>1. /\ Same(u, t)
      /\ u.carry = {p \in People : /\ t.act = "reaffirm"
                                   /\ \E d \in t.over : /\ p \in ToCarry(d, t.by)
                                                        /\ SecondPerson(p, d)}
  BY LookedSame
<1> HIDE DEF u
<1>2. ASSUME u.act = "reaffirm"
      PROVE  u.by \notin u.carry
  <2>1. u.by = t.by
    BY <1>1, <1>2 DEF Same
  <2>2. \A d : t.by \notin ToCarry(d, t.by)
    BY DEF ToCarry
  <2> QED
    BY <1>1, <2>1, <2>2
<1>3. ASSUME u.act = "approve", u.ids # {}
      PROVE  \E d \in Made : u.over = {d} /\ AgreesTo(u.by, decision[d])
  <2>1. t.act = "approve" /\ u.by = t.by /\ t.ids # {} /\ u.over = t.over
    BY <1>1, <1>3 DEF Same
  <2>2. PICK d \in Made : t.over = {d} /\ t.ids \subseteq Waiting(d)
    BY <2>1 DEF Took, TookOf
  <2> DEFINE x == decision[d]
  <2>3. Second(t.by, x)
    BY <2>1, <2>2, SecondIs DEF Permits
  <2>4. x.words \in Seq(Word) /\ x.words # <<>>
    BY DEF Made, KeyInv, ShapeInv, TypeOK, Decision
  <2>5. Own(x)
    BY DEF OthersParts, TablesSay
  <2>6. ~Lent(x)
    <3>1. PICK r \in t.ids : r \in Rows /\ row[r].in = d /\ ~row[r].back
      BY <2>1, <2>2 DEF Waiting, Argued, In
    <3>2. d # None
      BY ConstantFacts DEF Made
    <3> QED
      BY <3>1, <3>2 DEF OthersParts, TablesSay, Held
  <2> HIDE DEF x
  <2>7. Len(x.words) \in Nat /\ Len(x.words) # 0
    BY <2>4
  <2>8. x.words[Len(x.words)].from = x.words[Len(x.words)].by
    <3>1. CASE Len(x.words) = 1
      BY <2>6, <3>1 DEF Lent
    <3>2. CASE Len(x.words) # 1
      <4>1. PICK n \in Nat : n = Len(x.words) /\ n # 0 /\ n # 1
        BY <2>7, <3>2
      <4>2. n \in 2 .. n
        BY <4>1, LastIsLater
      <4> QED
        BY <2>5, <4>1, <4>2 DEF Own
    <3> QED
      BY <3>1, <3>2
  <2>9. AgreesTo(t.by, x)
    BY <2>3, <2>7, <2>8 DEF AgreesTo, Second
  <2> QED
    BY <2>1, <2>2, <2>9 DEF x
<1> QED
  BY <1>2, <1>3 DEF Knows, u

LEMMA OthersStep ==
    ASSUME KeyInv, engine # "statements", AgreeParts, OthersParts, [Next]_vars
    PROVE  OthersParts'
<1>0. TypeOK /\ ShapeInv
  BY DEF KeyInv, ShapeInv
<1>1. CASE \/ \E p \in People : Propose(p)
           \/ \E s \in Sessions : Commits(s)
           \/ World
  <2>1. TablesSay'
    BY <1>1, ProposeTables, ReaffirmTables, ApproveTables, SplitTables, ReviseTables,
       CommitsTables, WorldTables DEF Commits
  <2>2. PICK ds : AgreeStep(ds) /\ Ends(ds)
    BY <1>1, StepAgrees
  <2>3. ASSUME NEW q \in Sessions
        PROVE  Knows(txn[q])'
    <3>1. CASE txn'[q] = Idle
      BY <3>1, IdleTxn DEF Knows
    <3>2. CASE /\ txn'[q] = txn[q]
               /\ txn[q].pc = "ready" /\ txn[q].act \in Stamped => txn[q].over \cap ds = {}
      <4>1. PICK t \in Txn : t = txn[q]
        BY <1>0 DEF TypeOK
      <4>2. Knows(t) /\ Reads(t)
        BY <4>1 DEF AgreeParts, OthersParts
      <4>3. ASSUME t.pc # "idle", t.act = "approve", t.ids # {}
            PROVE  \E d \in Made' : t.over = {d} /\ AgreesTo(t.by, decision'[d])
        <5>1. PICK d \in Made : t.over = {d} /\ AgreesTo(t.by, decision[d])
          BY <4>2, <4>3 DEF Knows
        <5>2. d \notin ds
          BY <3>2, <4>1, <4>2, <4>3, <5>1 DEF Reads, Stamped
        <5>3. d \in Made' /\ decision'[d] = decision[d]
          BY <2>2, <5>2 DEF AgreeStep, Untouched
        <5> QED
          BY <5>1, <5>3
      <4> QED
        BY <3>2, <4>1, <4>2, <4>3 DEF Knows
    <3> QED
      BY <2>2, <3>1, <3>2 DEF Ends
  <2> QED
    BY <2>1, <2>3 DEF OthersParts
<1>2. ASSUME NEW s \in Sessions, Begins(s) \/ Rollback(s)
      PROVE  OthersParts'
  <2>1. UNCHANGED <<decision, row, agreement>>
    BY <1>0, <1>2, BeginsTook DEF Begin, Rollback
  <2>2. TablesSay'
    BY <2>1, QuietTables DEF Held, HeldNext
  <2>3. \E u \in Txn : txn' = [txn EXCEPT ![s] = u] /\ Knows(u)
    <3>1. CASE Begins(s)
      <4>1. PICK t \in Txn : Took(t) /\ Begin(s, t)
        BY <1>0, <3>1, BeginsTook
      <4>2. txn' = [txn EXCEPT ![s] = Looked(t)] /\ Permits(t)
        BY <4>1 DEF Begin
      <4> QED
        BY <4>1, <4>2, TookKnows, LookedSame
    <3>2. CASE Rollback(s)
      BY <3>2, IdleTxn DEF Rollback, Knows
    <3> QED
      BY <1>2, <3>1, <3>2
  <2>4. PICK u \in Txn : txn' = [txn EXCEPT ![s] = u] /\ Knows(u)
    BY <2>3
  <2>5. Made' = Made /\ decision' = decision
    BY <2>1, MadeSame
  <2>6. ASSUME NEW q \in Sessions
        PROVE  Knows(txn[q])'
    <3>1. PICK t \in Txn : t = txn'[q] /\ Knows(t)
      <4>1. txn'[q] = u \/ (txn'[q] = txn[q] /\ txn[q] \in Txn)
        BY <1>0, <2>4 DEF TypeOK
      <4> QED
        BY <2>4, <4>1 DEF OthersParts
    <3> QED
      BY <2>5, <3>1 DEF Knows
  <2> QED
    BY <2>2, <2>6 DEF OthersParts
<1>3. ASSUME NEW s \in Sessions, ReadStamp(s)
      PROVE  FALSE
  BY <1>3 DEF ReadStamp, AgreeParts, Reads
<1>4. CASE UNCHANGED vars
  <2>1. TablesSay'
    BY <1>4, QuietTables DEF vars, Held, HeldNext
  <2>2. Made' = Made /\ decision' = decision /\ txn' = txn
    BY <1>4, MadeSame DEF vars
  <2>3. (\A q \in Sessions : Knows(txn[q]))'
    BY <2>2 DEF OthersParts, Knows
  <2> QED
    BY <2>1, <2>3 DEF OthersParts
<1> QED
  BY <1>1, <1>2, <1>3, <1>4, StepKinds

\* Wherever a transaction reads one moment, whoever's agreement a row in force
\* rests on is another than whoever proposed it, than everybody the record names
\* for its words, and than whoever wrote the words agreed to (secondPerson,
\* intoReturned, approvalToCarry).
THEOREM ByAnother == Spec => []AgreedByAnother
<1>1. Init => OthersInv
  <2> SUFFICES ASSUME Init
               PROVE  OthersInv
    OBVIOUS
  <2>1. TablesSay
    BY DEF Init, TablesSay, Made, Unmade, Absent
  <2>2. \A s \in Sessions : Knows(txn[s])
    BY IdleTxn DEF Init, Knows
  <2> QED
    BY <2>1, <2>2, AgreeInit DEF OthersInv, OthersParts
<1>2. OthersInv /\ [Next]_vars => OthersInv'
  <2> SUFFICES ASSUME OthersInv, [Next]_vars
               PROVE  OthersInv'
    OBVIOUS
  <2>1. AgreeInv' /\ engine' = engine
    BY AgreeNext, EngineStays DEF OthersInv
  <2>2. CASE engine # "statements"
    BY <2>1, <2>2, OthersStep DEF OthersInv, AgreeInv
  <2> QED
    BY <2>1, <2>2 DEF OthersInv
<1>3. OthersInv => AgreedByAnother
  <2> SUFFICES ASSUME OthersInv, engine # "statements", NEW r \in Rows,
                      NEW a \in Standing(row[r].in)
               PROVE  LET d == decision[row[r].in] IN
                      /\ a.by # d.by
                      /\ \A i \in DOMAIN d.words : a.by # d.words[i].by
                      /\ a.by # d.words[a.rev].from
    BY DEF AgreedByAnother
  <2> DEFINE d == decision[row[r].in]
  <2>1. a \in agreement /\ a.on = row[r].in
    BY DEF Standing
  <2>2. a.rev = Len(d.words) /\ AgreesTo(a.by, d)
    BY <2>1 DEF OthersInv, AgreeInv, AgreeParts, Agreements, OthersParts, TablesSay
  <2>3. a.on \in Decisions
    BY <2>1 DEF OthersInv, AgreeInv, KeyInv, ShapeInv, TypeOK, Agreement
  <2>4. d.words \in Seq(Word)
    BY <2>1, <2>3 DEF OthersInv, AgreeInv, KeyInv, ShapeInv, TypeOK, Decision
  <2>5. DOMAIN d.words = 1 .. Len(d.words)
    BY <2>4
  <2> QED
    BY <2>2, <2>5 DEF AgreesTo, Second
<1> QED
  BY <1>1, <1>2, <1>3, PTL DEF Spec

----------------------------------------------------------------------------
(* The record of having been exploited, where a transaction has the        *)
(* database to itself.                                                      *)

Alone == \A s, q \in Sessions : txn[s].pc # "idle" /\ txn[q].pc # "idle" => s = q

\* What a transaction was told, and nobody has changed since.
Told(t) ==
    t.pc # "idle" =>
        /\ t.act = "approve" /\ incident => t.ids = {}
        /\ t.act = "reaffirm" => ~incident
        /\ t.act = "incident" => t.over = Contradicted

SerialParts == Alone /\ (\A s \in Sessions : Told(txn[s])) /\ NotExploitedAndDismissed

SerialInv == AgreeInv /\ (engine = "serial" => SerialParts)

NoneEnters == \A r \in Rows : row'[r].state = "approved" => row[r].state = "approved"

\* Only an agreement and one carried over bring a row into force.
LEMMA OthersEnterNone ==
    ASSUME KeyInv, NEW s \in Sessions,
           Split(s) \/ SendBackDecision(s) \/ Revise(s) \/ Withdraw(s) \/ UndoBatch(s)
    PROVE  NoneEnters
<1> SUFFICES ASSUME NEW r \in Rows, row'[r].state = "approved"
             PROVE  row[r].state = "approved"
  BY DEF NoneEnters
<1>1. row[r] \in Row
  BY DEF KeyInv, ShapeInv, TypeOK
<1>2. CASE Split(s)
  <2>1. PICK e : row' = Moved({}, e, txn[s].aside)
    BY <1>2 DEF Split
  <2>2. \/ row'[r] = row[r]
        \/ row'[r] = [row[r] EXCEPT !.in = e, !.back = TRUE]
    BY <2>1 DEF Moved
  <2> QED
    BY <1>1, <2>2 DEF Row
<1>3. CASE SendBackDecision(s)
  <2>1. row'[r] = row[r] \/ row'[r] = [row[r] EXCEPT !.back = TRUE]
    BY <1>3 DEF SendBackDecision
  <2> QED
    BY <1>1, <2>1 DEF Row
<1>4. CASE Revise(s)
  <2>1. \/ row'[r] = row[r]
        \/ row'[r] = [row[r] EXCEPT !.state = "proposed", !.live = TRUE, !.back = FALSE, !.ended = {}]
    BY <1>4 DEF Revise, Revived
  <2> QED
    BY <1>1, <2>1 DEF Row
<1>5. CASE Withdraw(s)
  <2>1. \/ row'[r] = row[r]
        \/ row'[r] = [row[r] EXCEPT !.state = "withdrawn", !.live = FALSE, !.ended = Made]
    BY <1>5 DEF Withdraw, Finished
  <2> QED
    BY <1>1, <2>1 DEF Row
<1>6. CASE UndoBatch(s)
  <2>1. \/ row'[r] = row[r]
        \/ row'[r] = [row[r] EXCEPT !.state = "proposed", !.back = FALSE]
    BY <1>6 DEF UndoBatch, ToWaiting
  <2> QED
    BY <1>1, <2>1 DEF Row
<1> QED
  BY <1>2, <1>3, <1>4, <1>5, <1>6

LEMMA WorldEntersNone ==
    ASSUME KeyInv, World \/ \E p \in People : Propose(p)
    PROVE  NoneEnters
<1> SUFFICES ASSUME NEW r \in Rows, row'[r].state = "approved"
             PROVE  row[r].state = "approved"
  BY DEF NoneEnters
<1>1. row[r] \in Row
  BY DEF KeyInv, ShapeInv, TypeOK
<1>2. CASE World
  <2>1. \/ row'[r] = row[r]
        \/ row'[r] = [row[r] EXCEPT !.state = "lapsed", !.live = FALSE, !.ended = Made]
    BY <1>2 DEF World, MoveCode, Lapse, ClearIncident, Finished
  <2> QED
    BY <1>1, <2>1 DEF Row
<1>3. CASE \E p \in People : Propose(p)
  <2>1. row'[r] = row[r] \/ row'[r].state = "proposed"
    BY <1>3 DEF Propose, Written
  <2> QED
    BY <2>1
<1> QED
  BY <1>2, <1>3

\* A commit takes its transaction away, and one alone leaves none.
LEMMA CommitsEnd == ASSUME ShapeInv, NEW s \in Sessions, Commits(s) PROVE txn'[s] = Idle
<1>1. txn \in [Sessions -> Txn]
  BY DEF ShapeInv, TypeOK
<1>2. CASE \E ds : Restamped(s, ds)
  BY <1>2 DEF Restamped
<1>3. CASE txn' = [txn EXCEPT ![s] = Idle]
  BY <1>1, <1>3
<1> QED
  BY <1>2, <1>3 DEF Commits, Reaffirm, ApproveDecision, Split, SendBackDecision, Revise,
     Withdraw, UndoBatch, RecordIncident

\* What an incident withdraws is everything in force.
LEMMA IncidentClears ==
    ASSUME KeyInv, AgreeParts, SerialParts, NEW s \in Sessions, RecordIncident(s)
    PROVE  NotExploitedAndDismissed'
<1> SUFFICES ASSUME NEW r \in Rows
             PROVE  row'[r].state # "approved"
  BY DEF NotExploitedAndDismissed
<1> DEFINE over == txn[s].over
<1>1. /\ over = Contradicted
      /\ \A a \in agreement' : a.on \notin over
      /\ row' = ToWaiting(over, agreement')
  BY DEF RecordIncident, SerialParts, Told
<1>2. row[r].state = "approved" => row[r].in \in Contradicted
  <2> SUFFICES ASSUME row[r].state = "approved"
               PROVE  row[r].in \in Contradicted
    OBVIOUS
  <2>1. row[r].live
    BY DEF KeyInv, Keyed, Live
  <2>2. row[r].in # None /\ row[r].in \in Decisions
    BY DEF KeyInv, ShapeInv, TypeOK, Row
  <2>3. Standing(row[r].in) # {}
    BY DEF AgreeParts, Rests
  <2> QED
    BY <2>1, <2>2, <2>3 DEF Contradicted, In
<1> HIDE DEF over
<1>3. row[r] \in Row
  BY DEF KeyInv, ShapeInv, TypeOK
<1>4. CASE row[r].state = "approved"
  <2>1. row'[r] = [row[r] EXCEPT !.state = "proposed", !.back = FALSE]
    BY <1>1, <1>2, <1>4 DEF ToWaiting
  <2> QED
    BY <1>3, <2>1 DEF Row
<1>5. CASE row[r].state # "approved"
  BY <1>1, <1>5 DEF ToWaiting
<1> QED
  BY <1>4, <1>5

LEMMA CommitsNotBoth ==
    ASSUME KeyInv, AgreeParts, SerialParts, NEW s \in Sessions, Commits(s)
    PROVE  NotExploitedAndDismissed'
<1>1. CASE RecordIncident(s)
  BY <1>1, IncidentClears
<1>2. CASE Reaffirm(s)
  <2>1. ~incident /\ incident' = incident
    BY <1>2 DEF Reaffirm, Ready, SerialParts, Told
  <2> QED
    BY <2>1 DEF NotExploitedAndDismissed
<1>3. CASE ApproveDecision(s)
  <2>1. incident' = incident /\ (incident => txn[s].ids = {})
    BY <1>3 DEF ApproveDecision, Ready, SerialParts, Told
  <2> SUFFICES ASSUME incident, NEW r \in Rows
               PROVE  row'[r].state # "approved"
    BY <2>1 DEF NotExploitedAndDismissed
  <2>2. row[r] \in Row /\ row[r].state # "approved"
    BY DEF KeyInv, ShapeInv, TypeOK, SerialParts, NotExploitedAndDismissed
  <2>3. PICK e : row' = Moved(txn[s].ids, e, txn[s].aside)
    BY <1>3 DEF ApproveDecision
  <2>4. row'[r] = row[r] \/ row'[r] = [row[r] EXCEPT !.in = e, !.back = TRUE]
    BY <2>1, <2>3 DEF Moved
  <2> QED
    BY <2>2, <2>4 DEF Row
<1>4. CASE Split(s) \/ SendBackDecision(s) \/ Revise(s) \/ Withdraw(s) \/ UndoBatch(s)
  <2>1. NoneEnters
    BY <1>4, OthersEnterNone
  <2>2. incident' = incident
    BY <1>4 DEF Split, SendBackDecision, Revise, Withdraw, UndoBatch
  <2> QED
    BY <2>1, <2>2 DEF NoneEnters, SerialParts, NotExploitedAndDismissed
<1> QED
  BY <1>1, <1>2, <1>3, <1>4 DEF Commits

\* What a transaction is told as it begins.
LEMMA TookTold ==
    ASSUME NEW t \in Txn, Took(t), Permits(t)
    PROVE  Told(Looked(t))
<1> DEFINE u == Looked(t)
<1>1. Same(u, t)
  BY LookedSame
<1> HIDE DEF u
<1>2. CASE \E d \in Made : TookOf(t, d)
  BY <1>1, <1>2 DEF TookOf, Permits, Told, Same, u
<1>3. CASE ~ \E d \in Made : TookOf(t, d)
  BY <1>1, <1>3 DEF Took, Permits, Told, Same, u
<1> QED
  BY <1>2, <1>3

LEMMA SerialStep ==
    ASSUME AgreeInv, engine = "serial", SerialParts, [Next]_vars
    PROVE  SerialParts'
<1>0. /\ TypeOK /\ ShapeInv /\ KeyInv /\ AgreeParts
      /\ \A s \in Sessions : txn[s] \in Txn
  BY DEF AgreeInv, KeyInv, ShapeInv, TypeOK
<1>1. ASSUME \A s \in Sessions : txn'[s].pc = "idle", NotExploitedAndDismissed'
      PROVE  SerialParts'
  BY <1>1 DEF SerialParts, Alone, Told
<1>2. ASSUME NEW s \in Sessions, Commits(s) \/ Rollback(s)
      PROVE  SerialParts'
  <2>1. Kept /\ txn'[s] = Idle
    BY <1>0, <1>2, CommitsKeep, CommitsEnd, EndedKeeps DEF Rollback, TypeOK
  <2>2. txn[s].pc # "idle"
    BY <1>2 DEF Commits, Rollback, Reaffirm, ApproveDecision, Split, SendBackDecision,
       Revise, Withdraw, UndoBatch, RecordIncident, Ready
  <2>3. \A q \in Sessions : txn'[q].pc = "idle"
    BY <2>1, <2>2, IdleTxn DEF Kept, SerialParts, Alone
  <2>4. NotExploitedAndDismissed'
    BY <1>0, <1>2, CommitsNotBoth DEF Rollback, SerialParts, NotExploitedAndDismissed
  <2> QED
    BY <1>1, <2>3, <2>4
<1>3. CASE World \/ \E p \in People : Propose(p)
  <2>1. Free /\ txn' = txn /\ (incident' = incident \/ incident' = FALSE)
    BY <1>3 DEF World, MoveCode, Lapse, ClearIncident, Propose
  <2>2. \A q \in Sessions : txn'[q].pc = "idle"
    BY <2>1 DEF Free
  <2>3. NoneEnters
    BY <1>0, <1>3, WorldEntersNone
  <2>4. NotExploitedAndDismissed'
    BY <2>1, <2>3 DEF NoneEnters, SerialParts, NotExploitedAndDismissed
  <2> QED
    BY <1>1, <2>2, <2>4
<1>4. ASSUME NEW s \in Sessions, Begins(s)
      PROVE  SerialParts'
  <2>1. PICK t \in Txn : Took(t) /\ Begin(s, t)
    BY <1>0, <1>4, BeginsTook
  <2>2. /\ Free /\ Permits(t) /\ txn' = [txn EXCEPT ![s] = Looked(t)]
        /\ UNCHANGED <<engine, decision, row, agreement, incident, code>>
    BY <2>1 DEF Begin
  <2>3. PICK u \in Txn : u = Looked(t)
    BY LookedSame
  <2>4. Told(u)
    BY <2>1, <2>2, <2>3, TookTold
  <2>5. Told(u)'
    BY <2>2, <2>4 DEF Told, Contradicted, Standing, In
  <2>6. /\ txn'[s] = u
        /\ \A q \in Sessions \ {s} : txn'[q] = txn[q] /\ txn[q].pc = "idle"
    BY <1>0, <2>2, <2>3 DEF TypeOK, Free
  <2>7. Alone'
    BY <2>6 DEF Alone
  <2>8. \A q \in Sessions : Told(txn[q])'
    BY <2>5, <2>6 DEF Told
  <2>9. NotExploitedAndDismissed'
    BY <2>2 DEF SerialParts, NotExploitedAndDismissed
  <2> QED
    BY <2>7, <2>8, <2>9 DEF SerialParts
<1>5. ASSUME NEW s \in Sessions, ReadStamp(s)
      PROVE  FALSE
  BY <1>0, <1>5 DEF ReadStamp, AgreeParts, Reads
<1>6. CASE UNCHANGED vars
  BY <1>6 DEF vars, SerialParts, Alone, Told, NotExploitedAndDismissed, Contradicted, Standing, In
<1> QED
  BY <1>2, <1>3, <1>4, <1>5, <1>6, StepKinds

\* Where a transaction has the database to itself, no product reads as
\* exploited and as dismissed at once (refuseIfIncidentOn at the agreement, and
\* RecordIncident withdrawing what it contradicts).
THEOREM KeepsTheRecord == Spec => []SerialKeepsTheRecord
<1>1. Init => SerialInv
  <2> SUFFICES ASSUME Init
               PROVE  SerialInv
    OBVIOUS
  <2>1. \A s \in Sessions : txn[s].pc = "idle"
    BY IdleTxn DEF Init
  <2>2. SerialParts
    BY <2>1 DEF Init, SerialParts, Alone, Told, NotExploitedAndDismissed
  <2> QED
    BY <2>2, AgreeInit DEF SerialInv
<1>2. SerialInv /\ [Next]_vars => SerialInv'
  BY AgreeNext, EngineStays, SerialStep DEF SerialInv
<1>3. SerialInv => SerialKeepsTheRecord
  BY DEF SerialInv, SerialParts, SerialKeepsTheRecord
<1> QED
  BY <1>1, <1>2, <1>3, PTL DEF Spec
=============================================================================
