----------------------------- MODULE NotifyProofs -----------------------------
(***************************************************************************)
(* What holds of Notify for any number of people, of replicas that sweep   *)
(* and of replicas that carry, overlapping as they may.  The inductive     *)
(* invariant says of every row that while it is open nothing was said of   *)
(* its end, and of every cycle that the rows it goes on are in the table.  *)
(* That nobody sends beside a request needs one replica that sweeps, and   *)
(* an invariant of its own, from TimesInv on; that an opening is said once *)
(* needs one that carries too, and a count of what was said (CountInv).    *)
(***************************************************************************)
EXTENDS Notify, SequenceTheorems, FiniteSetTheorems, TLAPS

USE NotifyAssumption

----------------------------------------------------------------------------
(* The rows. *)

\* A row that is open has not been said to have ended, and one that is not, once.
GoodRow == {x \in Row : IF x.cleared = 0 THEN x.ended = 0 ELSE x.ended <= 1}

RowsInv == row \in Seq(GoodRow)

LEMMA RowTypes ==
    ASSUME RowsInv
    PROVE  /\ row \in Seq(Row)
           /\ Len(row) \in Nat
           /\ Ids = 1 .. Len(row)
           /\ \A r \in Ids : row[r] \in GoodRow /\ row[r] \in Row
<1>1. Len(row) \in Nat /\ Ids = 1 .. Len(row) /\ \A r \in Ids : row[r] \in GoodRow
    BY DEF RowsInv, Ids
<1>2. \A r \in Ids : row[r] \in Row
    BY <1>1 DEF GoodRow
<1>3. row = [r \in 1 .. Len(row) |-> row[r]]
    BY <1>1 DEF RowsInv
<1>4. row \in Seq(Row)
    BY <1>1, <1>2, <1>3, SeqDef
<1> QED BY <1>1, <1>2, <1>4

\* Rows each changed to a good one make good rows.
LEMMA ChangedRows ==
    ASSUME RowsInv, NEW new, new = [r \in Ids |-> new[r]], \A r \in Ids : new[r] \in GoodRow
    PROVE  new \in Seq(GoodRow)
<1>1. Len(row) \in Nat /\ Ids = 1 .. Len(row)
    BY RowTypes
<1> QED BY <1>1, SeqDef

\* A request that is received leaves good rows, in the same places.
LEMMA HeardRows ==
    ASSUME RowsInv, NEW q, Heard(q)
    PROVE  RowsInv' /\ Ids' = Ids
<1>1. row' = [row EXCEPT ![q].told = @ + 1]
    BY DEF Heard
<1>2. row' = [r \in Ids |-> row'[r]] /\ DOMAIN row' = Ids
    BY <1>1 DEF Ids, RowsInv
<1>3. ASSUME NEW r \in Ids PROVE row'[r] \in GoodRow
    <2>1. row[r] \in GoodRow
        BY RowTypes
    <2>2. CASE r = q
        <3>1. row'[r] = [row[r] EXCEPT !.told = @ + 1]
            BY <1>1, <2>2, RowTypes DEF RowsInv, Ids
        <3> QED BY <2>1, <3>1 DEF GoodRow, Row
    <2>3. CASE r # q
        <3>1. row'[r] = row[r]
            BY <1>1, <2>3, RowTypes DEF RowsInv, Ids
        <3> QED BY <2>1, <3>1
    <2> QED BY <2>2, <2>3
<1>4. row' \in Seq(GoodRow)
    BY <1>2, <1>3, ChangedRows
<1> QED BY <1>2, <1>4 DEF RowsInv, Ids

\* What a sweep about to write knows: for whom, and when it read.
Ready(s) == s.pc = "write" => s.of \in People /\ s.at # 0

WatchInv == watch \in [Watchers -> Sweep] /\ \A w \in Watchers : Ready(watch[w])

LEMMA ClearedRow ==
    ASSUME NEW x \in Row, x.ended = 0, NEW at \in Nat \ {0}, NEW said \in BOOLEAN, NEW y,
           y = [x EXCEPT !.cleared = at, !.ended = IF said THEN @ + 1 ELSE @]
    PROVE  y \in GoodRow
<1> DEFINE ended == IF said THEN 1 ELSE 0
<1>1. y = [x EXCEPT !.cleared = at, !.ended = ended]
    OBVIOUS
<1>2. ended \in Nat /\ ended <= 1
    OBVIOUS
<1> HIDE DEF ended
<1>3. y \in Row /\ y.cleared = at /\ y.ended = ended
    BY <1>1, <1>2 DEF Row
<1> QED BY <1>2, <1>3 DEF GoodRow

\* A reconcile's write clears what is open, says once that it ended, and opens.
LEMMA WrittenRows ==
    ASSUME RowsInv, WatchInv, NEW w \in Watchers, Writes(w)
    PROVE  RowsInv' /\ Ids \subseteq Ids'
<1> DEFINE s == watch[w]
           old == [r \in Ids |-> IF r \in Clears(s.stopped) THEN Cleared(s, r) ELSE row[r]]
<1>1. s \in Sweep /\ s.of \in People /\ s.at \in Nat \ {0} /\ s.recovered \in BOOLEAN
    BY DEF WatchInv, Ready, Writes, Sweep
<1>2. ASSUME NEW r \in Ids PROVE old[r] \in GoodRow
    <2>1. row[r] \in GoodRow
        BY RowTypes
    <2>2. CASE r \in Clears(s.stopped)
        <3>1. row[r].cleared = 0 /\ row[r].ended = 0
            BY <2>1, <2>2 DEF Clears, Open, GoodRow
        <3>2. /\ row[r] \in Row
              /\ old[r] = [row[r] EXCEPT !.cleared = s.at,
                                         !.ended = IF s.recovered THEN @ + 1 ELSE @]
            BY <2>2, RowTypes DEF Cleared
        <3> HIDE DEF old
        <3> QED BY <1>1, <3>1, <3>2, ClearedRow
    <2>3. CASE r \notin Clears(s.stopped)
        BY <2>1, <2>3
    <2> QED BY <2>2, <2>3
<1>3. old \in Seq(GoodRow)
    <2>1. old = [r \in Ids |-> old[r]]
        OBVIOUS
    <2> QED BY <1>2, <2>1, ChangedRows
<1>4. Opened(s) \in GoodRow
    BY <1>1 DEF Opened, GoodRow, Row
<1>5. row' = old \/ row' = Append(old, Opened(s))
    BY DEF Writes
<1>6. DOMAIN old = Ids /\ Len(old) \in Nat /\ DOMAIN old = 1 .. Len(old)
    BY <1>3
<1>7. CASE row' = old
    BY <1>3, <1>6, <1>7 DEF RowsInv, Ids
<1>8. CASE row' = Append(old, Opened(s))
    <2> HIDE DEF old
    <2>1. row' \in Seq(GoodRow) /\ Len(row') = Len(old) + 1
        BY <1>3, <1>4, <1>8, AppendProperties
    <2>2. DOMAIN row' = 1 .. Len(row')
        BY <2>1
    <2> QED BY <1>6, <2>1, <2>2 DEF RowsInv, Ids
<1> QED BY <1>5, <1>7, <1>8

----------------------------------------------------------------------------
(* The sweeps. *)

SweptType == Swept \in Sweep /\ Ready(Swept)

LEMMA SweptIsReady == SweptType
BY DEF SweptType, Swept, Sweep, Ready

LEMMA SweepTypes ==
    ASSUME NEW s \in Sweep, NEW todo \in SUBSET People, NEW wanted \in SUBSET People,
           NEW recovered \in BOOLEAN
    PROVE  /\ [s EXCEPT !.todo = todo] \in Sweep
           /\ [Swept EXCEPT !.wanted = wanted, !.todo = todo, !.recovered = recovered] \in Sweep
           /\ [Swept EXCEPT !.wanted = wanted, !.recovered = recovered, !.todo = todo] \in Sweep
BY DEF Sweep, Swept

LEMMA WatchStep ==
    ASSUME RowsInv, WatchInv, now \in Nat, hearing \subseteq People, [NotifyNext]_notifyVars
    PROVE  WatchInv' /\ now' \in Nat
<1> SUFFICES ASSUME NotifyNext PROVE WatchInv' /\ now' \in Nat
    BY DEF WatchInv, notifyVars
\* A sweep is left ready by whatever leaves it so.
<1>1. ASSUME NEW w \in Watchers, NEW s \in Sweep, Ready(s), Sweeps(w, s), now' \in Nat
      PROVE  WatchInv' /\ now' \in Nat
    BY <1>1 DEF WatchInv, Sweeps, Ready
<1>2. ASSUME NEW w \in Watchers, Derive(w) PROVE WatchInv' /\ now' \in Nat
    <2> DEFINE todo == Wanted \cup {x \in People : OpenFor(x) # {}}
               s == [Swept EXCEPT !.wanted = Wanted, !.todo = todo,
                                  !.recovered = ~failing /\ hearing # {}]
    <2>1. Wanted \in SUBSET People /\ todo \in SUBSET People
          /\ (~failing /\ hearing # {}) \in BOOLEAN
        BY DEF Wanted
    <2>2. s.pc = "people"
        BY DEF Swept
    <2>3. s \in Sweep
        <3> HIDE DEF todo
        <3> QED BY <2>1, SweptIsReady, SweepTypes DEF SweptType
    <2>4. Sweeps(w, s) /\ now' = now
        BY <1>2 DEF Derive
    <2> HIDE DEF s
    <2> QED BY <1>1, <2>2, <2>3, <2>4 DEF Ready
<1>3. ASSUME NEW w \in Watchers, NEW x \in People, Reads(w, x) PROVE WatchInv' /\ now' \in Nat
    <2>1. watch[w] \in Sweep /\ watch[w].pc = "people"
        BY <1>3 DEF WatchInv, Reads
    <2>2. CASE Sweeps(w, Swept) /\ now' = now
        BY <1>1, <2>2, SweptIsReady DEF SweptType
    <2>3. CASE Sweeps(w, [watch[w] EXCEPT !.todo = @ \ {x}]) /\ now' = now
        <3> DEFINE s == [watch[w] EXCEPT !.todo = watch[w].todo \ {x}]
        <3>1. watch[w].todo \ {x} \in SUBSET People
            BY <2>1 DEF Sweep
        <3>2. s \in Sweep
            BY <2>1, <3>1, SweepTypes
        <3>3. s.pc = "people" /\ Sweeps(w, s)
            BY <2>1, <2>3 DEF Sweep
        <3> HIDE DEF s
        <3> QED BY <1>1, <2>3, <3>2, <3>3 DEF Ready
    <2>4. CASE now' = now + 1 /\
               \E stopped \in SUBSET Nat, opens \in BOOLEAN :
                  Sweeps(w, [watch[w] EXCEPT !.pc = "write", !.of = x, !.stopped = stopped,
                                             !.opens = opens, !.at = now + 1])
        <3>1. PICK stopped \in SUBSET Nat, opens \in BOOLEAN :
                  Sweeps(w, [watch[w] EXCEPT !.pc = "write", !.of = x, !.stopped = stopped,
                                             !.opens = opens, !.at = now + 1])
            BY <2>4
        <3> DEFINE s == [watch[w] EXCEPT !.pc = "write", !.of = x, !.stopped = stopped,
                                         !.opens = opens, !.at = now + 1]
        <3>2. s \in Sweep /\ s.of = x /\ s.at = now + 1
            <4>1. now + 1 \in Nat /\ watch[w] \in Sweep /\ stopped \in SUBSET Nat /\ opens \in BOOLEAN
                BY <2>1, <3>1
            <4>2. s = [watch[w] EXCEPT !.pc = "write", !.of = x, !.stopped = stopped,
                                       !.opens = opens, !.at = now + 1]
                OBVIOUS
            <4> HIDE DEF s
            <4> QED BY <4>1, <4>2 DEF Sweep
        <3>3. Sweeps(w, s)
            BY <3>1
        <3> HIDE DEF s
        <3> QED BY <1>1, <2>4, <3>2, <3>3 DEF Ready
    <2>5. OpenFor(x) \in SUBSET Nat
        BY RowTypes DEF OpenFor
    <2> QED BY <1>3, <2>2, <2>3, <2>4, <2>5 DEF Reads
<1>4. ASSUME NEW w \in Watchers, Writes(w) PROVE WatchInv' /\ now' \in Nat
    <2>1. watch[w] \in Sweep /\ now' = now
        BY <1>4 DEF WatchInv, Writes
    <2>2. CASE Sweeps(w, Swept)
        BY <1>1, <2>1, <2>2, SweptIsReady DEF SweptType
    <2>3. CASE Sweeps(w, [Swept EXCEPT !.wanted = watch[w].wanted, !.recovered = watch[w].recovered,
                                       !.todo = watch[w].todo \ {watch[w].of}])
        <3> DEFINE s == [Swept EXCEPT !.wanted = watch[w].wanted,
                                      !.recovered = watch[w].recovered,
                                      !.todo = watch[w].todo \ {watch[w].of}]
        <3>1. /\ watch[w].wanted \in SUBSET People /\ watch[w].recovered \in BOOLEAN
              /\ watch[w].todo \ {watch[w].of} \in SUBSET People
            BY <2>1 DEF Sweep
        <3>2. s \in Sweep
            BY <3>1, SweptIsReady, SweepTypes DEF SweptType
        <3>3. s.pc = "people" /\ Sweeps(w, s)
            BY <2>3 DEF Swept
        <3> HIDE DEF s
        <3> QED BY <1>1, <2>1, <3>2, <3>3 DEF Ready
    <2> QED BY <1>4, <2>2, <2>3 DEF Writes
<1>5. ASSUME NEW w \in Watchers, SweepStops(w) PROVE WatchInv' /\ now' \in Nat
    BY <1>1, <1>5, SweptIsReady DEF SweptType, SweepStops
<1>6. CASE UNCHANGED <<watch, now>>
    BY <1>6 DEF WatchInv
<1>7. ASSUME NEW p \in Carriers, Carrying(p) \/ Mishaps(p) PROVE UNCHANGED <<watch, now>>
    BY <1>7 DEF Carrying, Begins, Stakes, ReadsPrior, WalkStep, WalkEnds, Hands, Retakes, Again,
                Received, Refused, Settles, Mishaps, Overtakes, AnswerLost, SettleLost, CycleStops
<1>8. ASSUME \/ Turns \/ \E x \in People : Concerns(x)
             \/ Overdue
      PROVE  UNCHANGED <<watch, now>>
    BY <1>8 DEF Turns, Concerns, Overdue
<1> QED BY <1>2, <1>3, <1>4, <1>5, <1>6, <1>7, <1>8 DEF NotifyNext, Watching

----------------------------------------------------------------------------
(* The cycles. *)

InTable(r) == r = 0 \/ r \in Ids

\* The rows a cycle goes on are in the table, and it tries again only what may be.
GoodCycle(c) ==
    /\ c \in Cycle
    /\ c.todo \subseteq Ids
    /\ InTable(c.row) /\ InTable(c.held.row) /\ InTable(c.prior)
    /\ c.pc = "prior" => c.held.row # 0
    /\ c.pc = "again" => c.held.attempts < Tries

DeliveryInv == delivery \in Delivery /\ InTable(delivery.row)

CarryInv == carry \in [Carriers -> Cycle] /\ \A p \in Carriers : GoodCycle(carry[p])

LEMMA GoodWaits ==
    ASSUME RowsInv
    PROVE  /\ GoodCycle(Waits)
           /\ \A t \in SUBSET Ids : GoodCycle([Waits EXCEPT !.pc = "next", !.todo = t])
<1>1. NoDelivery \in Delivery /\ NoDelivery.row = 0
    BY DEF NoDelivery, Delivery
<1>2. Ids \subseteq Nat
    BY RowTypes
<1>3. Waits \in Cycle
    BY <1>1 DEF Waits, Cycle
<1>4. GoodCycle(Waits)
    BY <1>1, <1>3 DEF GoodCycle, Waits, InTable
<1>5. ASSUME NEW t \in SUBSET Ids PROVE GoodCycle([Waits EXCEPT !.pc = "next", !.todo = t])
    <2> DEFINE c == [Waits EXCEPT !.pc = "next", !.todo = t]
    <2>1. c \in Cycle
        BY <1>2, <1>3 DEF Cycle
    <2>2. c.pc = "next" /\ c.todo = t /\ c.row = 0 /\ c.held = NoDelivery /\ c.prior = 0
        BY DEF Waits
    <2> HIDE DEF c
    <2>3. GoodCycle(c)
        BY <1>1, <2>1, <2>2 DEF GoodCycle, InTable
    <2> QED BY <2>3 DEF c
<1> QED BY <1>4, <1>5

LEMMA GoodOnward ==
    ASSUME RowsInv, NEW c, GoodCycle(c)
    PROVE  GoodCycle(Onward(c))
<1>1. c.todo \ {c.row} \in SUBSET Ids
    BY DEF GoodCycle
<1> QED BY <1>1, GoodWaits DEF Onward

LEMMA GoodJudged ==
    ASSUME RowsInv, NEW c, GoodCycle(c)
    PROVE  GoodCycle(Judged(c))
<1>1. CASE Judged(c) = Onward(c)
    BY <1>1, GoodOnward
<1>2. CASE Judged(c) = [c EXCEPT !.pc = "again"] /\ ~(c.held.attempts >= Tries)
    <2> DEFINE d == [c EXCEPT !.pc = "again"]
    <2>1. d \in Cycle /\ d.pc = "again" /\ d.todo = c.todo /\ d.row = c.row
          /\ d.held = c.held /\ d.prior = c.prior
        BY DEF GoodCycle, Cycle
    <2>2. c.held.attempts \in Nat /\ c.held.attempts < Tries
        BY <1>2 DEF GoodCycle, Cycle, Delivery
    <2> HIDE DEF d
    <2>3. GoodCycle(d)
        BY <2>1, <2>2 DEF GoodCycle
    <2> QED BY <1>2, <2>3 DEF d
<1> QED BY <1>1, <1>2 DEF Judged

\* A delivery the cycle read, and the row it is about to say.
LEMMA GoodReading ==
    ASSUME RowsInv, DeliveryInv, NEW c, GoodCycle(c), NEW r \in Ids, NEW pc \in {"sending", "prior"},
           pc = "prior" => delivery.row # 0
    PROVE  /\ GoodCycle([c EXCEPT !.row = r, !.held = delivery, !.pc = pc])
           /\ c.pc = "next" => GoodCycle([c EXCEPT !.row = r, !.held = delivery])
<1>1. r \in Nat
    BY RowTypes
<1>2. ASSUME NEW d, d = [c EXCEPT !.row = r, !.held = delivery, !.pc = pc] PROVE GoodCycle(d)
    <2>1. d \in Cycle /\ d.pc = pc /\ d.todo = c.todo /\ d.row = r
          /\ d.held = delivery /\ d.prior = c.prior
        BY <1>1, <1>2 DEF GoodCycle, Cycle, DeliveryInv
    <2> QED BY <2>1 DEF GoodCycle, DeliveryInv, InTable
<1>3. ASSUME c.pc = "next", NEW d, d = [c EXCEPT !.row = r, !.held = delivery] PROVE GoodCycle(d)
    <2>1. d \in Cycle /\ d.pc = "next" /\ d.todo = c.todo /\ d.row = r
          /\ d.held = delivery /\ d.prior = c.prior
        BY <1>1, <1>3 DEF GoodCycle, Cycle, DeliveryInv
    <2> QED BY <2>1 DEF GoodCycle, DeliveryInv, InTable
<1> QED BY <1>2, <1>3

\* Where the walk has come.
LEMMA GoodWalk ==
    ASSUME RowsInv, NEW c, GoodCycle(c), NEW r, InTable(r), NEW end \in Nat,
           NEW pc \in {"walk", "hand", "retake", "sending", "settling"}, NEW went \in BOOLEAN
    PROVE  /\ GoodCycle([c EXCEPT !.pc = "walk", !.prior = r, !.end = end])
           /\ c.pc = "walk" => GoodCycle([c EXCEPT !.prior = r, !.end = end])
           /\ GoodCycle([c EXCEPT !.pc = pc])
           /\ GoodCycle([c EXCEPT !.pc = "settling", !.went = went])
<1>1. r \in Nat
    BY RowTypes DEF InTable
<1>2. ASSUME NEW d, d = [c EXCEPT !.pc = "walk", !.prior = r, !.end = end] PROVE GoodCycle(d)
    <2>1. d \in Cycle /\ d.pc = "walk" /\ d.todo = c.todo /\ d.row = c.row
          /\ d.held = c.held /\ d.prior = r
        BY <1>1, <1>2 DEF GoodCycle, Cycle
    <2> QED BY <2>1 DEF GoodCycle
<1>3. ASSUME c.pc = "walk", NEW d, d = [c EXCEPT !.prior = r, !.end = end] PROVE GoodCycle(d)
    <2>1. d \in Cycle /\ d.pc = "walk" /\ d.todo = c.todo /\ d.row = c.row
          /\ d.held = c.held /\ d.prior = r
        BY <1>1, <1>3 DEF GoodCycle, Cycle
    <2> QED BY <2>1 DEF GoodCycle
<1>4. ASSUME NEW d, d = [c EXCEPT !.pc = pc] PROVE GoodCycle(d)
    <2>1. d \in Cycle /\ d.pc = pc /\ d.todo = c.todo /\ d.row = c.row
          /\ d.held = c.held /\ d.prior = c.prior
        BY <1>4 DEF GoodCycle, Cycle
    <2> QED BY <2>1 DEF GoodCycle
<1>5. ASSUME NEW d, d = [c EXCEPT !.pc = "settling", !.went = went] PROVE GoodCycle(d)
    <2>1. d \in Cycle /\ d.pc = "settling" /\ d.todo = c.todo /\ d.row = c.row
          /\ d.held = c.held /\ d.prior = c.prior
        BY <1>5 DEF GoodCycle, Cycle
    <2> QED BY <2>1 DEF GoodCycle
<1> QED BY <1>2, <1>3, <1>4, <1>5

\* A table that keeps its rows keeps what is good.
LEMMA CarryKept ==
    ASSUME CarryInv, Ids \subseteq Ids', UNCHANGED carry
    PROVE  CarryInv'
BY DEF CarryInv, GoodCycle, InTable

LEMMA CarryNext ==
    ASSUME CarryInv, Ids \subseteq Ids', NEW p \in Carriers, NEW c, GoodCycle(c), Carries(p, c)
    PROVE  CarryInv'
<1>1. carry' = [carry EXCEPT ![p] = c] /\ c \in Cycle
    BY DEF Carries, GoodCycle
<1>2. carry' \in [Carriers -> Cycle] /\ \A q \in Carriers : carry'[q] = IF q = p THEN c ELSE carry[q]
    BY <1>1 DEF CarryInv
<1>3. ASSUME NEW q \in Carriers, NEW d, GoodCycle(d), carry'[q] = d
      PROVE  GoodCycle(carry[q])'
    BY <1>3 DEF GoodCycle, InTable
<1>4. \A q \in Carriers : GoodCycle(carry[q])'
    BY <1>2, <1>3 DEF CarryInv
<1> QED BY <1>2, <1>4 DEF CarryInv

LEMMA DeliveryKept ==
    ASSUME DeliveryInv, Ids \subseteq Ids', UNCHANGED delivery
    PROVE  DeliveryInv'
BY DEF DeliveryInv, InTable

LEMMA StakedTypes ==
    ASSUME NEW r \in Nat
    PROVE  /\ [NoDelivery EXCEPT !.row = r, !.attempts = 1, !.out = TRUE] \in Delivery
           /\ Anew(r) \in Delivery
<1>1. 0 \in 0 .. Tries /\ 1 \in 0 .. Tries
    OBVIOUS
<1>2. NoDelivery \in Delivery
    BY <1>1 DEF NoDelivery, Delivery
<1>3. ASSUME NEW e, e = [NoDelivery EXCEPT !.row = r, !.attempts = 1, !.out = TRUE]
      PROVE  e \in Delivery
    BY <1>1, <1>2, <1>3 DEF Delivery
<1>4. Anew(r) \in Delivery
    BY <1>2 DEF Anew, Delivery
<1> QED BY <1>3, <1>4

\* What a cycle reads and what it stakes.
LEMMA StakesStep ==
    ASSUME RowsInv, DeliveryInv, CarryInv, NEW p \in Carriers, Stakes(p)
    PROVE  DeliveryInv' /\ CarryInv'
<1>1. Ids' = Ids /\ Ids \subseteq Nat
    BY RowTypes DEF Stakes, Ids
<1>2. carry[p].pc = "next" /\ GoodCycle(carry[p])
    BY DEF Stakes, CarryInv
<1>3. PICK r \in First(carry[p].todo) :
          LET c == [carry[p] EXCEPT !.row = r, !.held = delivery] IN
          IF delivery.row = 0
          THEN /\ delivery' = [NoDelivery EXCEPT !.row = r, !.attempts = 1, !.out = TRUE]
               /\ Carries(p, [c EXCEPT !.pc = "sending"])
          ELSE /\ UNCHANGED delivery
               /\ Carries(p, IF delivery.row = r THEN Judged(c) ELSE [c EXCEPT !.pc = "prior"])
    BY DEF Stakes
<1>4. r \in Ids
    BY <1>2, <1>3 DEF First, GoodCycle
<1> DEFINE c == [carry[p] EXCEPT !.row = r, !.held = delivery]
<1>5. GoodCycle(c)
    BY <1>2, <1>4, GoodReading
<1>6. CASE delivery.row = 0
    <2>1. GoodCycle([carry[p] EXCEPT !.row = r, !.held = delivery, !.pc = "sending"])
        BY <1>2, <1>4, GoodReading
    <2>2. delivery' = [NoDelivery EXCEPT !.row = r, !.attempts = 1, !.out = TRUE]
        BY <1>3, <1>6
    <2>3. delivery' \in Delivery /\ delivery'.row = r
        <3>1. r \in Nat /\ delivery \in Delivery
            BY <1>1, <1>4 DEF DeliveryInv
        <3>2. delivery' \in Delivery
            BY <2>2, <3>1, StakedTypes
        <3> QED BY <2>2, <3>2 DEF NoDelivery
    <2>4. DeliveryInv'
        BY <1>1, <1>4, <2>3 DEF DeliveryInv, InTable
    <2>5. Carries(p, [carry[p] EXCEPT !.row = r, !.held = delivery, !.pc = "sending"])
        BY <1>3, <1>6
    <2>6. CarryInv'
        BY <1>1, <2>1, <2>5, CarryNext
    <2> QED BY <2>4, <2>6
<1>7. CASE delivery.row # 0 /\ delivery.row = r
    <2>1. GoodCycle(Judged(c))
        BY <1>5, GoodJudged
    <2>2. Carries(p, Judged(c)) /\ UNCHANGED delivery
        BY <1>3, <1>7
    <2> HIDE DEF c
    <2> QED BY <1>1, <2>1, <2>2, CarryNext, DeliveryKept
<1>8. CASE delivery.row # 0 /\ delivery.row # r
    <2>1. GoodCycle([carry[p] EXCEPT !.row = r, !.held = delivery, !.pc = "prior"])
        BY <1>2, <1>4, <1>8, GoodReading
    <2>2. /\ Carries(p, [carry[p] EXCEPT !.row = r, !.held = delivery, !.pc = "prior"])
          /\ UNCHANGED delivery
        BY <1>3, <1>8
    <2> QED BY <1>1, <2>1, <2>2, CarryNext, DeliveryKept
<1> QED BY <1>6, <1>7, <1>8

\* The walk to the row that lasts.
LEMMA WalkStepGood ==
    ASSUME RowsInv, DeliveryInv, CarryInv, NEW p \in Carriers,
           ReadsPrior(p) \/ WalkStep(p) \/ WalkEnds(p)
    PROVE  DeliveryInv' /\ CarryInv'
<1>1. Ids' = Ids /\ UNCHANGED delivery
    BY DEF ReadsPrior, WalkStep, WalkEnds, Ids
<1>2. DeliveryInv' /\ GoodCycle(carry[p])
    BY <1>1, DeliveryKept DEF CarryInv
<1>3. \A r \in Ids : row[r].cleared \in Nat /\ InTable(r)
    BY RowTypes DEF Row, InTable
<1>4. CASE ReadsPrior(p)
    <2> DEFINE c == [carry[p] EXCEPT !.pc = "walk", !.prior = carry[p].held.row,
                                     !.end = row[carry[p].held.row].cleared]
    <2>1. carry[p].held.row \in Ids
        BY <1>2, <1>4 DEF ReadsPrior, GoodCycle, InTable
    <2>2. GoodCycle(c)
        BY <1>2, <1>3, <2>1, GoodWalk
    <2>3. Carries(p, c)
        BY <1>4 DEF ReadsPrior
    <2> HIDE DEF c
    <2> QED BY <1>1, <1>2, <2>2, <2>3, CarryNext
<1>5. CASE WalkStep(p)
    <2>1. CASE Carries(p, [carry[p] EXCEPT !.pc = "retake"])
        <3>1. GoodCycle([carry[p] EXCEPT !.pc = "retake"])
            BY <1>2, GoodWalk DEF InTable
        <3> QED BY <1>1, <1>2, <2>1, <3>1, CarryNext
    <2>2. ASSUME NEW r \in Ids,
                 Carries(p, [carry[p] EXCEPT !.prior = r, !.end = row[r].cleared])
          PROVE  CarryInv'
        <3>1. GoodCycle([carry[p] EXCEPT !.prior = r, !.end = row[r].cleared])
            BY <1>2, <1>3, <1>5, GoodWalk DEF WalkStep
        <3> QED BY <1>1, <2>2, <3>1, CarryNext
    <2>3. \A prior, end : Longest(Across(prior, end)) \subseteq Ids
        BY DEF Longest, Across
    <2> QED BY <1>2, <1>5, <2>1, <2>2, <2>3 DEF WalkStep
<1>6. CASE WalkEnds(p)
    <2>1. GoodCycle(Judged(carry[p]))
        BY <1>2, GoodJudged
    <2>2. GoodCycle([carry[p] EXCEPT !.pc = "hand"])
        BY <1>2, GoodWalk DEF InTable
    <2>3. CASE Carries(p, Judged(carry[p]))
        BY <1>1, <1>2, <2>1, <2>3, CarryNext
    <2>4. CASE Carries(p, [carry[p] EXCEPT !.pc = "hand"])
        BY <1>1, <1>2, <2>2, <2>4, CarryNext
    <2> QED BY <1>6, <2>3, <2>4 DEF WalkEnds
<1> QED BY <1>4, <1>5, <1>6

\* The delivery handed over, taken again and tried again.
LEMMA TakesStep ==
    ASSUME RowsInv, DeliveryInv, CarryInv, NEW p \in Carriers, Hands(p) \/ Retakes(p) \/ Again(p)
    PROVE  DeliveryInv' /\ CarryInv'
<1>1. Ids' = Ids
    BY DEF Hands, Retakes, Again, Ids
<1>2. GoodCycle(carry[p]) /\ carry[p] \in Cycle
    BY DEF CarryInv, GoodCycle
<1>3. ASSUME NEW r, InTable(r), NEW d, d \in Delivery, d.row = r, delivery' = d
      PROVE  DeliveryInv'
    BY <1>1, <1>3 DEF DeliveryInv, InTable
<1>4. ASSUME UNCHANGED delivery PROVE DeliveryInv'
    BY <1>1, <1>4, DeliveryKept
<1>5. CASE Hands(p)
    <2> DEFINE d == [delivery EXCEPT !.row = carry[p].prior]
    <2>1. d \in Delivery /\ d.row = carry[p].prior /\ InTable(carry[p].prior)
        BY <1>2, RowTypes DEF GoodCycle, InTable, DeliveryInv, Delivery
    <2>2. delivery' = d \/ delivery' = delivery
        BY <1>5 DEF Hands
    <2> HIDE DEF d
    <2>3. DeliveryInv'
        BY <1>3, <1>4, <2>1, <2>2
    <2>4. GoodCycle(Judged(carry[p])) /\ Carries(p, Judged(carry[p]))
        BY <1>2, <1>5, GoodJudged DEF Hands
    <2> QED BY <1>1, <2>3, <2>4, CarryNext
<1>6. CASE Retakes(p)
    <2> DEFINE anew == Anew(carry[p].row)
               c == [carry[p] EXCEPT !.held = anew]
    <2>1. InTable(carry[p].row) /\ carry[p].row \in Nat
        BY <1>2, RowTypes DEF GoodCycle, InTable
    <2>2. anew \in Delivery /\ anew.row = carry[p].row
        BY <2>1, StakedTypes DEF Anew, NoDelivery
    <2>3. GoodCycle(c)
        <3> HIDE DEF anew
        <3>1. c \in Cycle /\ c.pc = "retake" /\ c.todo = carry[p].todo /\ c.row = carry[p].row
              /\ c.held = anew /\ c.prior = carry[p].prior
            BY <1>2, <1>6, <2>2 DEF Cycle, Retakes
        <3> HIDE DEF c
        <3> QED BY <1>2, <2>1, <2>2, <3>1 DEF GoodCycle
    <2>4. GoodCycle(Judged(c)) /\ GoodCycle(Judged(carry[p]))
        BY <1>2, <2>3, GoodJudged
    <2>5. CASE delivery' = anew /\ Carries(p, Judged(c))
        <3> HIDE DEF anew, c
        <3> QED BY <1>1, <1>3, <2>1, <2>2, <2>4, <2>5, CarryNext
    <2>6. CASE UNCHANGED delivery /\ Carries(p, Judged(carry[p]))
        BY <1>1, <1>4, <2>4, <2>6, CarryNext
    <2> QED BY <1>6, <2>5, <2>6 DEF Retakes
<1>7. CASE Again(p)
    <2>1. GoodCycle(Onward(carry[p])) /\ GoodCycle([carry[p] EXCEPT !.pc = "sending"])
        BY <1>2, GoodOnward, GoodWalk DEF InTable
    <2>2. CASE UNCHANGED delivery /\ Carries(p, Onward(carry[p]))
        BY <1>1, <1>4, <2>1, <2>2, CarryNext
    <2>3. CASE /\ delivery.attempts = carry[p].held.attempts
               /\ delivery' = [delivery EXCEPT !.attempts = @ + 1, !.out = TRUE, !.failed = FALSE]
               /\ Carries(p, [carry[p] EXCEPT !.pc = "sending"])
        <3> DEFINE n == delivery.attempts + 1
                   d == [delivery EXCEPT !.attempts = n, !.out = TRUE, !.failed = FALSE]
        <3>1. carry[p].held.attempts < Tries
            BY <1>2, <1>7 DEF Again, GoodCycle
        <3>2. n \in 0 .. Tries
            BY <2>3, <3>1 DEF DeliveryInv, Delivery
        <3>3. delivery' = d
            BY <2>3
        <3> HIDE DEF n
        <3>4. d \in Delivery /\ d.row = delivery.row /\ InTable(delivery.row)
            BY <3>2 DEF DeliveryInv, Delivery
        <3> HIDE DEF d
        <3>5. DeliveryInv'
            BY <1>3, <3>3, <3>4
        <3> QED BY <1>1, <2>1, <2>3, <3>5, CarryNext
    <2> QED BY <1>7, <2>2, <2>3 DEF Again, NotTakenSince
<1> QED BY <1>5, <1>6, <1>7

\* A request, its answer and the record of it.
LEMMA SendsStep ==
    ASSUME RowsInv, DeliveryInv, CarryInv, NEW p \in Carriers,
           \/ Received(p) \/ Refused(p) \/ AnswerLost(p)
           \/ Settles(p) \/ SettleLost(p) \/ CycleStops(p)
    PROVE  RowsInv' /\ DeliveryInv' /\ CarryInv'
<1>1. UNCHANGED row \/ Heard(carry[p].row)
    BY DEF Received, Refused, AnswerLost, Settles, SettleLost, CycleStops
<1>2. RowsInv' /\ Ids' = Ids
    BY <1>1, HeardRows DEF RowsInv, Ids
<1>3. GoodCycle(carry[p])
    BY DEF CarryInv
<1>4. \/ Carries(p, Waits) \/ Carries(p, Onward(carry[p]))
      \/ \E went \in BOOLEAN : Carries(p, [carry[p] EXCEPT !.pc = "settling", !.went = went])
    BY DEF Received, Refused, AnswerLost, Settles, SettleLost, CycleStops, Answered
<1>5. CarryInv'
    <2>1. CASE Carries(p, Waits) \/ Carries(p, Onward(carry[p]))
        BY <1>2, <1>3, <2>1, GoodWaits, GoodOnward, CarryNext
    <2>2. ASSUME NEW went \in BOOLEAN,
                 Carries(p, [carry[p] EXCEPT !.pc = "settling", !.went = went])
          PROVE  CarryInv'
        <3>1. GoodCycle([carry[p] EXCEPT !.pc = "settling", !.went = went])
            BY <1>3, GoodWalk DEF InTable
        <3> QED BY <1>2, <2>2, <3>1, CarryNext
    <2> QED BY <1>4, <2>1, <2>2
<1>6. CASE Settles(p)
    <2>1. \A went : Recorded(went) \in Delivery /\ Recorded(went).row = delivery.row
        BY DEF Recorded, DeliveryInv, Delivery
    <2>2. delivery' = Recorded(carry[p].went)
        BY <1>6 DEF Settles
    <2>3. DeliveryInv'
        BY <1>2, <2>1, <2>2 DEF DeliveryInv, InTable
    <2> QED BY <1>2, <1>5, <2>3
<1>7. CASE UNCHANGED delivery
    BY <1>2, <1>5, <1>7, DeliveryKept
<1> QED BY <1>6, <1>7 DEF Received, Refused, AnswerLost, SettleLost, CycleStops

----------------------------------------------------------------------------
(* Together. *)

WorldInv ==
    /\ failing \in BOOLEAN
    /\ hearing \subseteq People
    /\ now \in Nat
    /\ changes \in 0 .. MaxChanges
    /\ mishaps \in 0 .. MaxMishaps

NotifyInv == WorldInv /\ RowsInv /\ WatchInv /\ DeliveryInv /\ CarryInv

LEMMA NotifyInvInit == NotifyInit => NotifyInv
<1> SUFFICES ASSUME NotifyInit PROVE NotifyInv
    OBVIOUS
<1>1. WorldInv
    <2>1. failing \in BOOLEAN /\ hearing \subseteq People
        BY DEF NotifyInit
    <2>2. now \in Nat /\ changes \in 0 .. MaxChanges /\ mishaps \in 0 .. MaxMishaps
        BY NotifyAssumption DEF NotifyInit
    <2> QED BY <2>1, <2>2 DEF WorldInv
<1>2. RowsInv
    BY DEF NotifyInit, RowsInv
<1>3. WatchInv
    BY SweptIsReady DEF NotifyInit, WatchInv, SweptType
<1>4. DeliveryInv
    BY DEF NotifyInit, DeliveryInv, NoDelivery, Delivery, InTable
<1>5. CarryInv
    BY <1>2, GoodWaits DEF NotifyInit, CarryInv, GoodCycle
<1> QED BY <1>1, <1>2, <1>3, <1>4, <1>5 DEF NotifyInv

LEMMA WorldStep ==
    ASSUME NotifyInv, [NotifyNext]_notifyVars
    PROVE  WorldInv'
<1> SUFFICES ASSUME NotifyNext PROVE WorldInv'
    BY DEF NotifyInv, WorldInv, notifyVars, world
<1>1. /\ failing \in BOOLEAN /\ hearing \subseteq People
      /\ changes \in 0 .. MaxChanges /\ mishaps \in 0 .. MaxMishaps
      /\ now' \in Nat /\ MaxChanges \in Nat /\ MaxMishaps \in Nat
    BY WatchStep, NotifyAssumption DEF NotifyInv, WorldInv
<1>2. ASSUME UNCHANGED world, mishaps' = mishaps \/ Mishap PROVE WorldInv'
    <2>1. mishaps' \in 0 .. MaxMishaps
        BY <1>1, <1>2 DEF Mishap
    <2> QED BY <1>1, <1>2, <2>1 DEF WorldInv, world
<1>3. CASE Turns \/ \E x \in People : Concerns(x)
    <2>1. changes' \in 0 .. MaxChanges
        BY <1>1, <1>3 DEF Turns, Concerns, Changes
    <2>2. failing' \in BOOLEAN
        BY <1>1, <1>3, Zenon DEF Turns, Concerns
    <2>3. hearing' \subseteq People
        BY <1>1, <1>3 DEF Turns, Concerns
    <2>4. mishaps' = mishaps
        BY <1>3 DEF Turns, Concerns
    <2> QED BY <1>1, <2>1, <2>2, <2>3, <2>4, Zenon DEF WorldInv
<1>4. ASSUME NEW w \in Watchers, Watching(w) \/ SweepStops(w) PROVE WorldInv'
    BY <1>2, <1>4, Zenon DEF Watching, Derive, Reads, Writes, SweepStops
<1>5. ASSUME NEW p \in Carriers, Carrying(p) PROVE WorldInv'
    BY <1>2, <1>5, Zenon DEF Carrying, Begins, Stakes, ReadsPrior, WalkStep, WalkEnds, Hands,
                             Retakes, Again, Received, Refused, Settles
<1>6. ASSUME NEW p \in Carriers, Mishaps(p) PROVE WorldInv'
    BY <1>2, <1>6, Zenon DEF Mishaps, Overtakes, AnswerLost, SettleLost, CycleStops
<1>7. CASE Overdue
    BY <1>2, <1>7, Zenon DEF Overdue
<1> QED BY <1>3, <1>4, <1>5, <1>6, <1>7 DEF NotifyNext

\* A cycle begins on a window of the table.
LEMMA BeginsStep ==
    ASSUME RowsInv, CarryInv, DeliveryInv, NEW p \in Carriers, Begins(p) \/ Overtakes(p)
    PROVE  DeliveryInv' /\ CarryInv'
<1>1. Ids' = Ids /\ UNCHANGED delivery
    BY DEF Begins, Overtakes, Ids
<1>2. Carries(p, [Waits EXCEPT !.pc = "next", !.todo = Window]) /\ Window \in SUBSET Ids
    BY DEF Begins, Overtakes, Window
<1>3. GoodCycle([Waits EXCEPT !.pc = "next", !.todo = Window])
    BY <1>2, GoodWaits
<1> QED BY <1>1, <1>2, <1>3, CarryNext, DeliveryKept

LEMMA NotifyInvStep == NotifyInv /\ [NotifyNext]_notifyVars => NotifyInv'
<1> SUFFICES ASSUME NotifyInv, [NotifyNext]_notifyVars PROVE NotifyInv'
    OBVIOUS
<1>1. WorldInv' /\ WatchInv'
    BY WorldStep, WatchStep DEF NotifyInv, WorldInv
<1>2. RowsInv /\ WatchInv /\ DeliveryInv /\ CarryInv
    BY DEF NotifyInv
<1>3. CASE UNCHANGED notifyVars
    BY <1>1, <1>2, <1>3, CarryKept, DeliveryKept DEF notifyVars, NotifyInv, RowsInv, Ids
<1>4. ASSUME UNCHANGED <<row, delivery, carry>> PROVE NotifyInv'
    BY <1>1, <1>2, <1>4, CarryKept, DeliveryKept DEF NotifyInv, RowsInv, Ids
<1>5. CASE Turns \/ \E x \in People : Concerns(x)
    BY <1>4, <1>5 DEF Turns, Concerns
<1>6. ASSUME NEW w \in Watchers, Derive(w) \/ (\E x \in People : Reads(w, x)) \/ SweepStops(w)
      PROVE  NotifyInv'
    BY <1>4, <1>6 DEF Derive, Reads, SweepStops
<1>7. ASSUME NEW w \in Watchers, Writes(w) PROVE NotifyInv'
    <2>1. RowsInv' /\ Ids \subseteq Ids' /\ UNCHANGED <<delivery, carry>>
        BY <1>2, <1>7, WrittenRows DEF Writes
    <2> QED BY <1>1, <1>2, <2>1, CarryKept, DeliveryKept DEF NotifyInv
<1>8. ASSUME NEW p \in Carriers, Begins(p) \/ Overtakes(p) PROVE NotifyInv'
    BY <1>1, <1>2, <1>8, BeginsStep DEF NotifyInv, RowsInv, Begins, Overtakes
<1>9. ASSUME NEW p \in Carriers, Stakes(p) PROVE NotifyInv'
    BY <1>1, <1>2, <1>9, StakesStep DEF NotifyInv, RowsInv, Stakes
<1>10. ASSUME NEW p \in Carriers, ReadsPrior(p) \/ WalkStep(p) \/ WalkEnds(p) PROVE NotifyInv'
    BY <1>1, <1>2, <1>10, WalkStepGood DEF NotifyInv, RowsInv, ReadsPrior, WalkStep, WalkEnds
<1>11. ASSUME NEW p \in Carriers, Hands(p) \/ Retakes(p) \/ Again(p) PROVE NotifyInv'
    BY <1>1, <1>2, <1>11, TakesStep DEF NotifyInv, RowsInv, Hands, Retakes, Again
<1>12. ASSUME NEW p \in Carriers,
              \/ Received(p) \/ Refused(p) \/ AnswerLost(p)
              \/ Settles(p) \/ SettleLost(p) \/ CycleStops(p)
       PROVE  NotifyInv'
    BY <1>1, <1>2, <1>12, SendsStep DEF NotifyInv
<1>13. CASE Overdue
    <2>1. delivery' = [delivery EXCEPT !.out = FALSE] /\ UNCHANGED <<row, carry>>
        BY <1>13 DEF Overdue
    <2>2. Ids' = Ids /\ RowsInv' /\ CarryInv'
        BY <1>2, <2>1, CarryKept DEF RowsInv, Ids
    <2>3. DeliveryInv'
        BY <1>2, <2>1, <2>2 DEF DeliveryInv, Delivery, InTable
    <2> QED BY <1>1, <2>2, <2>3 DEF NotifyInv
<1> QED BY <1>3, <1>5, <1>6, <1>7, <1>8, <1>9, <1>10, <1>11, <1>12, <1>13
        DEF NotifyNext, Watching, Carrying, Mishaps

THEOREM NotifyInvHolds == NotifySpec => []NotifyInv
BY NotifyInvInit, NotifyInvStep, PTL DEF NotifySpec

----------------------------------------------------------------------------
(* What the invariant is for. *)

\* Every table, sweep and cycle holds what it can, for any number of replicas,
\* and no delivery is tried more often than it may be, whoever tries it (claim).
THEOREM NotifyTypesHold == NotifySpec => []NotifyTypeOK
<1>1. NotifyInv => NotifyTypeOK
    <2> SUFFICES ASSUME NotifyInv PROVE NotifyTypeOK
        OBVIOUS
    <2>1. row \in Seq(Row)
        BY RowTypes DEF NotifyInv
    <2> QED BY <2>1 DEF NotifyInv, WorldInv, WatchInv, DeliveryInv, CarryInv, NotifyTypeOK
<1> QED BY <1>1, NotifyInvHolds, PTL

\* Somebody is told once that a condition ended, for any number of replicas that
\* reconcile at once (ReconcileTelling).
THEOREM EndsAreSaidOnce == NotifySpec => []EndIsSaidOnce
<1>1. NotifyInv => EndIsSaidOnce
    <2> SUFFICES ASSUME NotifyInv, NEW r \in Ids
                 PROVE  row[r].ended <= 1 /\ (row[r].ended = 1 => ~Open(r))
        BY DEF EndIsSaidOnce
    <2>1. row[r] \in GoodRow
        BY RowTypes DEF NotifyInv
    <2> QED BY <2>1 DEF GoodRow, Open
<1> QED BY <1>1, NotifyInvHolds, PTL
----------------------------------------------------------------------------
(* One request at a time.  Where one replica sweeps, rows are written in the *)
(* order of their times, so that a moment at which none was open stays one.  *)
(* Only across such a moment is the delivery taken anew; until there is one  *)
(* its count of attempts only goes up, and who reads it while a request is   *)
(* out reads that it is.                                                     *)

OneSweeper == \A v, w \in Watchers : v = w

\* Everything in the table happened before t.
Before(t) == \A r \in Ids : row[r].opened < t /\ row[r].cleared < t

TimesInv ==
    /\ Before(now + 1)
    /\ \A w \in Watchers : watch[w].pc = "write" => watch[w].at = now /\ Before(now)
    /\ \A r \in Ids : ~Open(r) => row[r].opened <= row[r].cleared

\* At t no row was open.
NoneOpen(t) == \A n \in Ids : row[n].opened <= t => ~Open(n) /\ row[n].cleared <= t

\* The first opening ended when r cleared, or an earlier one did.
Ends(r) == ~Open(r) /\ NoneOpen(row[r].cleared)

FirstLasts == \A r \in Ids : ~Ends(r)

InFlight(d) == d.out /\ ~d.failed

\* What a walk has found: when the row it is at cleared, or that an opening ended.
GoodWalker(c) ==
    /\ c.pc \in {"walk", "hand"} => c.prior \in Ids
    /\ c.pc = "walk" /\ c.end # 0 => row[c.prior].cleared = c.end
    /\ c.pc = "retake" => ~FirstLasts
    /\ c.pc = "again" => ~InFlight(c.held)

WalkInv == \A p \in Carriers : GoodWalker(carry[p])

Sends(c) == c.pc \in {"sending", "settling"}
Goes(c) == c.pc \in {"prior", "walk", "hand", "again"}

SomebodySends == \E p \in Carriers : Sends(carry[p])

\* What a cycle goes on was read of the attempt that is out, or of one before it.
FromBefore(c) ==
    /\ delivery.row # 0
    /\ c.held.attempts <= delivery.attempts
    /\ SomebodySends /\ c.held.attempts = delivery.attempts => InFlight(c.held)

OneSends ==
    /\ \A p, q \in Carriers : Sends(carry[p]) /\ Sends(carry[q]) => p = q
    /\ SomebodySends => delivery.row # 0 /\ InFlight(delivery)
    /\ \A p \in Carriers : Goes(carry[p]) => FromBefore(carry[p])

AloneInv == TimesInv /\ WalkInv /\ (FirstLasts => OneSends)

----------------------------------------------------------------------------
(* The times of the rows. *)

SameTimes ==
    /\ Ids' = Ids
    /\ \A r \in Ids : row'[r].opened = row[r].opened /\ row'[r].cleared = row[r].cleared

LEMMA HeardTimes ==
    ASSUME RowsInv, NEW q, Heard(q) \/ UNCHANGED row
    PROVE  SameTimes
<1>1. CASE UNCHANGED row
    BY <1>1 DEF SameTimes, Ids
<1>2. CASE Heard(q)
    <2>1. row' = [row EXCEPT ![q].told = @ + 1]
        BY <1>2 DEF Heard
    <2>2. DOMAIN row' = Ids /\ Ids' = Ids
        BY <2>1 DEF Ids, RowsInv
    <2>3. ASSUME NEW r \in Ids
          PROVE  row'[r].opened = row[r].opened /\ row'[r].cleared = row[r].cleared
        <3>1. row[r] \in Row
            BY RowTypes
        <3>2. row'[r] = row[r] \/ row'[r] = [row[r] EXCEPT !.told = @ + 1]
            BY <2>1, RowTypes DEF RowsInv, Ids
        <3> QED BY <3>1, <3>2 DEF Row
    <2> QED BY <2>2, <2>3 DEF SameTimes
<1> QED BY <1>1, <1>2

\* Only a reconcile's write opens and clears.
LEMMA TimesKept ==
    ASSUME NotifyInv, [NotifyNext]_notifyVars, \A w \in Watchers : ~Writes(w)
    PROVE  SameTimes
<1>1. RowsInv
    BY DEF NotifyInv
<1>2. UNCHANGED row \/ \E q : Heard(q)
    <2>1. CASE UNCHANGED notifyVars
        BY <2>1 DEF notifyVars
    <2>2. CASE Turns \/ (\E x \in People : Concerns(x)) \/ Overdue
        BY <2>2 DEF Turns, Concerns, Overdue
    <2>3. ASSUME NEW w \in Watchers, Watching(w) \/ SweepStops(w) PROVE UNCHANGED row
        BY <2>3 DEF Watching, SweepStops, Derive, Reads
    <2>4. ASSUME NEW p \in Carriers, Carrying(p) \/ Mishaps(p)
          PROVE  UNCHANGED row \/ \E q : Heard(q)
        BY <2>4 DEF Carrying, Begins, Stakes, ReadsPrior, WalkStep, WalkEnds, Hands, Retakes,
                    Again, Received, Refused, Settles, Mishaps, Overtakes, AnswerLost,
                    SettleLost, CycleStops
    <2> QED BY <2>1, <2>2, <2>3, <2>4 DEF NotifyNext
<1> QED BY <1>1, <1>2, HeardTimes

\* What a write leaves: what it cleared or opened carries its time, and nothing
\* more has been received.
LEMMA WrittenTimes ==
    ASSUME NotifyInv, NEW w \in Watchers, Writes(w)
    PROVE  /\ Ids \subseteq Ids'
           /\ \A r \in Ids : /\ row'[r].opened = row[r].opened
                             /\ \/ row'[r].cleared = row[r].cleared
                                \/ Open(r) /\ row'[r].cleared = watch[w].at
           /\ \A r \in Ids' \ Ids : row'[r].opened = watch[w].at /\ row'[r].cleared = 0
           /\ \A r \in Ids' : row'[r].told = IF r \in Ids THEN row[r].told ELSE 0
<1> DEFINE s == watch[w]
           old == [r \in Ids |-> IF r \in Clears(s.stopped) THEN Cleared(s, r) ELSE row[r]]
<1>1. RowsInv /\ Len(row) \in Nat /\ Ids = 1 .. Len(row)
    BY RowTypes DEF NotifyInv
<1>2. ASSUME NEW r \in Ids
      PROVE  /\ old[r].opened = row[r].opened
             /\ old[r].cleared = row[r].cleared \/ (Open(r) /\ old[r].cleared = s.at)
             /\ old[r].told = row[r].told
    <2>1. row[r] \in Row
        BY <1>1, RowTypes
    <2>2. CASE r \in Clears(s.stopped)
        <3>1. Open(r)
            BY <2>2 DEF Clears
        <3>2. old[r] = [row[r] EXCEPT !.cleared = s.at,
                                      !.ended = IF s.recovered THEN @ + 1 ELSE @]
            BY <2>2 DEF Cleared
        <3> HIDE DEF old
        <3> QED BY <2>1, <3>1, <3>2 DEF Row
    <2>3. CASE r \notin Clears(s.stopped)
        BY <2>3
    <2> QED BY <2>2, <2>3
<1>3. old \in Seq(Range(old)) /\ Len(old) = Len(row) /\ DOMAIN old = Ids
    <2>1. old = [i \in 1 .. Len(row) |-> old[i]] /\ \A i \in Ids : old[i] \in Range(old)
        BY <1>1 DEF Range
    <2> HIDE DEF old
    <2> QED BY <1>1, <2>1, SeqDef
<1>4. row' = old \/ row' = Append(old, Opened(s))
    BY DEF Writes
<1>5. CASE row' = old
    BY <1>2, <1>3, <1>5 DEF Ids
<1>6. CASE row' = Append(old, Opened(s))
    <2> HIDE DEF old
    <2>1. /\ DOMAIN row' = 1 .. (Len(row) + 1)
          /\ \A i \in Ids : row'[i] = old[i]
          /\ row'[Len(row) + 1] = Opened(s)
        BY <1>1, <1>3, <1>6
    <2>2. Opened(s).opened = s.at /\ Opened(s).cleared = 0 /\ Opened(s).told = 0
        BY DEF Opened
    <2>3. Ids' = 1 .. (Len(row) + 1)
        BY <2>1 DEF Ids
    <2>4. Ids' \ Ids = {Len(row) + 1}
        BY <1>1, <2>3
    <2> QED BY <1>1, <1>2, <2>1, <2>2, <2>3, <2>4
<1> QED BY <1>4, <1>5, <1>6

\* How the table changes: rows stay, and what has cleared stays cleared then.
Grows ==
    /\ Ids \subseteq Ids'
    /\ \A r \in Ids : /\ row'[r].opened = row[r].opened
                      /\ ~Open(r) => row'[r].cleared = row[r].cleared

LEMMA TimesAreNumbers ==
    ASSUME NotifyInv
    PROVE  /\ now \in Nat
           /\ \A r \in Ids : row[r].opened \in Nat \ {0} /\ row[r].cleared \in Nat
           /\ \A w \in Watchers : watch[w] \in Sweep
<1>1. \A r \in Ids : row[r] \in Row
    BY RowTypes DEF NotifyInv
<1> QED BY <1>1 DEF NotifyInv, WorldInv, WatchInv, Row

LEMMA TableGrows ==
    ASSUME NotifyInv, [NotifyNext]_notifyVars
    PROVE  Grows
<1>1. CASE \A w \in Watchers : ~Writes(w)
    BY <1>1, TimesKept DEF SameTimes, Grows
<1>2. ASSUME NEW w \in Watchers, Writes(w) PROVE Grows
    BY <1>2, WrittenTimes DEF Grows, Open
<1> QED BY <1>1, <1>2

LEMMA TimesStep ==
    ASSUME OneSweeper, NotifyInv, TimesInv, [NotifyNext]_notifyVars
    PROVE  TimesInv'
<1>1. /\ now \in Nat /\ now < now + 1
      /\ \A r \in Ids : row[r].opened \in Nat /\ row[r].cleared \in Nat
    BY TimesAreNumbers
<1>2. ASSUME NEW w \in Watchers, Writes(w) PROVE TimesInv'
    <2>1. watch[w].at = now /\ Before(now) /\ now' = now
        BY <1>2 DEF Writes, TimesInv
    <2>2. ASSUME NEW r \in Ids'
          PROVE  /\ row'[r].opened < now + 1 /\ row'[r].cleared < now + 1
                 /\ row'[r].cleared # 0 => row'[r].opened <= row'[r].cleared
        <3>1. CASE r \in Ids
            <4>1. /\ row'[r].opened = row[r].opened /\ row[r].opened < now /\ row[r].cleared < now
                  /\ row[r].cleared # 0 => row[r].opened <= row[r].cleared
                BY <1>2, <2>1, <3>1, WrittenTimes DEF Before, TimesInv, Open
            <4>2. row'[r].cleared = row[r].cleared \/ row'[r].cleared = now
                BY <1>2, <2>1, <3>1, WrittenTimes
            <4> QED BY <1>1, <3>1, <4>1, <4>2
        <3>2. CASE r \notin Ids
            <4>1. row'[r].opened = now /\ row'[r].cleared = 0
                BY <1>2, <2>1, <2>2, <3>2, WrittenTimes
            <4> QED BY <1>1, <4>1
        <3> QED BY <3>1, <3>2
    <2>3. \A v \in Watchers : watch'[v].pc = "people"
        BY <1>2, TimesAreNumbers DEF OneSweeper, Writes, Sweeps, Swept, NotifyInv, WatchInv
    <2> QED BY <2>1, <2>2, <2>3 DEF TimesInv, Before, Open
<1>3. CASE \A w \in Watchers : ~Writes(w)
    <2>1. SameTimes
        BY <1>3, TimesKept
    <2>2. \A t : Before(t) => Before(t)'
        BY <2>1 DEF Before, SameTimes
    <2>3. (\A r \in Ids : ~Open(r) => row[r].opened <= row[r].cleared)'
        BY <2>1 DEF SameTimes, TimesInv, Open
    <2>4. ASSUME now' = now, \A w \in Watchers : watch'[w].pc = "write" => watch'[w] = watch[w]
          PROVE  TimesInv'
        BY <2>1, <2>3, <2>4 DEF TimesInv, Before, SameTimes
    <2>5. ASSUME NEW w \in Watchers, NEW x \in People, Reads(w, x) PROVE TimesInv'
        <3>1. CASE /\ watch'[w].pc = "write" /\ watch'[w].at = now + 1 /\ now' = now + 1
            <4>1. \A v \in Watchers : watch'[v].at = now'
                BY <3>1 DEF OneSweeper
            <4>2. (Before(now) /\ Before(now + 1))'
                <5>1. Before(now + 1)
                    BY DEF TimesInv
                <5>2. \A r \in Ids' : /\ row'[r].opened < now + 1 /\ row'[r].cleared < now + 1
                                      /\ row'[r].opened \in Nat /\ row'[r].cleared \in Nat
                    BY <1>1, <2>1, <5>1 DEF Before, SameTimes
                <5> QED BY <1>1, <3>1, <5>2 DEF Before
            <4> QED BY <2>3, <4>1, <4>2 DEF TimesInv
        <3>2. CASE now' = now /\ watch'[w].pc = "people"
            BY <2>4, <3>2 DEF OneSweeper
        <3>3. watch[w] \in Sweep /\ watch[w].pc = "people" /\ watch \in [Watchers -> Sweep]
            BY <2>5, TimesAreNumbers DEF Reads, NotifyInv, WatchInv
        <3>4. \A s : Sweeps(w, s) => watch'[w] = s
            BY <3>3 DEF Sweeps
        <3>5. CASE now' = now /\ \E s \in {Swept, [watch[w] EXCEPT !.todo = @ \ {x}]} : Sweeps(w, s)
            <4>1. [watch[w] EXCEPT !.todo = @ \ {x}].pc = "people" /\ Swept.pc = "people"
                BY <3>3 DEF Sweep, Swept
            <4> QED BY <3>2, <3>4, <3>5, <4>1
        <3>6. CASE /\ now' = now + 1
                   /\ \E stopped, opens :
                         Sweeps(w, [watch[w] EXCEPT !.pc = "write", !.of = x, !.stopped = stopped,
                                                    !.opens = opens, !.at = now + 1])
            <4>1. PICK stopped, opens :
                     Sweeps(w, [watch[w] EXCEPT !.pc = "write", !.of = x, !.stopped = stopped,
                                                !.opens = opens, !.at = now + 1])
                BY <3>6
            <4>2. watch'[w] = [watch[w] EXCEPT !.pc = "write", !.of = x, !.stopped = stopped,
                                               !.opens = opens, !.at = now + 1]
                BY <3>4, <4>1
            <4>3. watch'[w].pc = "write" /\ watch'[w].at = now + 1
                BY <3>3, <4>2 DEF Sweep
            <4> QED BY <3>1, <3>6, <4>3
        <3> QED BY <2>5, <3>5, <3>6 DEF Reads
    <2>6. ASSUME NEW w \in Watchers, Derive(w) \/ SweepStops(w) PROVE TimesInv'
        <3>1. now' = now /\ watch \in [Watchers -> Sweep]
            BY <2>6 DEF Derive, SweepStops, NotifyInv, WatchInv
        <3>2. Swept.pc = "people"
            BY DEF Swept
        <3>3. \E s : Sweeps(w, s) /\ s.pc = "people"
            <4> DEFINE s == [Swept EXCEPT !.wanted = Wanted,
                                          !.todo = Wanted \cup {x \in People : OpenFor(x) # {}},
                                          !.recovered = ~failing /\ hearing # {}]
            <4>1. s.pc = "people"
                BY DEF Swept
            <4>2. Derive(w) => Sweeps(w, s)
                BY DEF Derive
            <4> HIDE DEF s
            <4> QED BY <2>6, <3>2, <4>1, <4>2 DEF SweepStops
        <3>4. watch'[w].pc = "people"
            BY <3>1, <3>3 DEF Sweeps
        <3> QED BY <2>4, <3>1, <3>4 DEF OneSweeper
    <2>7. ASSUME UNCHANGED <<now, watch>> PROVE TimesInv'
        BY <2>4, <2>7
    <2>8. ASSUME NEW p \in Carriers, Carrying(p) \/ Mishaps(p) PROVE UNCHANGED <<now, watch>>
        BY <2>8 DEF Carrying, Begins, Stakes, ReadsPrior, WalkStep, WalkEnds, Hands, Retakes,
                    Again, Received, Refused, Settles, Mishaps, Overtakes, AnswerLost,
                    SettleLost, CycleStops
    <2>9. CASE UNCHANGED notifyVars \/ Turns \/ (\E x \in People : Concerns(x)) \/ Overdue
        BY <2>7, <2>9 DEF notifyVars, Turns, Concerns, Overdue
    <2> QED BY <1>3, <2>5, <2>6, <2>7, <2>8, <2>9 DEF NotifyNext, Watching
<1> QED BY <1>2, <1>3

\* A moment at which none was open, and at which one cleared, stays one: what is
\* written later is dated later.
LEMMA EndsStand ==
    ASSUME NotifyInv, TimesInv, [NotifyNext]_notifyVars, NEW r \in Ids, Ends(r)
    PROVE  r \in Ids' /\ Ends(r)'
<1> DEFINE t == row[r].cleared
<1>1. t # 0 /\ t < now + 1 /\ t \in Nat /\ NoneOpen(t)
    BY TimesAreNumbers DEF Ends, Open, TimesInv, Before
<1>2. r \in Ids' /\ row'[r].cleared = t
    BY TableGrows DEF Grows, Ends
<1>3. ASSUME NEW n \in Ids', row'[n].opened <= t
      PROVE  row'[n].cleared # 0 /\ row'[n].cleared <= t
    <2>1. CASE n \in Ids
        <3>1. row'[n].opened = row[n].opened
            BY <2>1, TableGrows DEF Grows
        <3>2. row[n].cleared # 0 /\ row[n].cleared <= t
            BY <1>1, <1>3, <2>1, <3>1 DEF NoneOpen, Open
        <3> QED BY <2>1, <3>2, TableGrows DEF Grows, Open
    <2>2. CASE n \notin Ids
        <3>1. PICK w \in Watchers : Writes(w)
            BY <2>2, TimesKept DEF SameTimes
        <3>2. row'[n].opened = now /\ t < now
            BY <2>2, <3>1, WrittenTimes DEF TimesInv, Writes, Before
        <3> QED BY <1>1, <1>3, <3>2, TimesAreNumbers
    <2> QED BY <2>1, <2>2
<1> HIDE DEF t
<1>4. NoneOpen(row[r].cleared)'
    BY <1>2, <1>3 DEF NoneOpen, Open
<1> QED BY <1>1, <1>2, <1>4 DEF Ends, Open

LEMMA FirstLasted ==
    ASSUME NotifyInv, TimesInv, [NotifyNext]_notifyVars, FirstLasts'
    PROVE  FirstLasts
BY EndsStand DEF FirstLasts

----------------------------------------------------------------------------
(* The walks. *)

\* A cycle that holds no walk, or has just judged what it read.
LEMMA Rests ==
    ASSUME NEW c \in Cycle
    PROVE  /\ Waits.pc = "idle"
           /\ \A t : [Waits EXCEPT !.pc = "next", !.todo = t].pc = "next"
           /\ Onward(c).pc \in {"idle", "next"}
           /\ \/ Judged(c).pc \in {"idle", "next"}
              \/ Judged(c).pc = "again" /\ Judged(c).held = c.held /\ ~InFlight(c.held)
<1>1. Waits.pc = "idle" /\ \A t : [Waits EXCEPT !.pc = "next", !.todo = t].pc = "next"
    BY DEF Waits
<1>2. Onward(c).pc \in {"idle", "next"}
    BY <1>1 DEF Onward
<1>3. CASE Judged(c) = Onward(c)
    BY <1>1, <1>2, <1>3
<1>4. CASE Judged(c) = [c EXCEPT !.pc = "again"] /\ ~InFlight(c.held)
    <2>1. [c EXCEPT !.pc = "again"].pc = "again" /\ [c EXCEPT !.pc = "again"].held = c.held
        BY DEF Cycle
    <2> QED BY <1>1, <1>2, <1>4, <2>1
<1>5. Judged(c) = Onward(c) \/ (Judged(c) = [c EXCEPT !.pc = "again"] /\ ~InFlight(c.held))
    BY Zenon DEF Judged, InFlight
<1> QED BY <1>3, <1>4, <1>5

\* What a walk has found stays so while others write.
LEMMA WalkerStays ==
    ASSUME NotifyInv, TimesInv, [NotifyNext]_notifyVars, NEW c, GoodWalker(c)
    PROVE  GoodWalker(c)'
<1>1. Ids \subseteq Ids' /\ \A r \in Ids : row[r].cleared # 0 => row'[r].cleared = row[r].cleared
    BY TableGrows DEF Grows, Open
<1>2. ~FirstLasts => ~FirstLasts'
    BY FirstLasted
<1> QED BY <1>1, <1>2 DEF GoodWalker

LEMMA WalkNext ==
    ASSUME NotifyInv, TimesInv, WalkInv, [NotifyNext]_notifyVars,
           NEW p \in Carriers, NEW c, Carries(p, c), GoodWalker(c)
    PROVE  WalkInv'
<1>1. \A q \in Carriers : carry'[q] = IF q = p THEN c ELSE carry[q]
    BY DEF NotifyInv, CarryInv, Carries
<1>2. ASSUME NEW q \in Carriers, NEW d, carry'[q] = d, GoodWalker(d) PROVE GoodWalker(carry[q])'
    <2>1. GoodWalker(d)'
        BY <1>2, WalkerStays
    <2> QED BY <1>2, <2>1 DEF GoodWalker
<1> QED BY <1>1, <1>2 DEF WalkInv

LEMMA WalksKept ==
    ASSUME NotifyInv, TimesInv, WalkInv, [NotifyNext]_notifyVars, UNCHANGED carry
    PROVE  WalkInv'
<1>1. ASSUME NEW q \in Carriers, NEW d, carry'[q] = d, GoodWalker(d) PROVE GoodWalker(carry[q])'
    <2>1. GoodWalker(d)'
        BY <1>1, WalkerStays
    <2> QED BY <1>1, <2>1 DEF GoodWalker
<1> QED BY <1>1 DEF WalkInv

\* Nothing lies across the end of a row that cleared: at that moment none was open.
LEMMA NothingAcross ==
    ASSUME NotifyInv, NEW r \in Ids, row[r].cleared # 0, Across(r, row[r].cleared) = {}
    PROVE  Ends(r)
<1>1. \A n \in Ids : row[n].opened \in Nat /\ row[n].cleared \in Nat
    BY TimesAreNumbers
<1>2. ASSUME NEW n \in Ids, row[n].opened <= row[r].cleared
      PROVE  ~Open(n) /\ row[n].cleared <= row[r].cleared
    <2>1. CASE n = r
        BY <1>1, <2>1 DEF Open
    <2>2. CASE n # r
        <3>1. ~(Open(n) \/ row[n].cleared > row[r].cleared)
            BY <1>2, <2>2 DEF Across
        <3> QED BY <1>1, <3>1
    <2> QED BY <2>1, <2>2
<1> QED BY <1>2 DEF Ends, NoneOpen, Open

LEMMA WalkInvStep ==
    ASSUME NotifyInv, TimesInv, WalkInv, [NotifyNext]_notifyVars
    PROVE  WalkInv'
<1>1. ASSUME NEW p \in Carriers, NEW c, Carries(p, c),
             c.pc \notin {"walk", "hand", "retake", "again"}
      PROVE  WalkInv'
    BY <1>1, WalkNext DEF GoodWalker
<1>2. ASSUME NEW p \in Carriers PROVE carry[p] \in Cycle /\ GoodCycle(carry[p]) /\ GoodWalker(carry[p])
    BY DEF NotifyInv, CarryInv, WalkInv
<1>3. ASSUME NEW p \in Carriers, NEW c \in Cycle, Carries(p, Judged(c)) PROVE WalkInv'
    <2>1. GoodWalker(Judged(c))
        BY Rests DEF GoodWalker
    <2> QED BY <1>3, <2>1, WalkNext
<1>4. ASSUME NEW p \in Carriers, NEW c \in Cycle, Carries(p, Onward(c)) \/ Carries(p, Waits)
      PROVE  WalkInv'
    <2>1. Onward(c).pc \in {"idle", "next"} /\ Waits.pc = "idle"
        BY Rests
    <2> HIDE DEF Onward, Waits
    <2> QED BY <1>1, <1>4, <2>1
<1>5. ASSUME NEW p \in Carriers, Begins(p) \/ Overtakes(p) PROVE WalkInv'
    <2> DEFINE c == [Waits EXCEPT !.pc = "next", !.todo = Window]
    <2>1. c.pc = "next" /\ Carries(p, c)
        BY <1>5 DEF Waits, Begins, Overtakes
    <2> HIDE DEF c
    <2> QED BY <1>1, <2>1
<1>6. ASSUME NEW p \in Carriers, Stakes(p) PROVE WalkInv'
    <2>1. PICK r \in First(carry[p].todo) :
              LET c == [carry[p] EXCEPT !.row = r, !.held = delivery] IN
              \/ Carries(p, [c EXCEPT !.pc = "sending"])
              \/ Carries(p, Judged(c))
              \/ Carries(p, [c EXCEPT !.pc = "prior"])
        BY <1>6 DEF Stakes
    <2> DEFINE c == [carry[p] EXCEPT !.row = r, !.held = delivery]
    <2>2. r \in Nat /\ c \in Cycle
        <3>1. r \in Nat
            BY <1>2, RowTypes DEF First, GoodCycle, NotifyInv
        <3> QED BY <1>2, <3>1 DEF Cycle, NotifyInv, DeliveryInv
    <2> HIDE DEF c
    <2>3. [c EXCEPT !.pc = "sending"].pc = "sending" /\ [c EXCEPT !.pc = "prior"].pc = "prior"
        BY <2>2 DEF Cycle
    <2>4. \/ Carries(p, [c EXCEPT !.pc = "sending"]) \/ Carries(p, [c EXCEPT !.pc = "prior"])
          \/ Carries(p, Judged(c))
        BY <2>1 DEF c
    <2> QED BY <1>1, <1>3, <2>2, <2>3, <2>4
<1>7. ASSUME NEW p \in Carriers, ReadsPrior(p) PROVE WalkInv'
    <2> DEFINE c == [carry[p] EXCEPT !.pc = "walk", !.prior = carry[p].held.row,
                                     !.end = row[carry[p].held.row].cleared]
    <2>1. carry[p].held.row \in Ids
        BY <1>2, <1>7 DEF ReadsPrior, GoodCycle, InTable
    <2>2. c.pc = "walk" /\ c.prior = carry[p].held.row /\ c.end = row[carry[p].held.row].cleared
        BY <1>2 DEF Cycle
    <2>3. Carries(p, c)
        BY <1>7 DEF ReadsPrior
    <2> HIDE DEF c
    <2>4. GoodWalker(c)
        BY <2>1, <2>2 DEF GoodWalker
    <2> QED BY <2>3, <2>4, WalkNext
<1>8. ASSUME NEW p \in Carriers, WalkStep(p) PROVE WalkInv'
    <2>1. carry[p].prior \in Ids /\ row[carry[p].prior].cleared = carry[p].end /\ carry[p].end # 0
        BY <1>2, <1>8 DEF WalkStep, GoodWalker
    <2>2. CASE Across(carry[p].prior, carry[p].end) = {} /\ Carries(p, [carry[p] EXCEPT !.pc = "retake"])
        <3> DEFINE c == [carry[p] EXCEPT !.pc = "retake"]
        <3>1. c.pc = "retake" /\ Carries(p, c)
            BY <1>2, <2>2 DEF Cycle
        <3>2. ~FirstLasts
            BY <2>1, <2>2, NothingAcross DEF FirstLasts
        <3> HIDE DEF c
        <3>3. GoodWalker(c)
            BY <3>1, <3>2 DEF GoodWalker
        <3> QED BY <3>1, <3>3, WalkNext
    <2>3. ASSUME NEW r \in Ids, Carries(p, [carry[p] EXCEPT !.prior = r, !.end = row[r].cleared])
          PROVE  WalkInv'
        <3> DEFINE c == [carry[p] EXCEPT !.prior = r, !.end = row[r].cleared]
        <3>1. c.pc = "walk" /\ c.prior = r /\ c.end = row[r].cleared /\ Carries(p, c)
            BY <1>2, <1>8, <2>3 DEF Cycle, WalkStep
        <3> HIDE DEF c
        <3>2. GoodWalker(c)
            BY <3>1 DEF GoodWalker
        <3> QED BY <3>1, <3>2, WalkNext
    <2>4. \A prior, end : Longest(Across(prior, end)) \subseteq Ids
        BY DEF Longest, Across
    <2> QED BY <1>8, <2>2, <2>3, <2>4 DEF WalkStep
<1>9. ASSUME NEW p \in Carriers, WalkEnds(p) PROVE WalkInv'
    <2>1. CASE Carries(p, Judged(carry[p]))
        BY <1>2, <1>3, <2>1
    <2>2. CASE Carries(p, [carry[p] EXCEPT !.pc = "hand"])
        <3> DEFINE c == [carry[p] EXCEPT !.pc = "hand"]
        <3>1. c.pc = "hand" /\ c.prior = carry[p].prior /\ Carries(p, c)
            BY <1>2, <2>2 DEF Cycle
        <3>2. carry[p].prior \in Ids
            BY <1>2, <1>9 DEF GoodWalker, WalkEnds
        <3> HIDE DEF c
        <3>3. GoodWalker(c)
            BY <3>1, <3>2 DEF GoodWalker
        <3> QED BY <3>1, <3>3, WalkNext
    <2> QED BY <1>9, <2>1, <2>2 DEF WalkEnds
<1>10. ASSUME NEW p \in Carriers, Hands(p) PROVE WalkInv'
    BY <1>2, <1>3, <1>10 DEF Hands
<1>11. ASSUME NEW p \in Carriers, Retakes(p) PROVE WalkInv'
    <2> DEFINE c == [carry[p] EXCEPT !.held = Anew(carry[p].row)]
    <2>1. c \in Cycle
        <3>1. Anew(carry[p].row) \in Delivery
            BY <1>2, StakedTypes DEF Cycle
        <3> QED BY <1>2, <3>1 DEF Cycle
    <2>2. Carries(p, Judged(c)) \/ Carries(p, Judged(carry[p]))
        BY <1>11 DEF Retakes
    <2> HIDE DEF c
    <2> QED BY <1>2, <1>3, <2>1, <2>2
<1>12. ASSUME NEW p \in Carriers, Again(p) PROVE WalkInv'
    <2> DEFINE c == [carry[p] EXCEPT !.pc = "sending"]
    <2>1. c.pc = "sending"
        BY <1>2 DEF Cycle
    <2>2. Carries(p, c) \/ Carries(p, Onward(carry[p]))
        BY <1>12 DEF Again
    <2> HIDE DEF c
    <2> QED BY <1>1, <1>2, <1>4, <2>1, <2>2
<1>13. ASSUME NEW p \in Carriers, Received(p) \/ Refused(p) \/ AnswerLost(p) PROVE WalkInv'
    <2>1. \A went : [carry[p] EXCEPT !.pc = "settling", !.went = went].pc = "settling"
        BY <1>2 DEF Cycle
    <2>2. \E went : Carries(p, [carry[p] EXCEPT !.pc = "settling", !.went = went])
        BY <1>13 DEF Received, Refused, AnswerLost, Answered
    <2> QED BY <1>1, <2>1, <2>2
<1>14. ASSUME NEW p \in Carriers, Settles(p) \/ SettleLost(p) \/ CycleStops(p) PROVE WalkInv'
    BY <1>2, <1>4, <1>14 DEF Settles, SettleLost, CycleStops
<1>15. ASSUME UNCHANGED carry PROVE WalkInv'
    BY <1>15, WalksKept
<1>16. CASE UNCHANGED notifyVars \/ Turns \/ (\E x \in People : Concerns(x)) \/ Overdue
    BY <1>15, <1>16 DEF notifyVars, Turns, Concerns, Overdue
<1>17. ASSUME NEW w \in Watchers, Watching(w) \/ SweepStops(w) PROVE WalkInv'
    BY <1>15, <1>17 DEF Watching, Derive, Reads, Writes, SweepStops
<1> QED BY <1>5, <1>6, <1>7, <1>8, <1>9, <1>10, <1>11, <1>12, <1>13, <1>14, <1>16, <1>17
        DEF NotifyNext, Carrying, Mishaps

----------------------------------------------------------------------------
(* The requests. *)

\* A step of a cycle that sends nothing new and reads of the delivery what it is.
LEMMA QuietStep ==
    ASSUME NotifyInv, OneSends, NEW p \in Carriers, NEW c, Carries(p, c),
           Sends(c) => Sends(carry[p]),
           Goes(c) => \/ Goes(carry[p]) /\ c.held = carry[p].held
                      \/ delivery.row # 0 /\ c.held = delivery,
           delivery.row # 0 => delivery'.row # 0,
           delivery'.attempts = delivery.attempts,
           SomebodySends /\ InFlight(delivery) => InFlight(delivery')
    PROVE  OneSends'
<1>1. \A q \in Carriers : carry'[q] = IF q = p THEN c ELSE carry[q]
    BY DEF NotifyInv, CarryInv, Carries
<1>2. \A q \in Carriers : Sends(carry'[q]) => Sends(carry[q])
    BY <1>1
<1>3. SomebodySends' => SomebodySends
    BY <1>2 DEF SomebodySends, Sends
<1>4. delivery.attempts \in Nat /\ \A q \in Carriers : carry[q].held.attempts \in Nat
    BY DEF NotifyInv, DeliveryInv, CarryInv, GoodCycle, Cycle, Delivery
<1>5. ASSUME NEW q \in Carriers, Goes(carry'[q])
      PROVE  /\ delivery'.row # 0
             /\ carry'[q].held.attempts <= delivery'.attempts
             /\ SomebodySends' /\ carry'[q].held.attempts = delivery'.attempts => InFlight(carry'[q].held)
    <2>1. CASE Goes(carry[q]) /\ carry'[q].held = carry[q].held
        <3>1. FromBefore(carry[q])
            BY <2>1 DEF OneSends
        <3> QED BY <1>3, <2>1, <3>1 DEF FromBefore
    <2>2. CASE delivery.row # 0 /\ carry'[q].held = delivery
        BY <1>3, <1>4, <2>2 DEF OneSends
    <2> QED BY <1>1, <1>5, <2>1, <2>2
<1>6. \A q, v \in Carriers : Sends(carry'[q]) /\ Sends(carry'[v]) => q = v
    BY <1>2 DEF OneSends
<1>7. SomebodySends' => delivery'.row # 0 /\ InFlight(delivery')
    BY <1>3 DEF OneSends
<1> QED BY <1>5, <1>6, <1>7 DEF OneSends, FromBefore, Goes, Sends, InFlight

\* A request begins where none is out, and whoever read the delivery read of an
\* earlier attempt.
LEMMA SendingStep ==
    ASSUME NotifyInv, NEW p \in Carriers, NEW c, Carries(p, c), Sends(c),
           ~SomebodySends, delivery'.row # 0, InFlight(delivery'), delivery'.attempts \in Nat,
           \A q \in Carriers : Goes(carry[q]) => carry[q].held.attempts < delivery'.attempts
    PROVE  OneSends'
<1>1. \A q \in Carriers : carry'[q] = IF q = p THEN c ELSE carry[q]
    BY DEF NotifyInv, CarryInv, Carries
<1>2. \A q \in Carriers : carry[q].held.attempts \in Nat
    BY DEF NotifyInv, CarryInv, GoodCycle, Cycle, Delivery
<1>3. ~Goes(c)
    BY DEF Goes, Sends
<1>4. ASSUME NEW q \in Carriers, Goes(carry'[q])
      PROVE  /\ carry'[q].held.attempts <= delivery'.attempts
             /\ carry'[q].held.attempts # delivery'.attempts
    <2>1. carry'[q] = carry[q] /\ Goes(carry[q])
        BY <1>1, <1>3, <1>4
    <2>2. carry[q].held.attempts < delivery'.attempts
        BY <2>1
    <2> QED BY <1>2, <2>1, <2>2
<1>5. \A q, v \in Carriers : Sends(carry'[q]) /\ Sends(carry'[v]) => q = v
    BY <1>1 DEF SomebodySends
<1> QED BY <1>4, <1>5 DEF OneSends, FromBefore, Goes, Sends, InFlight

LEMMA OneSendsStep ==
    ASSUME NotifyInv, TimesInv, WalkInv, FirstLasts, OneSends, [NotifyNext]_notifyVars
    PROVE  OneSends'
<1>1. ASSUME NEW p \in Carriers
      PROVE  carry[p] \in Cycle /\ GoodCycle(carry[p]) /\ GoodWalker(carry[p])
    BY DEF NotifyInv, CarryInv, WalkInv
<1>2. /\ delivery \in Delivery /\ delivery.attempts \in Nat
      /\ \A p \in Carriers : carry[p].held.attempts \in Nat
    BY DEF NotifyInv, DeliveryInv, CarryInv, GoodCycle, Cycle, Delivery
<1>3. ASSUME NEW p \in Carriers, NEW c, Carries(p, c), UNCHANGED delivery, ~Sends(c), ~Goes(c)
      PROVE  OneSends'
    BY <1>3, QuietStep
<1>4. ASSUME NEW p \in Carriers, NEW c \in Cycle, UNCHANGED delivery,
             Carries(p, Onward(c)) \/ Carries(p, Waits)
      PROVE  OneSends'
    <2>1. Onward(c).pc \in {"idle", "next"} /\ Waits.pc = "idle"
        BY Rests
    <2>2. ~Sends(Onward(c)) /\ ~Goes(Onward(c)) /\ ~Sends(Waits) /\ ~Goes(Waits)
        BY <2>1 DEF Sends, Goes
    <2> HIDE DEF Onward, Waits
    <2> QED BY <1>3, <1>4, <2>2
<1>5. ASSUME NEW p \in Carriers, Begins(p) \/ Overtakes(p) PROVE OneSends'
    <2> DEFINE c == [Waits EXCEPT !.pc = "next", !.todo = Window]
    <2>1. c.pc = "next" /\ Carries(p, c) /\ UNCHANGED delivery
        BY <1>5 DEF Waits, Begins, Overtakes
    <2> HIDE DEF c
    <2> QED BY <1>3, <2>1 DEF Sends, Goes
<1>6. ASSUME NEW p \in Carriers, Stakes(p) PROVE OneSends'
    <2>1. PICK r \in First(carry[p].todo) :
              LET c == [carry[p] EXCEPT !.row = r, !.held = delivery] IN
              IF delivery.row = 0
              THEN /\ delivery' = [NoDelivery EXCEPT !.row = r, !.attempts = 1, !.out = TRUE]
                   /\ Carries(p, [c EXCEPT !.pc = "sending"])
              ELSE /\ UNCHANGED delivery
                   /\ Carries(p, IF delivery.row = r THEN Judged(c) ELSE [c EXCEPT !.pc = "prior"])
        BY <1>6 DEF Stakes
    <2> DEFINE c == [carry[p] EXCEPT !.row = r, !.held = delivery]
    <2>2. r \in Nat /\ r # 0 /\ c \in Cycle /\ c.held = delivery
        <3>1. r \in Nat /\ r # 0
            BY <1>1, RowTypes DEF First, GoodCycle, NotifyInv
        <3> QED BY <1>1, <1>2, <3>1 DEF Cycle
    <2>3. CASE delivery.row = 0
        <3>1. ~SomebodySends /\ \A q \in Carriers : ~Goes(carry[q])
            BY <2>3 DEF OneSends, FromBefore
        <3>2. delivery' = [NoDelivery EXCEPT !.row = r, !.attempts = 1, !.out = TRUE]
            BY <2>1, <2>3
        <3>3. delivery'.row # 0 /\ delivery'.attempts = 1 /\ InFlight(delivery')
            BY <2>2, <3>2 DEF NoDelivery, InFlight
        <3>4. Carries(p, [c EXCEPT !.pc = "sending"])
            BY <2>1, <2>3
        <3> HIDE DEF c
        <3>5. Sends([c EXCEPT !.pc = "sending"])
            BY <2>2 DEF Cycle, Sends
        <3> QED BY <3>1, <3>3, <3>4, <3>5, SendingStep
    <2>4. CASE delivery.row = r
        <3>1. Carries(p, Judged(c)) /\ UNCHANGED delivery
            BY <2>1, <2>2, <2>4
        <3> HIDE DEF c
        <3>2. ~Sends(Judged(c)) /\ (Goes(Judged(c)) => Judged(c).held = delivery)
            BY <2>2, Rests DEF Sends, Goes
        <3> QED BY <2>2, <2>4, <3>1, <3>2, QuietStep
    <2>5. CASE delivery.row # 0 /\ delivery.row # r
        <3>1. Carries(p, [c EXCEPT !.pc = "prior"]) /\ UNCHANGED delivery
            BY <2>1, <2>5
        <3> HIDE DEF c
        <3>2. ~Sends([c EXCEPT !.pc = "prior"]) /\ [c EXCEPT !.pc = "prior"].held = delivery
            BY <2>2 DEF Cycle, Sends
        <3> QED BY <2>5, <3>1, <3>2, QuietStep
    <2> QED BY <2>3, <2>4, <2>5
\* On the way, what was read is carried along.
<1>7. ASSUME NEW p \in Carriers, NEW c, Carries(p, c), UNCHANGED delivery, ~Sends(c),
             Goes(carry[p]), c.held = carry[p].held
      PROVE  OneSends'
    BY <1>7, QuietStep
<1>8. ASSUME NEW p \in Carriers, Goes(carry[p])
      PROVE  ~Sends(Judged(carry[p])) /\ (Goes(Judged(carry[p])) => Judged(carry[p]).held = carry[p].held)
    BY <1>1, Rests DEF Sends, Goes
<1>9. ASSUME NEW p \in Carriers, ReadsPrior(p) \/ WalkStep(p) PROVE OneSends'
    <2>1. Goes(carry[p]) /\ UNCHANGED delivery
        BY <1>9 DEF ReadsPrior, WalkStep, Goes
    <2>2. CASE \E prior, end : \/ Carries(p, [carry[p] EXCEPT !.pc = "walk", !.prior = prior, !.end = end])
                               \/ /\ carry[p].pc = "walk"
                                  /\ Carries(p, [carry[p] EXCEPT !.prior = prior, !.end = end])
        <3>1. PICK prior, end : \/ Carries(p, [carry[p] EXCEPT !.pc = "walk", !.prior = prior, !.end = end])
                                \/ /\ carry[p].pc = "walk"
                                   /\ Carries(p, [carry[p] EXCEPT !.prior = prior, !.end = end])
            BY <2>2
        <3> DEFINE c == [carry[p] EXCEPT !.pc = "walk", !.prior = prior, !.end = end]
                   d == [carry[p] EXCEPT !.prior = prior, !.end = end]
        <3>2. /\ c.pc = "walk" /\ c.held = carry[p].held
              /\ d.pc = carry[p].pc /\ d.held = carry[p].held
            BY <1>1 DEF Cycle
        <3>3. Carries(p, c) \/ (carry[p].pc = "walk" /\ Carries(p, d))
            BY <3>1
        <3> HIDE DEF c, d
        <3> QED BY <1>7, <2>1, <3>2, <3>3 DEF Sends
    <2>3. CASE Carries(p, [carry[p] EXCEPT !.pc = "retake"])
        <3> DEFINE c == [carry[p] EXCEPT !.pc = "retake"]
        <3>1. c.pc = "retake" /\ Carries(p, c)
            BY <1>1, <2>3 DEF Cycle
        <3> HIDE DEF c
        <3> QED BY <1>3, <2>1, <3>1 DEF Sends, Goes
    <2> QED BY <1>9, <2>2, <2>3 DEF ReadsPrior, WalkStep
<1>10. ASSUME NEW p \in Carriers, WalkEnds(p) PROVE OneSends'
    <2>1. Goes(carry[p]) /\ UNCHANGED delivery
        BY <1>10 DEF WalkEnds, Goes
    <2>2. CASE Carries(p, Judged(carry[p]))
        BY <1>8, <2>1, <2>2, QuietStep
    <2>3. CASE Carries(p, [carry[p] EXCEPT !.pc = "hand"])
        <3> DEFINE c == [carry[p] EXCEPT !.pc = "hand"]
        <3>1. c.pc = "hand" /\ c.held = carry[p].held /\ Carries(p, c)
            BY <1>1, <2>3 DEF Cycle
        <3> HIDE DEF c
        <3> QED BY <1>7, <2>1, <3>1 DEF Sends
    <2> QED BY <1>10, <2>2, <2>3 DEF WalkEnds
<1>11. ASSUME NEW p \in Carriers, Hands(p) PROVE OneSends'
    <2>1. Goes(carry[p]) /\ carry[p].prior # 0
        BY <1>1, <1>11, RowTypes DEF Hands, Goes, GoodWalker, NotifyInv
    <2>2. Carries(p, Judged(carry[p]))
        BY <1>11 DEF Hands
    <2>3. /\ delivery.row # 0 => delivery'.row # 0
          /\ delivery'.attempts = delivery.attempts
          /\ InFlight(delivery) => InFlight(delivery')
        BY <1>2, <1>11, <2>1 DEF Hands, Delivery, InFlight
    <2> QED BY <1>8, <2>1, <2>2, <2>3, QuietStep
<1>12. ASSUME NEW p \in Carriers, Retakes(p) PROVE FALSE
    BY <1>1, <1>12 DEF Retakes, GoodWalker
<1>13. ASSUME NEW p \in Carriers, Again(p) PROVE OneSends'
    <2>1. Goes(carry[p]) /\ ~InFlight(carry[p].held)
        BY <1>1, <1>13 DEF Again, Goes, GoodWalker
    <2>2. CASE UNCHANGED delivery /\ Carries(p, Onward(carry[p]))
        BY <1>1, <1>4, <2>2
    <2>3. CASE /\ delivery.attempts = carry[p].held.attempts
               /\ delivery' = [delivery EXCEPT !.attempts = @ + 1, !.out = TRUE, !.failed = FALSE]
               /\ Carries(p, [carry[p] EXCEPT !.pc = "sending"])
        <3>1. FromBefore(carry[p])
            BY <2>1 DEF OneSends
        <3>2. ~SomebodySends /\ delivery.row # 0
            BY <2>1, <2>3, <3>1 DEF FromBefore
        <3>3. /\ delivery'.row # 0 /\ delivery'.attempts = delivery.attempts + 1
              /\ InFlight(delivery')
            BY <1>2, <2>3, <3>2 DEF Delivery, InFlight
        <3>4. \A q \in Carriers : Goes(carry[q]) => carry[q].held.attempts < delivery'.attempts
            <4>1. \A q \in Carriers : Goes(carry[q]) => carry[q].held.attempts <= delivery.attempts
                BY DEF OneSends, FromBefore
            <4>2. delivery'.attempts = delivery.attempts + 1
                BY <3>3
            <4> QED BY <1>2, <4>1, <4>2
        <3> DEFINE c == [carry[p] EXCEPT !.pc = "sending"]
        <3>5. Sends(c) /\ Carries(p, c)
            BY <1>1, <2>3 DEF Cycle, Sends
        <3>6. delivery'.attempts \in Nat
            BY <1>2, <3>3
        <3> HIDE DEF c
        <3> QED BY <3>2, <3>3, <3>4, <3>5, <3>6, SendingStep
    <2> QED BY <1>13, <2>2, <2>3 DEF Again, NotTakenSince
<1>14. ASSUME NEW p \in Carriers, Received(p) \/ Refused(p) \/ AnswerLost(p) PROVE OneSends'
    <2>1. PICK went : Carries(p, [carry[p] EXCEPT !.pc = "settling", !.went = went])
        BY <1>14 DEF Received, Refused, AnswerLost, Answered
    <2> DEFINE c == [carry[p] EXCEPT !.pc = "settling", !.went = went]
    <2>2. c.pc = "settling" /\ Carries(p, c)
        BY <1>1, <2>1 DEF Cycle
    <2>3. Sends(carry[p]) /\ UNCHANGED delivery
        BY <1>14 DEF Received, Refused, AnswerLost, Sends
    <2> HIDE DEF c
    <2>4. ~Goes(c)
        BY <2>2 DEF Goes
    <2> QED BY <2>2, <2>3, <2>4, QuietStep
\* Only who sends settles, so that nobody sends any more.
<1>15. ASSUME NEW p \in Carriers, Settles(p) PROVE OneSends'
    <2>1. Onward(carry[p]).pc \in {"idle", "next"} /\ Carries(p, Onward(carry[p]))
        BY <1>1, <1>15, Rests DEF Settles
    <2>2. \A q \in Carriers : carry'[q] = IF q = p THEN Onward(carry[p]) ELSE carry[q]
        BY <2>1 DEF NotifyInv, CarryInv, Carries
    <2>3. \A q \in Carriers : ~Sends(carry'[q])
        BY <1>15, <2>1, <2>2 DEF OneSends, Settles, Sends
    <2>4. delivery'.row = delivery.row /\ delivery'.attempts = delivery.attempts
        BY <1>2, <1>15 DEF Settles, Recorded, Delivery
    <2>5. \A q \in Carriers : Goes(carry'[q]) => Goes(carry[q]) /\ carry'[q] = carry[q]
        BY <2>1, <2>2 DEF Goes
    <2> QED BY <2>3, <2>4, <2>5 DEF OneSends, FromBefore, SomebodySends, Goes, Sends, InFlight
<1>16. ASSUME NEW p \in Carriers, SettleLost(p) \/ CycleStops(p) PROVE OneSends'
    BY <1>1, <1>4, <1>16 DEF SettleLost, CycleStops
<1>17. CASE Overdue
    <2>1. ~SomebodySends /\ UNCHANGED carry
        BY <1>17 DEF Overdue, SomebodySends, Sends
    <2>2. delivery'.row = delivery.row /\ delivery'.attempts = delivery.attempts
        BY <1>2, <1>17 DEF Overdue, Delivery
    <2> QED BY <2>1, <2>2 DEF OneSends, FromBefore, SomebodySends, Goes, Sends, InFlight
<1>18. ASSUME UNCHANGED <<delivery, carry>> PROVE OneSends'
    BY <1>18 DEF OneSends, FromBefore, SomebodySends, Goes, Sends, InFlight
<1>19. CASE UNCHANGED notifyVars \/ Turns \/ (\E x \in People : Concerns(x))
    BY <1>18, <1>19 DEF notifyVars, Turns, Concerns
<1>20. ASSUME NEW w \in Watchers, Watching(w) \/ SweepStops(w) PROVE OneSends'
    BY <1>18, <1>20 DEF Watching, Derive, Reads, Writes, SweepStops
<1> QED BY <1>5, <1>6, <1>9, <1>10, <1>11, <1>12, <1>13, <1>14, <1>15, <1>16, <1>17, <1>19, <1>20
        DEF NotifyNext, Carrying, Mishaps

----------------------------------------------------------------------------
(* Together. *)

LEMMA AloneInvInit == NotifyInit => AloneInv
<1> SUFFICES ASSUME NotifyInit PROVE AloneInv
    OBVIOUS
<1>1. Ids = {} /\ now = 0
    BY DEF NotifyInit, Ids
<1>2. \A w \in Watchers : watch[w].pc = "people"
    BY DEF NotifyInit, Swept
<1>3. \A p \in Carriers : carry[p].pc = "idle"
    BY DEF NotifyInit, Waits
<1> QED BY <1>1, <1>2, <1>3 DEF AloneInv, TimesInv, Before, WalkInv, GoodWalker, OneSends,
                                SomebodySends, Sends, Goes

\* Where one replica sweeps, and for any number of replicas that carry beside each
\* other: until a first moment at which nothing is open, the one request that is
\* out is the only one.
THEOREM AloneInvHolds == OneSweeper /\ NotifySpec => []AloneInv
<1> SUFFICES ASSUME OneSweeper PROVE NotifySpec => []AloneInv
    OBVIOUS
<1>1. NotifyInv /\ AloneInv /\ [NotifyNext]_notifyVars => AloneInv'
    BY TimesStep, WalkInvStep, OneSendsStep, FirstLasted DEF AloneInv
<1> QED BY <1>1, AloneInvInit, NotifyInvHolds, PTL DEF NotifySpec

\* While every row belongs to one opening, and that lasts, none has ended.
LEMMA OneOpeningLasts ==
    ASSUME NotifyInv, TimesInv, NEW s, \A r \in Ids : SameOpening(r, s), Standing(s)
    PROVE  FirstLasts
<1> SUFFICES ASSUME NEW r \in Ids, Ends(r) PROVE FALSE
    BY DEF FirstLasts
<1>1. PICK n \in Ids : Open(n) /\ SameOpening(s, n)
    BY DEF Standing
<1> DEFINE t == row[r].cleared
<1>2. t \in 1 .. now /\ row[r].opened <= t /\ NoneOpen(t)
    BY TimesAreNumbers DEF TimesInv, Before, Ends, Open
<1>3. ~(t < row[r].opened) /\ t < row[n].opened
    BY <1>1, <1>2, TimesAreNumbers DEF NoneOpen
<1>4. ~\E m \in Ids : row[m].opened <= t /\ (Open(m) \/ t < row[m].cleared)
    BY <1>2, TimesAreNumbers DEF NoneOpen
<1> HIDE DEF t
<1>5. (t < row[r].opened) = (t < row[s].opened)
    BY <1>2, <1>4 DEF SameOpening
<1>6. (t < row[s].opened) = (t < row[n].opened)
    BY <1>1, <1>2, <1>4 DEF SameOpening
<1> QED BY <1>3, <1>5, <1>6

\* Where one replica sweeps, a replica that outlasted its lease does not send
\* beside a request that is out while the first opening of a condition lasts,
\* however many carry (claim).
THEOREM NobodyElseSends == OneSweeper /\ NotifySpec => []NobodySendsBeside
<1>1. NotifyInv /\ AloneInv => NobodySendsBeside
    BY OneOpeningLasts DEF AloneInv, NobodySendsBeside, OneSends, Sends
<1> QED BY <1>1, AloneInvHolds, NotifyInvHolds, PTL

----------------------------------------------------------------------------
(* What one carrier says. *)

OneCarrier == \A p, q \in Carriers : p = q

\* No opening has ended since r's began: it lasts, or what follows r's end does not
\* yet show that it did.
Lasting(r) == r \in Ids /\ \A i \in Ids : Ends(i) => row[i].cleared < row[r].opened

\* What was received of the rows of S, and how often of those that last.
Sayings(S) == UNION {{s} \X (1 .. row[s].told) : s \in S}

Lasts == {s \in Ids : Lasting(s)}

Said == Cardinality(Sayings(Lasts))

\* The row that was open when r was opened, or later, is of its opening.
Reaches(n, r) == Open(n) \/ row[r].opened <= row[n].cleared

Walks(c) == c.pc \in {"prior", "walk", "hand", "retake"}

\* What a cycle c makes of the delivery d: it is on the row d stands for, it walks
\* within one opening, it retakes what is over, and it sends what d has not said.
Follows(c, d) ==
    /\ Walks(c) \/ c.pc = "again" \/ Sends(c) => c.row \in Ids
    /\ Walks(c) => c.held.row = d.row
    /\ c.pc = "hand" \/ (c.pc = "walk" /\ c.end = 0) => Reaches(c.prior, c.row)
    /\ c.pc \in {"walk", "hand"} => c.prior \in Ids /\ (Lasting(d.row) => Lasting(c.prior))
    /\ c.pc = "retake" => ~Lasting(d.row)
    /\ c.pc = "again" \/ Sends(c) => (Lasting(c.row) => Lasting(d.row))
    /\ Sends(c) => ~d.sent

\* Of an opening that lasts, the delivery says it went, or is about to.
Covered(c, d) == Lasting(d.row) /\ (d.sent \/ (c.pc = "settling" /\ c.went))

\* Each time but the covered one, something went wrong.
Counted(c, d) ==
    /\ Said <= mishaps + 1
    /\ Covered(c, d) \/ Said <= mishaps

CountInv ==
    /\ IsFiniteSet(Sayings(Ids))
    /\ \A p \in Carriers : Follows(carry[p], delivery) /\ Counted(carry[p], delivery)

\* A row that was open with one that lasts, or after it, lasts.
LEMMA Together ==
    ASSUME NotifyInv, TimesInv, NEW r, Lasting(r), NEW n \in Ids, Reaches(n, r)
    PROVE  Lasting(n)
<1>1. /\ \A i \in Ids : row[i].opened \in Nat /\ row[i].cleared \in Nat
      /\ r \in Ids
    BY TimesAreNumbers DEF Lasting
<1>2. ASSUME NEW i \in Ids, Ends(i), ~(row[i].cleared < row[n].opened) PROVE FALSE
    <2>1. ~Open(n) /\ row[n].cleared <= row[i].cleared
        BY <1>1, <1>2 DEF Ends, NoneOpen
    <2>2. row[i].cleared < row[r].opened
        BY <1>2 DEF Lasting
    <2> QED BY <1>1, <2>1, <2>2 DEF Reaches
<1> QED BY <1>2 DEF Lasting

\* The row at whose end an opening ended does not last.
LEMMA EndedIsOver ==
    ASSUME NotifyInv, TimesInv, NEW r, Ends(r)
    PROVE  ~Lasting(r)
<1> SUFFICES ASSUME Lasting(r) PROVE FALSE
    OBVIOUS
<1>1. r \in Ids /\ row[r].cleared < row[r].opened
    BY DEF Lasting
<1>2. row[r].opened <= row[r].cleared
    BY <1>1 DEF Ends, TimesInv
<1> QED BY <1>1, <1>2, TimesAreNumbers

\* Where no row opens or clears, the same rows last.
LEMMA SameLast ==
    ASSUME SameTimes
    PROVE  /\ \A r : Lasting(r)' <=> Lasting(r)
           /\ \A n, r \in Ids : Reaches(n, r)' <=> Reaches(n, r)
           /\ Lasts' = Lasts
<1>1. Ids' = Ids /\ \A r \in Ids : row'[r].opened = row[r].opened /\ row'[r].cleared = row[r].cleared
    BY DEF SameTimes
<1>2. \A i \in Ids : Ends(i)' <=> Ends(i)
    BY <1>1 DEF Ends, NoneOpen, Open
<1>3. \A r : Lasting(r)' <=> Lasting(r)
    BY <1>1, <1>2 DEF Lasting
<1>4. \A n, r \in Ids : Reaches(n, r)' <=> Reaches(n, r)
    BY <1>1 DEF Reaches, Open
<1>5. Lasts' = Lasts
    BY <1>1, <1>3 DEF Lasts
<1> QED BY <1>3, <1>4, <1>5

\* An end that was none comes after every opening there is.
LEMMA EndsLater ==
    ASSUME NotifyInv, TimesInv, NEW w \in Watchers, Writes(w), NEW i \in Ids', Ends(i)', ~(i \in Ids /\ Ends(i))
    PROVE  \A r \in Ids : row'[r].opened <= row'[i].cleared
<1>1. /\ watch[w].at = now /\ now \in Nat
      /\ \A r \in Ids : /\ row[r].opened < now /\ row[r].cleared < now
                        /\ row[r].opened \in Nat /\ row[r].cleared \in Nat
                        /\ row'[r].opened = row[r].opened
                        /\ row'[r].cleared = row[r].cleared \/ (Open(r) /\ row'[r].cleared = now)
    <2>1. /\ watch[w].at = now
          /\ \A r \in Ids : row[r].opened < now /\ row[r].cleared < now
        BY DEF Writes, TimesInv, Before
    <2> QED BY <2>1, TimesAreNumbers, WrittenTimes
<1>2. i \in Ids /\ row'[i].cleared # 0
    <2>1. row'[i].cleared # 0
        BY DEF Ends, Open
    <2> QED BY <2>1, WrittenTimes
<1>3. CASE row'[i].cleared = now
    BY <1>1, <1>3
<1>4. CASE row'[i].cleared = row[i].cleared
    <2>1. row[i].cleared # 0 /\ row[i].cleared < now
        BY <1>1, <1>2, <1>4
    <2>2. PICK n \in Ids : row[n].opened <= row[i].cleared /\ (Open(n) \/ ~(row[n].cleared <= row[i].cleared))
        BY <1>2, <2>1 DEF Ends, NoneOpen, Open
    <2>3. row'[n].cleared # 0 /\ row'[n].cleared <= row[i].cleared
        <3>1. n \in Ids' /\ row'[n].opened <= row'[i].cleared
            BY <1>1, <1>4, <2>2, WrittenTimes
        <3> QED BY <1>4, <3>1 DEF Ends, NoneOpen, Open
    <2>4. row'[n].cleared = row[n].cleared \/ (Open(n) /\ row'[n].cleared = now)
        BY <1>1
    <2>5. row[n].cleared \in Nat /\ row[i].cleared \in Nat
        BY <1>1, <1>2
    <2> QED BY <1>1, <2>1, <2>2, <2>3, <2>4, <2>5 DEF Open
<1> QED BY <1>1, <1>2, <1>3, <1>4

\* A write lets the rows that last last, or ends them all.
LEMMA WrittenLast ==
    ASSUME NotifyInv, TimesInv, NEW w \in Watchers, Writes(w)
    PROVE  /\ \A r : InTable(r) /\ Lasting(r)' => Lasting(r)
           /\ \/ \A r : InTable(r) => (Lasting(r)' <=> Lasting(r))
              \/ \A r : InTable(r) => ~Lasting(r)'
           /\ \A n, r \in Ids : Reaches(n, r) => Reaches(n, r)'
<1>1. /\ now \in Nat /\ Ids \subseteq Ids' /\ 0 \notin Ids' /\ 0 \notin Ids
      /\ \A r \in Ids : /\ row[r].opened < now
                        /\ row[r].opened \in Nat /\ row[r].cleared \in Nat
                        /\ row'[r].opened = row[r].opened
                        /\ row'[r].cleared = row[r].cleared \/ (Open(r) /\ row'[r].cleared = now)
    <2>1. watch[w].at = now /\ \A r \in Ids : row[r].opened < now
        BY DEF Writes, TimesInv, Before
    <2>2. 0 \notin Ids
        BY RowTypes DEF NotifyInv
    <2>3. 0 \notin Ids'
        BY WrittenRows DEF NotifyInv, RowsInv, Ids
    <2> QED BY <2>1, <2>2, <2>3, TimesAreNumbers, WrittenTimes
<1>2. \A i \in Ids : Ends(i) => Ends(i)' /\ row'[i].cleared = row[i].cleared
    <2>1. [NotifyNext]_notifyVars
        BY DEF NotifyNext, Watching
    <2> QED BY <1>1, <2>1, EndsStand DEF Ends
<1>3. \A r : InTable(r) /\ Lasting(r)' => Lasting(r)
    <2> SUFFICES ASSUME NEW r, InTable(r), Lasting(r)' PROVE Lasting(r)
        OBVIOUS
    <2>1. r \in Ids' /\ \A i \in Ids' : Ends(i)' => row'[i].cleared < row'[r].opened
        BY DEF Lasting
    <2>2. r \in Ids
        BY <1>1, <2>1 DEF InTable
    <2> QED BY <1>1, <1>2, <2>1, <2>2 DEF Lasting
<1>4. ASSUME \A i \in Ids' : Ends(i)' => i \in Ids /\ Ends(i)
      PROVE  \A r : InTable(r) => (Lasting(r)' <=> Lasting(r))
    <2>1. ASSUME NEW r, Lasting(r) PROVE Lasting(r)'
        <3>1. r \in Ids /\ \A i \in Ids : Ends(i) => row[i].cleared < row[r].opened
            BY <2>1 DEF Lasting
        <3>2. \A i \in Ids' : Ends(i)' => row'[i].cleared < row'[r].opened
            BY <1>1, <1>2, <1>4, <3>1
        <3> QED BY <1>1, <3>1, <3>2 DEF Lasting
    <2> QED BY <1>3, <2>1
<1>5. ASSUME NEW i \in Ids', Ends(i)', ~(i \in Ids /\ Ends(i))
      PROVE  \A r : InTable(r) => ~Lasting(r)'
    <2> SUFFICES ASSUME NEW r, InTable(r), Lasting(r)' PROVE FALSE
        OBVIOUS
    <2>1. r \in Ids' /\ row'[i].cleared < row'[r].opened
        BY <1>5 DEF Lasting
    <2>2. r \in Ids
        BY <1>1, <2>1 DEF InTable
    <2>3. row'[r].opened <= row'[i].cleared
        BY <1>5, <2>2, EndsLater
    <2>4. row'[i].cleared \in Nat /\ row'[r].opened \in Nat
        <3>1. row'[i].cleared # 0
            BY <1>5 DEF Ends, Open
        <3>2. i \in Ids
            BY <3>1, WrittenTimes
        <3> QED BY <1>1, <2>2, <3>2
    <2> QED BY <2>1, <2>3, <2>4
<1>6. ASSUME NEW n \in Ids, NEW r \in Ids, Reaches(n, r) PROVE Reaches(n, r)'
    <2>1. CASE row'[n].cleared = row[n].cleared
        BY <1>1, <1>6, <2>1 DEF Reaches, Open
    <2>2. CASE row'[n].cleared = now
        BY <1>1, <2>2 DEF Reaches
    <2> QED BY <1>1, <2>1, <2>2
<1> QED BY <1>3, <1>4, <1>5, <1>6

\* What a table says of some rows, pair by pair.
LEMMA SayingsAre ==
    ASSUME NEW S, NEW x
    PROVE  x \in Sayings(S) <=> \E s \in S : \E k \in 1 .. row[s].told : x = <<s, k>>
BY DEF Sayings

\* What has been received of some rows is some of what was received.
LEMMA SomeSayings ==
    ASSUME IsFiniteSet(Sayings(Ids)), NEW S \in SUBSET Ids, NEW T \in SUBSET S
    PROVE  /\ IsFiniteSet(Sayings(S)) /\ Cardinality(Sayings(S)) \in Nat
           /\ Cardinality(Sayings(T)) <= Cardinality(Sayings(S))
<1>1. Sayings(S) \in SUBSET Sayings(Ids) /\ Sayings(T) \in SUBSET Sayings(S)
    BY SayingsAre
<1>2. IsFiniteSet(Sayings(S))
    BY <1>1, FS_Subset
<1> QED BY <1>1, <1>2, FS_Subset, FS_CardinalityType

\* What is heard is one thing more of its row, and nothing of another.
LEMMA HeardSaying ==
    ASSUME NotifyInv, IsFiniteSet(Sayings(Ids)), NEW q, Heard(q)
    PROVE  /\ IsFiniteSet(Sayings(Ids))'
           /\ Said \in Nat /\ Said' \in Nat
           /\ Said' <= Said + 1
           /\ ~Lasting(q) => Said' <= Said
<1>1. SameTimes /\ Ids' = Ids /\ Lasts' = Lasts /\ Lasts \subseteq Ids
    BY HeardTimes, SameLast DEF NotifyInv, SameTimes, Lasts
<1> DEFINE new == <<q, row[q].told + 1>>
<1>2. \A s \in Ids : /\ row[s].told \in Nat
                     /\ IF s = q THEN row'[s].told = row[s].told + 1 ELSE row'[s].told = row[s].told
    <2>1. ASSUME NEW s \in Ids
          PROVE  /\ row[s].told \in Nat
                 /\ IF s = q THEN row'[s].told = row[s].told + 1 ELSE row'[s].told = row[s].told
        <3>1. row[s] \in Row
            BY RowTypes DEF NotifyInv
        <3>2. row'[s] = IF s = q THEN [row[s] EXCEPT !.told = @ + 1] ELSE row[s]
            BY RowTypes DEF Heard, RowsInv, Ids, NotifyInv
        <3> QED BY <3>1, <3>2 DEF Row
    <2> QED BY <2>1
<1>3. ASSUME NEW s \in Ids, NEW k \in 1 .. row'[s].told
      PROVE  k \in 1 .. row[s].told \/ (s = q /\ k = row[s].told + 1)
    BY <1>2
<1>4. \A S \in SUBSET Ids : /\ Sayings(S)' \subseteq Sayings(S) \cup {new}
                            /\ q \notin S => Sayings(S)' \subseteq Sayings(S)
    <2>1. ASSUME NEW S \in SUBSET Ids, NEW x \in Sayings(S)'
          PROVE  x \in Sayings(S) \/ (x = new /\ q \in S)
        <3>1. PICK s \in S : \E k \in 1 .. row'[s].told : x = <<s, k>>
            BY <2>1 DEF Sayings
        <3>4. PICK k \in 1 .. row'[s].told : x = <<s, k>>
            BY <3>1
        <3>2. CASE k \in 1 .. row[s].told
            BY <3>1, <3>4, <3>2, SayingsAre
        <3>3. CASE s = q /\ k = row[s].told + 1
            BY <3>1, <3>4, <3>3
        <3> QED BY <1>3, <3>1, <3>4, <3>2, <3>3
    <2> HIDE DEF new
    <2> QED BY <2>1
<1> HIDE DEF new
<1>5. IsFiniteSet(Sayings(Ids))'
    <2>1. IsFiniteSet(Sayings(Ids) \cup {new})
        BY FS_AddElement
    <2>2. (Sayings(Ids))' \subseteq Sayings(Ids) \cup {new}
        BY <1>1, <1>4 DEF Sayings
    <2> QED BY <2>1, <2>2, FS_Subset
<1>6. IsFiniteSet(Sayings(Lasts)) /\ Said \in Nat
    BY <1>1, SomeSayings DEF Said
<1>7. IsFiniteSet(Sayings(Lasts) \cup {new}) /\ Cardinality(Sayings(Lasts) \cup {new}) <= Said + 1
    <2>1. /\ IsFiniteSet(Sayings(Lasts) \cup {new})
          /\ Cardinality(Sayings(Lasts) \cup {new})
                = IF new \in Sayings(Lasts) THEN Said ELSE Said + 1
        BY <1>6, FS_AddElement DEF Said
    <2> QED BY <1>6, <2>1
<1>8. (Sayings(Lasts))' \in SUBSET (Sayings(Lasts) \cup {new})
    BY <1>1, <1>4 DEF Sayings
<1>9. Said' \in Nat /\ Said' <= Said + 1
    <2>1. /\ IsFiniteSet((Sayings(Lasts))') /\ Cardinality((Sayings(Lasts))') \in Nat
          /\ Cardinality((Sayings(Lasts))') <= Cardinality(Sayings(Lasts) \cup {new})
        BY <1>7, <1>8, FS_Subset, FS_CardinalityType
    <2>2. Cardinality(Sayings(Lasts) \cup {new}) \in Nat
        BY <1>7, FS_CardinalityType
    <2> QED BY <1>6, <1>7, <2>1, <2>2 DEF Said
<1>10. ASSUME ~Lasting(q) PROVE Said' <= Said
    <2>1. q \notin Lasts
        BY <1>10 DEF Lasts
    <2>2. (Sayings(Lasts))' \in SUBSET Sayings(Lasts)
        BY <1>1, <1>4, <2>1 DEF Sayings
    <2> QED BY <1>6, <2>2, FS_Subset DEF Said
<1> QED BY <1>5, <1>6, <1>9, <1>10

\* A write says nothing.
LEMMA WrittenSaying ==
    ASSUME NotifyInv, TimesInv, IsFiniteSet(Sayings(Ids)), NEW w \in Watchers, Writes(w)
    PROVE  /\ IsFiniteSet(Sayings(Ids))'
           /\ Said \in Nat /\ Said' \in Nat
           /\ Said' <= Said
           /\ (\A r : InTable(r) => ~Lasting(r)') => Said' = 0
<1>1. /\ Ids \subseteq Ids'
      /\ \A s \in Ids' : row'[s].told = IF s \in Ids THEN row[s].told ELSE 0
    BY WrittenTimes
<1>2. ASSUME NEW S, S \subseteq Ids', NEW x \in Sayings(S)'
      PROVE  \E s \in S \cap Ids : \E k \in 1 .. row[s].told : x = <<s, k>>
    <2>1. PICK s \in S : \E k \in 1 .. row'[s].told : x = <<s, k>>
        BY <1>2 DEF Sayings
    <2>2. s \in Ids /\ row'[s].told = row[s].told
        BY <1>1, <1>2, <2>1
    <2> QED BY <2>1, <2>2
<1>3. (Sayings(Ids))' \in SUBSET Sayings(Ids)
    <2>1. \A x \in (Sayings(Ids))' : \E s \in Ids : \E k \in 1 .. row[s].told : x = <<s, k>>
        BY <1>2 DEF Sayings
    <2> QED BY <2>1, SayingsAre
<1>4. (Sayings(Lasts))' \in SUBSET Sayings(Lasts)
    <2>1. \A x \in (Sayings(Lasts))' : \E s \in Lasts' \cap Ids : \E k \in 1 .. row[s].told : x = <<s, k>>
        BY <1>2 DEF Sayings, Lasts
    <2>2. Lasts' \cap Ids \subseteq Lasts
        BY WrittenLast DEF Lasts, InTable
    <2> QED BY <2>1, <2>2, SayingsAre
<1>5. /\ IsFiniteSet(Sayings(Ids))'
      /\ IsFiniteSet(Sayings(Lasts)) /\ Said \in Nat
      /\ IsFiniteSet((Sayings(Lasts))') /\ Said' \in Nat
      /\ Said' <= Said
    <2>1. IsFiniteSet(Sayings(Lasts)) /\ Cardinality(Sayings(Lasts)) \in Nat
        BY SomeSayings DEF Lasts
    <2>2. IsFiniteSet((Sayings(Ids))')
        BY <1>3, FS_Subset
    <2>3. /\ IsFiniteSet((Sayings(Lasts))') /\ Cardinality((Sayings(Lasts))') \in Nat
          /\ Cardinality((Sayings(Lasts))') <= Cardinality(Sayings(Lasts))
        BY <1>4, <2>1, FS_Subset, FS_CardinalityType
    <2> QED BY <2>1, <2>2, <2>3 DEF Said
<1>6. ASSUME \A r : InTable(r) => ~Lasting(r)' PROVE Said' = 0
    <2>1. Lasts' \cap Ids = {}
        BY <1>6 DEF Lasts, InTable
    <2>2. \A x \in (Sayings(Lasts))' : \E s \in Lasts' \cap Ids : \E k \in 1 .. row[s].told : x = <<s, k>>
        BY <1>2 DEF Sayings, Lasts
    <2>3. (Sayings(Lasts))' = {}
        BY <2>1, <2>2
    <2> QED BY <2>3, FS_EmptySet DEF Said
<1> QED BY <1>5, <1>6

\* A cycle that has just judged, or goes on to another row, or waits.
LEMMA RestFollows ==
    ASSUME NEW c \in Cycle, NEW d
    PROVE  /\ \A e : e.pc \in {"idle", "next"} => Follows(e, d)
           /\ \A e : e.pc \in {"idle", "next", "again"} => (Covered(e, d) <=> Lasting(d.row) /\ d.sent)
           /\ Follows(Onward(c), d) /\ Follows(Waits, d)
           /\ c.row \in Ids /\ (Lasting(c.row) => Lasting(d.row)) => Follows(Judged(c), d)
           /\ Onward(c).pc # "settling" /\ Waits.pc # "settling" /\ Judged(c).pc # "settling"
<1>1. \A e : e.pc \in {"idle", "next"} => Follows(e, d)
    BY DEF Follows, Walks, Sends
<1>2. \A e : e.pc \in {"idle", "next", "again"} => (Covered(e, d) <=> Lasting(d.row) /\ d.sent)
    BY DEF Covered
<1>3. Onward(c).pc \in {"idle", "next"} /\ Waits.pc = "idle"
    BY Rests
<1>4. Judged(c) = Onward(c) \/ Judged(c) = [c EXCEPT !.pc = "again"]
    BY Zenon DEF Judged
<1>5. [c EXCEPT !.pc = "again"].pc = "again" /\ [c EXCEPT !.pc = "again"].row = c.row
    BY DEF Cycle
<1>6. ASSUME NEW e, e.pc = "again", e.row = c.row, c.row \in Ids,
             Lasting(c.row) => Lasting(d.row)
      PROVE  Follows(e, d)
    BY <1>6 DEF Follows, Walks, Sends
<1> DEFINE a == [c EXCEPT !.pc = "again"]
<1>7. c.row \in Ids /\ (Lasting(c.row) => Lasting(d.row)) => Follows(a, d)
    <2>1. a.pc = "again" /\ a.row = c.row
        BY <1>5
    <2> HIDE DEF a
    <2> QED BY <1>6, <2>1
<1>8. Judged(c) = Onward(c) \/ Judged(c) = a
    BY <1>4
<1>9. a.pc = "again"
    BY <1>5
<1>10. Follows(Onward(c), d) /\ Follows(Waits, d) /\ Onward(c).pc # "settling" /\ Waits.pc # "settling"
    BY <1>1, <1>3
<1>11. Judged(c).pc # "settling"
    <2> HIDE DEF a
    <2> QED BY <1>8, <1>9, <1>10
<1>12. c.row \in Ids /\ (Lasting(c.row) => Lasting(d.row)) => Follows(Judged(c), d)
    <2> HIDE DEF a
    <2> QED BY <1>7, <1>8, <1>10
<1> QED BY <1>1, <1>2, <1>10, <1>11, <1>12

LEMMA NoRowsChange ==
    ASSUME NotifyInv, CountInv, UNCHANGED row
    PROVE  /\ SameTimes /\ Said' = Said /\ Said \in Nat /\ mishaps \in Nat
           /\ IsFiniteSet(Sayings(Ids))'
<1>1. SameTimes
    BY HeardTimes DEF NotifyInv
<1>2. Ids' = Ids /\ Lasts' = Lasts
    BY <1>1, SameLast DEF SameTimes
<1>3. Said' = Said
    BY <1>2 DEF Said, Sayings
<1>4. IsFiniteSet(Sayings(Ids))'
    BY <1>2 DEF CountInv, Sayings
<1>5. Said \in Nat
    BY SomeSayings DEF Said, Lasts, CountInv
<1> QED BY <1>1, <1>3, <1>4, <1>5 DEF NotifyInv, WorldInv

\* A step of the cycle.
LEMMA CycleCounts ==
    ASSUME OneCarrier, NotifyInv, NEW p \in Carriers, NEW c, Carries(p, c),
           NEW d, delivery' = d, SameTimes, IsFiniteSet(Sayings(Ids))',
           Follows(c, d), Said' <= mishaps' + 1, Covered(c, d) \/ Said' <= mishaps'
    PROVE  CountInv'
<1>1. \A q \in Carriers : carry'[q] = c
    BY DEF OneCarrier, NotifyInv, CarryInv, Carries
<1>2. Ids' = Ids /\ (\A r : Lasting(r)' <=> Lasting(r)) /\ \A n, r \in Ids : Reaches(n, r)' <=> Reaches(n, r)
    BY SameLast DEF SameTimes
<1>3. Follows(c, d)'
    BY <1>2 DEF Follows, Walks, Sends
<1>4. Counted(c, d)'
    BY <1>2 DEF Counted, Covered
<1>5. ASSUME NEW q \in Carriers, NEW e, e = c, NEW f, f = d, carry'[q] = e, delivery' = f
      PROVE  (Follows(carry[q], delivery) /\ Counted(carry[q], delivery))'
    BY <1>3, <1>4, <1>5 DEF Follows, Counted, Covered, Walks, Sends
<1> QED BY <1>1, <1>5 DEF CountInv

\* One that says nothing, and after which what went is still covered, or something
\* more went wrong.
LEMMA QuietCounts ==
    ASSUME OneCarrier, NotifyInv, CountInv, NEW p \in Carriers, NEW c, Carries(p, c),
           NEW d, delivery' = d, UNCHANGED row, Follows(c, d),
           \/ mishaps' = mishaps /\ (Covered(carry[p], delivery) => Covered(c, d))
           \/ mishaps' = mishaps + 1
    PROVE  CountInv'
<1>1. SameTimes /\ Said' = Said /\ Said \in Nat /\ mishaps \in Nat /\ IsFiniteSet(Sayings(Ids))'
    BY NoRowsChange
<1>2. Said <= mishaps + 1 /\ (Covered(carry[p], delivery) \/ Said <= mishaps)
    BY DEF CountInv, Counted
<1>3. Said' <= mishaps' + 1 /\ (Covered(c, d) \/ Said' <= mishaps')
    BY <1>1, <1>2
<1> QED BY <1>1, <1>3, CycleCounts

\* A step of somebody else.
LEMMA OthersCount ==
    ASSUME NotifyInv, TimesInv, CountInv, [NotifyNext]_notifyVars, UNCHANGED carry,
           delivery'.row = delivery.row, delivery'.sent = delivery.sent,
           \/ UNCHANGED row /\ (mishaps' = mishaps \/ mishaps' = mishaps + 1)
           \/ UNCHANGED mishaps /\ \E w \in Watchers : Writes(w)
    PROVE  CountInv'
<1>1. /\ Said \in Nat /\ Said' \in Nat /\ Said' <= Said /\ mishaps \in Nat /\ mishaps' >= mishaps
      /\ mishaps' \in Nat
      /\ IsFiniteSet(Sayings(Ids))' /\ Ids \subseteq Ids'
      /\ \A n, r \in Ids : Reaches(n, r) => Reaches(n, r)'
      /\ \/ \A r : InTable(r) => (Lasting(r)' <=> Lasting(r))
         \/ (\A r : InTable(r) => ~Lasting(r)') /\ Said' = 0
    <2>1. CASE UNCHANGED row /\ (mishaps' = mishaps \/ mishaps' = mishaps + 1)
        <3>1. SameTimes /\ Said' = Said /\ Said \in Nat /\ mishaps \in Nat /\ IsFiniteSet(Sayings(Ids))'
            BY <2>1, NoRowsChange
        <3>2. Ids' = Ids /\ (\A r : Lasting(r)' <=> Lasting(r)) /\ \A n, r \in Ids : Reaches(n, r)' <=> Reaches(n, r)
            BY <3>1, SameLast DEF SameTimes
        <3>3. mishaps' >= mishaps /\ mishaps' \in Nat
            BY <2>1, <3>1
        <3> QED BY <3>1, <3>2, <3>3
    <2>2. ASSUME NEW w \in Watchers, Writes(w), UNCHANGED mishaps
          PROVE  /\ Said \in Nat /\ Said' \in Nat /\ Said' <= Said /\ mishaps \in Nat /\ mishaps' >= mishaps
                 /\ mishaps' \in Nat
                 /\ IsFiniteSet(Sayings(Ids))' /\ Ids \subseteq Ids'
                 /\ \A n, r \in Ids : Reaches(n, r) => Reaches(n, r)'
                 /\ \/ \A r : InTable(r) => (Lasting(r)' <=> Lasting(r))
                    \/ (\A r : InTable(r) => ~Lasting(r)') /\ Said' = 0
        <3>1. mishaps \in Nat /\ mishaps' >= mishaps /\ mishaps' \in Nat
            BY <2>2 DEF NotifyInv, WorldInv
        <3>2. IsFiniteSet(Sayings(Ids))' /\ Said \in Nat /\ Said' \in Nat /\ Said' <= Said
            BY <2>2, WrittenSaying DEF CountInv
        <3>3. (\A r : InTable(r) => ~Lasting(r)') => Said' = 0
            BY <2>2, WrittenSaying DEF CountInv
        <3>4. Ids \subseteq Ids'
            BY TableGrows DEF Grows
        <3> QED BY <2>2, <3>1, <3>2, <3>3, <3>4, WrittenLast
    <2> QED BY <2>1, <2>2
<1>4. /\ Said \in Nat /\ Said' \in Nat /\ Said' <= Said
      /\ mishaps \in Nat /\ mishaps' \in Nat /\ mishaps' >= mishaps
    BY <1>1
<1>2. ASSUME NEW q \in Carriers, NEW c, c = carry[q], NEW d, d = delivery'
      PROVE  Follows(c, d)' /\ Counted(c, d)'
    <2>1. InTable(c.row) /\ InTable(d.row)
        BY <1>2 DEF NotifyInv, CarryInv, GoodCycle, DeliveryInv
    <2>2. Follows(c, delivery) /\ Counted(c, delivery)
        BY <1>2 DEF CountInv
    <2>3. Follows(c, d)'
        <3>1. d.row = delivery.row /\ d.sent = delivery.sent
            BY <1>2
        <3>2. /\ Walks(c) \/ c.pc = "again" \/ Sends(c) => c.row \in Ids'
              /\ Walks(c) => c.held.row = d.row
              /\ Sends(c) => ~d.sent
            BY <1>1, <2>2, <3>1 DEF Follows
        <3>3. c.pc = "hand" \/ (c.pc = "walk" /\ c.end = 0) => Reaches(c.prior, c.row)'
            BY <1>1, <2>2 DEF Follows, Walks
        <3>4. c.pc \in {"walk", "hand"} => c.prior \in Ids' /\ (Lasting(d.row)' => Lasting(c.prior)')
            BY <1>1, <2>1, <2>2, <3>1 DEF Follows, InTable
        <3>5. c.pc = "retake" => ~Lasting(d.row)'
            BY <1>1, <2>1, <2>2, <3>1 DEF Follows
        <3>6. c.pc = "again" \/ Sends(c) => (Lasting(c.row)' => Lasting(d.row)')
            BY <1>1, <2>1, <2>2, <3>1 DEF Follows
        <3> QED BY <3>2, <3>3, <3>4, <3>5, <3>6 DEF Follows, Walks, Sends
    <2>4. Said' <= mishaps' + 1
        <3>1. Said <= mishaps + 1
            BY <2>2 DEF Counted
        <3> HIDE DEF Said
        <3> QED BY <1>4, <3>1
    <2>5. Covered(c, d)' \/ Said' <= mishaps'
        <3>1. CASE Said <= mishaps \/ Said' = 0
            BY <1>4, <3>1
        <3>2. CASE Covered(c, delivery) /\ \A r : InTable(r) => (Lasting(r)' <=> Lasting(r))
            BY <1>2, <2>1, <3>2 DEF Covered
        <3> QED BY <1>1, <2>2, <3>1, <3>2 DEF Counted
    <2> QED BY <2>3, <2>4, <2>5 DEF Counted
<1>3. ASSUME NEW q \in Carriers, NEW c, c = carry'[q], c = carry[q], NEW d, d = delivery'
      PROVE  (Follows(carry[q], delivery) /\ Counted(carry[q], delivery))'
    <2>1. Follows(c, d)' /\ Counted(c, d)'
        BY <1>2, <1>3
    <2> QED BY <1>3, <2>1 DEF Follows, Counted, Covered, Walks, Sends
<1> QED BY <1>1, <1>3 DEF CountInv

\* The cycle finds within one opening whose the delivery is, and retakes it only
\* where that opening is over.
LEMMA FindingCounts ==
    ASSUME OneCarrier, NotifyInv, TimesInv, WalkInv, CountInv, NEW p \in Carriers
    PROVE  \/ Begins(p) \/ Stakes(p) \/ ReadsPrior(p) \/ WalkStep(p)
           \/ WalkEnds(p) \/ Hands(p) \/ Retakes(p)
           => CountInv'
<1>1. /\ carry[p] \in Cycle /\ GoodCycle(carry[p]) /\ GoodWalker(carry[p])
      /\ Follows(carry[p], delivery)
    BY DEF NotifyInv, CarryInv, WalkInv, CountInv
<1>2. delivery \in Delivery /\ InTable(delivery.row)
    BY DEF NotifyInv, DeliveryInv
\* What is covered is what the delivery says went.
<1>3. ASSUME NEW c, Carries(p, c), UNCHANGED <<row, mishaps>>, NEW d, delivery' = d, Follows(c, d),
             carry[p].pc # "settling", Lasting(delivery.row) /\ delivery.sent => Lasting(d.row) /\ d.sent
      PROVE  CountInv'
    BY <1>3, QuietCounts DEF Covered
<1>4. ASSUME Begins(p) PROVE CountInv'
    <2> DEFINE c == [Waits EXCEPT !.pc = "next", !.todo = Window]
    <2>1. c.pc = "next" /\ Carries(p, c) /\ carry[p].pc = "idle"
        BY <1>4 DEF Waits, Begins, InCycle
    <2>2. UNCHANGED <<row, mishaps>> /\ UNCHANGED delivery
        BY <1>4 DEF Begins
    <2> HIDE DEF c
    <2>3. Follows(c, delivery)
        BY <2>1 DEF Follows, Walks, Sends
    <2> QED BY <1>3, <2>1, <2>2, <2>3
<1>5. ASSUME Stakes(p) PROVE CountInv'
    <2>1. PICK r \in First(carry[p].todo) :
              LET c == [carry[p] EXCEPT !.row = r, !.held = delivery] IN
              IF delivery.row = 0
              THEN /\ delivery' = [NoDelivery EXCEPT !.row = r, !.attempts = 1, !.out = TRUE]
                   /\ Carries(p, [c EXCEPT !.pc = "sending"])
              ELSE /\ UNCHANGED delivery
                   /\ Carries(p, IF delivery.row = r THEN Judged(c) ELSE [c EXCEPT !.pc = "prior"])
        BY <1>5 DEF Stakes
    <2> DEFINE c == [carry[p] EXCEPT !.row = r, !.held = delivery]
    <2>2. r \in Ids /\ r \in Nat /\ 0 \notin Ids
        BY <1>1, RowTypes DEF First, GoodCycle, NotifyInv
    <2>3. c \in Cycle /\ c.held = delivery /\ c.row = r
        BY <1>1, <1>2, <2>2 DEF Cycle
    <2>4. carry[p].pc = "next" /\ UNCHANGED <<row, mishaps>>
        BY <1>5 DEF Stakes
    <2>5. CASE delivery.row = 0
        <3> DEFINE d == [NoDelivery EXCEPT !.row = r, !.attempts = 1, !.out = TRUE]
                   e == [c EXCEPT !.pc = "sending"]
        <3>1. delivery' = d /\ Carries(p, e)
            BY <2>1, <2>5
        <3>2. d.row = r /\ ~d.sent
            BY DEF NoDelivery
        <3> HIDE DEF c, d
        <3>3. e.pc = "sending" /\ e.row = r
            BY <2>3 DEF Cycle
        <3> HIDE DEF e
        <3>4. Follows(e, d)
            BY <2>2, <3>2, <3>3 DEF Follows, Walks, Sends
        <3>5. ~Lasting(delivery.row)
            BY <2>2, <2>5 DEF Lasting
        <3> QED BY <1>3, <2>4, <3>1, <3>4, <3>5
    <2>6. CASE delivery.row # 0 /\ delivery.row = r
        <3>1. Carries(p, Judged(c)) /\ UNCHANGED delivery
            BY <2>1, <2>6
        <3> HIDE DEF c
        <3>2. Follows(Judged(c), delivery)
            BY <2>2, <2>3, <2>6, RestFollows
        <3> QED BY <1>3, <2>4, <3>1, <3>2
    <2>7. CASE delivery.row # 0 /\ delivery.row # r
        <3> DEFINE e == [c EXCEPT !.pc = "prior"]
        <3>1. Carries(p, e) /\ UNCHANGED delivery
            BY <2>1, <2>7
        <3> HIDE DEF c
        <3>2. e.pc = "prior" /\ e.row = r /\ e.held = delivery
            BY <2>3 DEF Cycle
        <3> HIDE DEF e
        <3>3. Follows(e, delivery)
            BY <2>2, <3>2 DEF Follows, Walks, Sends
        <3> QED BY <1>3, <2>4, <3>1, <3>3
    <2> QED BY <2>5, <2>6, <2>7
<1>6. ASSUME ReadsPrior(p) PROVE CountInv'
    <2> DEFINE c == [carry[p] EXCEPT !.pc = "walk", !.prior = carry[p].held.row,
                                     !.end = row[carry[p].held.row].cleared]
    <2>1. /\ carry[p].held.row \in Ids /\ carry[p].held.row = delivery.row /\ carry[p].row \in Ids
          /\ carry[p].pc = "prior"
        BY <1>1, <1>6 DEF ReadsPrior, GoodCycle, InTable, Follows, Walks
    <2>2. /\ c.pc = "walk" /\ c.prior = carry[p].held.row /\ c.end = row[carry[p].held.row].cleared
          /\ c.row = carry[p].row /\ c.held = carry[p].held
        BY <1>1 DEF Cycle
    <2>3. Carries(p, c) /\ UNCHANGED <<row, mishaps>> /\ UNCHANGED delivery
        BY <1>6 DEF ReadsPrior
    <2> HIDE DEF c
    <2>4. c.end = 0 => Reaches(c.prior, c.row)
        BY <2>2 DEF Reaches, Open
    <2>5. Follows(c, delivery)
        BY <2>1, <2>2, <2>4 DEF Follows, Walks, Sends
    <2> QED BY <1>3, <2>1, <2>3, <2>5
<1>7. ASSUME WalkStep(p) PROVE CountInv'
    <2>1. /\ carry[p].prior \in Ids /\ row[carry[p].prior].cleared = carry[p].end /\ carry[p].end # 0
          /\ carry[p].pc = "walk" /\ carry[p].row \in Ids /\ carry[p].held.row = delivery.row
          /\ Lasting(delivery.row) => Lasting(carry[p].prior)
          /\ UNCHANGED <<row, mishaps>> /\ UNCHANGED delivery
        <3>1. /\ carry[p].pc = "walk" /\ carry[p].end # 0
              /\ UNCHANGED <<row, mishaps>> /\ UNCHANGED delivery
            BY <1>7, Zenon DEF WalkStep
        <3>2. carry[p].prior \in Ids /\ row[carry[p].prior].cleared = carry[p].end
            BY <1>1, <3>1 DEF GoodWalker
        <3>3. /\ carry[p].row \in Ids /\ carry[p].held.row = delivery.row
              /\ Lasting(delivery.row) => Lasting(carry[p].prior)
            BY <1>1, <3>1 DEF Follows, Walks
        <3> QED BY <3>1, <3>2, <3>3
    <2>2. CASE Across(carry[p].prior, carry[p].end) = {} /\ Carries(p, [carry[p] EXCEPT !.pc = "retake"])
        <3> DEFINE c == [carry[p] EXCEPT !.pc = "retake"]
        <3>1. c.pc = "retake" /\ c.row = carry[p].row /\ c.held = carry[p].held /\ Carries(p, c)
            BY <1>1, <2>2 DEF Cycle
        <3>2. ~Lasting(delivery.row)
            BY <2>1, <2>2, NothingAcross, EndedIsOver
        <3> HIDE DEF c
        <3>3. Follows(c, delivery)
            BY <2>1, <3>1, <3>2 DEF Follows, Walks, Sends
        <3> QED BY <1>3, <2>1, <3>1, <3>3
    <2>3. ASSUME NEW r \in Across(carry[p].prior, carry[p].end),
                 Carries(p, [carry[p] EXCEPT !.prior = r, !.end = row[r].cleared])
          PROVE  CountInv'
        <3> DEFINE c == [carry[p] EXCEPT !.prior = r, !.end = row[r].cleared]
        <3>1. /\ c.pc = "walk" /\ c.prior = r /\ c.end = row[r].cleared
              /\ c.row = carry[p].row /\ c.held = carry[p].held /\ Carries(p, c)
            BY <1>1, <2>1, <2>3 DEF Cycle
        <3> HIDE DEF c
        <3>2. r \in Ids /\ Reaches(r, carry[p].prior)
            <4>1. /\ r \in Ids /\ (Open(r) \/ row[r].cleared > carry[p].end)
                  /\ row[carry[p].prior].opened <= carry[p].end
                BY <2>1, <2>3 DEF Across, TimesInv, Open
            <4> QED BY <2>1, <4>1, TimesAreNumbers DEF Reaches
        <3>3. Lasting(carry[p].prior) => Lasting(r)
            BY <3>2, Together
        <3>4. c.end = 0 => Reaches(c.prior, c.row)
            BY <3>1 DEF Reaches, Open
        <3>5. Follows(c, delivery)
            BY <2>1, <3>1, <3>2, <3>3, <3>4 DEF Follows, Walks, Sends
        <3> QED BY <1>3, <2>1, <3>1, <3>5
    <2>4. Longest(Across(carry[p].prior, carry[p].end)) \subseteq Across(carry[p].prior, carry[p].end)
        BY DEF Longest
    <2>5. \/ /\ Across(carry[p].prior, carry[p].end) = {}
             /\ Carries(p, [carry[p] EXCEPT !.pc = "retake"])
          \/ \E r \in Longest(Across(carry[p].prior, carry[p].end)) :
                Carries(p, [carry[p] EXCEPT !.prior = r, !.end = row[r].cleared])
        BY <1>7, Zenon DEF WalkStep
    <2> QED BY <2>2, <2>3, <2>4, <2>5, Zenon
\* Where the walk ends, the row at hand and the one that lasts are of one opening.
<1>8. ASSUME carry[p].pc = "hand" \/ (carry[p].pc = "walk" /\ carry[p].end = 0)
      PROVE  /\ carry[p].prior \in Ids /\ carry[p].row \in Ids /\ carry[p].held.row = delivery.row
             /\ Lasting(carry[p].row) => Lasting(carry[p].prior)
             /\ Lasting(delivery.row) => Lasting(carry[p].prior)
             /\ Reaches(carry[p].prior, carry[p].row)
    <2>1. /\ carry[p].prior \in Ids /\ carry[p].row \in Ids /\ carry[p].held.row = delivery.row
          /\ Lasting(delivery.row) => Lasting(carry[p].prior)
          /\ Reaches(carry[p].prior, carry[p].row)
        BY <1>1, <1>8 DEF Follows, Walks
    <2> QED BY <2>1, Together
<1>9. ASSUME WalkEnds(p) PROVE CountInv'
    <2>1. carry[p].pc = "walk" /\ carry[p].end = 0 /\ UNCHANGED <<row, mishaps>> /\ UNCHANGED delivery
        BY <1>9 DEF WalkEnds
    <2>2. CASE carry[p].prior = carry[p].held.row /\ Carries(p, Judged(carry[p]))
        <3>1. Follows(Judged(carry[p]), delivery)
            BY <1>1, <1>8, <2>1, <2>2, RestFollows
        <3> QED BY <1>3, <2>1, <2>2, <3>1
    <2>3. CASE Carries(p, [carry[p] EXCEPT !.pc = "hand"])
        <3> DEFINE c == [carry[p] EXCEPT !.pc = "hand"]
        <3>1. /\ c.pc = "hand" /\ c.prior = carry[p].prior /\ c.row = carry[p].row
              /\ c.held = carry[p].held /\ Carries(p, c)
            BY <1>1, <2>3 DEF Cycle
        <3> HIDE DEF c
        <3>2. Follows(c, delivery)
            BY <1>8, <2>1, <3>1 DEF Follows, Walks, Sends
        <3> QED BY <1>3, <2>1, <3>1, <3>2
    <2> QED BY <1>9, <2>2, <2>3 DEF WalkEnds
<1>10. ASSUME Hands(p) PROVE CountInv'
    <2>1. carry[p].pc = "hand" /\ UNCHANGED <<row, mishaps>> /\ Carries(p, Judged(carry[p]))
        BY <1>10 DEF Hands
    <2> DEFINE d == [delivery EXCEPT !.row = carry[p].prior]
    <2>2. delivery' = d
        BY <1>8, <1>10, <2>1 DEF Hands
    <2>3. d.row = carry[p].prior /\ d.sent = delivery.sent
        BY <1>2 DEF Delivery
    <2> HIDE DEF d
    <2>4. Follows(Judged(carry[p]), d)
        BY <1>1, <1>8, <2>1, <2>3, RestFollows
    <2> QED BY <1>3, <1>8, <2>1, <2>2, <2>3, <2>4
<1>11. ASSUME Retakes(p) PROVE CountInv'
    <2>1. /\ carry[p].pc = "retake" /\ UNCHANGED <<row, mishaps>> /\ carry[p].row \in Ids
          /\ carry[p].held.row = delivery.row /\ ~Lasting(delivery.row)
        BY <1>1, <1>11 DEF Retakes, Follows, Walks
    <2> DEFINE d == Anew(carry[p].row)
               c == [carry[p] EXCEPT !.held = d]
    <2>2. delivery' = d /\ Carries(p, Judged(c))
        BY <1>11, <2>1 DEF Retakes
    <2>3. d.row = carry[p].row /\ d \in Delivery
        <3>1. carry[p].row \in Nat
            BY <1>1 DEF Cycle
        <3>2. d.row = carry[p].row
            BY DEF Anew, NoDelivery
        <3> HIDE DEF d
        <3>3. d \in Delivery
            BY <3>1, StakedTypes, Zenon DEF d
        <3> QED BY <3>2, <3>3
    <2> HIDE DEF d
    <2>4. c \in Cycle /\ c.row = carry[p].row
        BY <1>1, <2>3 DEF Cycle
    <2> HIDE DEF c
    <2>5. Follows(Judged(c), d)
        BY <2>1, <2>3, <2>4, RestFollows
    <2> QED BY <1>3, <2>1, <2>2, <2>5
<1> QED BY <1>4, <1>5, <1>6, <1>7, <1>9, <1>10, <1>11

\* It sends of a delivery that has not gone, and what it hears that it went it
\* writes, unless something goes wrong.
LEMMA SendingCounts ==
    ASSUME OneCarrier, NotifyInv, CountInv, NEW p \in Carriers
    PROVE  \/ Again(p) \/ Received(p) \/ Refused(p) \/ Settles(p)
           \/ AnswerLost(p) \/ SettleLost(p) \/ CycleStops(p)
           => CountInv'
<1>1. /\ carry[p] \in Cycle /\ Follows(carry[p], delivery) /\ Counted(carry[p], delivery)
      /\ delivery \in Delivery /\ mishaps \in Nat
    BY DEF NotifyInv, CarryInv, CountInv, DeliveryInv, WorldInv
<1>2. ASSUME Again(p) PROVE CountInv'
    <2>1. carry[p].pc = "again" /\ UNCHANGED <<row, mishaps>>
        BY <1>2 DEF Again
    <2>2. CASE UNCHANGED delivery /\ Carries(p, Onward(carry[p]))
        <3>1. Follows(Onward(carry[p]), delivery)
            BY <1>1, RestFollows
        <3>2. Covered(carry[p], delivery) => Covered(Onward(carry[p]), delivery)
            BY <2>1 DEF Covered
        <3> HIDE DEF Onward
        <3> QED BY <2>1, <2>2, <3>1, <3>2, QuietCounts
    <2>3. CASE /\ ~delivery.sent
               /\ delivery' = [delivery EXCEPT !.attempts = @ + 1, !.out = TRUE, !.failed = FALSE]
               /\ Carries(p, [carry[p] EXCEPT !.pc = "sending"])
        <3> DEFINE d == [delivery EXCEPT !.attempts = @ + 1, !.out = TRUE, !.failed = FALSE]
                   c == [carry[p] EXCEPT !.pc = "sending"]
        <3>1. d.row = delivery.row /\ d.sent = delivery.sent
            BY <1>1 DEF Delivery
        <3>2. c.pc = "sending" /\ c.row = carry[p].row
            BY <1>1 DEF Cycle
        <3>3. delivery' = d /\ Carries(p, c)
            BY <2>3
        <3> HIDE DEF c, d
        <3>4. Follows(c, d)
            BY <1>1, <2>1, <2>3, <3>1, <3>2 DEF Follows, Walks, Sends
        <3>5. ~Covered(carry[p], delivery)
            BY <2>1, <2>3 DEF Covered
        <3> QED BY <2>1, <3>3, <3>4, <3>5, QuietCounts
    <2> QED BY <1>2, <2>2, <2>3 DEF Again, NotTakenSince
\* Once a request is answered.
<1>3. ASSUME carry[p].pc = "sending", NEW c, c.pc = "settling", c.row = carry[p].row
      PROVE  /\ Follows(c, delivery) /\ ~Covered(carry[p], delivery)
             /\ Lasting(carry[p].row) /\ c.went => Covered(c, delivery)
    <2>1. /\ ~delivery.sent /\ (Lasting(carry[p].row) => Lasting(delivery.row))
          /\ carry[p].row \in Ids
        BY <1>1, <1>3 DEF Follows, Sends
    <2>2. Follows(c, delivery)
        BY <1>3, <2>1 DEF Follows, Walks, Sends
    <2>3. ~Covered(carry[p], delivery)
        BY <1>3, <2>1 DEF Covered
    <2>4. Lasting(carry[p].row) /\ c.went => Covered(c, delivery)
        BY <1>3, <2>1 DEF Covered
    <2> QED BY <2>2, <2>3, <2>4
\* What is heard, where nothing was covered, is covered or went wrong.
<1>4. ASSUME carry[p].pc = "sending", Heard(carry[p].row), NEW c, Carries(p, c), UNCHANGED delivery,
             Follows(c, delivery), ~Covered(carry[p], delivery),
             \/ mishaps' = mishaps /\ (Lasting(carry[p].row) => Covered(c, delivery))
             \/ mishaps' = mishaps + 1
      PROVE  CountInv'
    <2>1. /\ IsFiniteSet(Sayings(Ids))' /\ Said \in Nat /\ Said' \in Nat
          /\ Said' <= Said + 1 /\ (~Lasting(carry[p].row) => Said' <= Said)
        BY <1>4, HeardSaying DEF CountInv
    <2>2. Said <= mishaps
        BY <1>1, <1>4 DEF Counted
    <2>3. Said' <= mishaps' + 1 /\ (Covered(c, delivery) \/ Said' <= mishaps')
        BY <1>1, <1>4, <2>1, <2>2
    <2>4. SameTimes
        BY <1>4, HeardTimes DEF NotifyInv
    <2> QED BY <1>4, <2>1, <2>3, <2>4, CycleCounts
<1>5. ASSUME Received(p) PROVE CountInv'
    <2> DEFINE c == [carry[p] EXCEPT !.pc = "settling", !.went = TRUE]
    <2>3. c.pc = "settling" /\ c.row = carry[p].row /\ c.went
        BY <1>1 DEF Cycle
    <2>1. carry[p].pc = "sending" /\ Heard(carry[p].row) /\ Carries(p, c) /\ UNCHANGED delivery /\ UNCHANGED mishaps
        BY <1>5 DEF Received, Answered
    <2>2. /\ Follows(c, delivery) /\ ~Covered(carry[p], delivery)
          /\ Lasting(carry[p].row) => Covered(c, delivery)
        <3> HIDE DEF c
        <3> QED BY <1>3, <2>1, <2>3
    <2> HIDE DEF c
    <2> QED BY <1>4, <2>1, <2>2
<1>6. ASSUME Refused(p) PROVE CountInv'
    <2> DEFINE c == [carry[p] EXCEPT !.pc = "settling", !.went = FALSE]
    <2>3. c.pc = "settling" /\ c.row = carry[p].row
        BY <1>1 DEF Cycle
    <2>1. carry[p].pc = "sending" /\ UNCHANGED row /\ Carries(p, c) /\ UNCHANGED delivery /\ UNCHANGED mishaps
        BY <1>6 DEF Refused, Answered
    <2>2. Follows(c, delivery) /\ ~Covered(carry[p], delivery)
        <3> HIDE DEF c
        <3> QED BY <1>3, <2>1, <2>3
    <2> HIDE DEF c
    <2> QED BY <2>1, <2>2, QuietCounts
<1>7. ASSUME AnswerLost(p) PROVE CountInv'
    <2> DEFINE c == [carry[p] EXCEPT !.pc = "settling", !.went = FALSE]
    <2>3. c.pc = "settling" /\ c.row = carry[p].row
        BY <1>1 DEF Cycle
    <2>1. carry[p].pc = "sending" /\ Heard(carry[p].row) /\ Carries(p, c) /\ UNCHANGED delivery /\ mishaps' = mishaps + 1
        BY <1>7 DEF AnswerLost, Answered, Mishap
    <2>2. Follows(c, delivery) /\ ~Covered(carry[p], delivery)
        <3> HIDE DEF c
        <3> QED BY <1>3, <2>1, <2>3
    <2> HIDE DEF c
    <2> QED BY <1>4, <2>1, <2>2
<1>8. ASSUME Settles(p) PROVE CountInv'
    <2>1. /\ carry[p].pc = "settling" /\ UNCHANGED <<row, mishaps>>
          /\ delivery' = Recorded(carry[p].went) /\ Carries(p, Onward(carry[p]))
        BY <1>8 DEF Settles
    <2>2. ~delivery.sent
        BY <1>1, <2>1 DEF Follows, Sends
    <2>3. delivery'.row = delivery.row /\ (carry[p].went => delivery'.sent)
        BY <1>1, <2>1 DEF Recorded, Delivery
    <2> DEFINE d == Recorded(carry[p].went)
    <2>4. d.row = delivery.row /\ (carry[p].went => d.sent) /\ delivery' = d
        BY <2>1, <2>3
    <2>5. Follows(Onward(carry[p]), d)
        BY <1>1, RestFollows
    <2>6. Covered(carry[p], delivery) => Covered(Onward(carry[p]), d)
        BY <2>2, <2>4 DEF Covered
    <2> HIDE DEF Onward, d
    <2> QED BY <2>1, <2>4, <2>5, <2>6, QuietCounts
<1>9. ASSUME NEW c, c = Waits \/ c = Onward(carry[p]), Carries(p, c), UNCHANGED delivery, UNCHANGED row,
             mishaps' = mishaps + 1
      PROVE  CountInv'
    <2>1. Follows(c, delivery)
        BY <1>1, <1>9, RestFollows
    <2> QED BY <1>9, <2>1, QuietCounts
<1>10. ASSUME SettleLost(p) PROVE CountInv'
    BY <1>9, <1>10 DEF SettleLost, Mishap
<1>11. ASSUME CycleStops(p) PROVE CountInv'
    <2>1. Carries(p, Waits) /\ UNCHANGED delivery /\ mishaps' = mishaps + 1
        BY <1>11 DEF CycleStops, Mishap
    <2>2. CASE UNCHANGED row
        BY <1>9, <2>1, <2>2
    <2>3. CASE carry[p].pc = "sending" /\ Heard(carry[p].row)
        <3>1. Follows(Waits, delivery)
            BY <1>1, RestFollows
        <3>2. ~Covered(carry[p], delivery)
            BY <1>1, <2>3 DEF Follows, Sends, Covered
        <3> HIDE DEF Waits
        <3> QED BY <1>4, <2>1, <2>3, <3>1, <3>2
    <2> QED BY <1>11, <2>2, <2>3 DEF CycleStops
<1> QED BY <1>2, <1>5, <1>6, <1>7, <1>8, <1>10, <1>11

LEMMA CountInvStep ==
    ASSUME OneCarrier, NotifyInv, TimesInv, WalkInv, CountInv, [NotifyNext]_notifyVars
    PROVE  CountInv'
<1>1. ASSUME NEW p \in Carriers, Overtakes(p) PROVE FALSE
    BY <1>1 DEF OneCarrier, Overtakes
<1>2. ASSUME NEW p \in Carriers, Carrying(p) \/ Mishaps(p) PROVE CountInv'
    BY <1>1, <1>2, FindingCounts, SendingCounts DEF Carrying, Mishaps
<1>3. CASE UNCHANGED notifyVars \/ Turns \/ (\E x \in People : Concerns(x))
    <2>1. UNCHANGED carry /\ UNCHANGED delivery /\ UNCHANGED row /\ UNCHANGED mishaps
        BY <1>3 DEF notifyVars, Turns, Concerns
    <2> QED BY <2>1, OthersCount
<1>4. CASE Overdue
    <2>1. UNCHANGED carry /\ UNCHANGED row /\ UNCHANGED mishaps /\ delivery' = [delivery EXCEPT !.out = FALSE]
        BY <1>4 DEF Overdue
    <2>2. delivery'.row = delivery.row /\ delivery'.sent = delivery.sent
        BY <2>1 DEF NotifyInv, DeliveryInv, Delivery
    <2> QED BY <2>1, <2>2, OthersCount
<1>5. ASSUME NEW w \in Watchers, Watching(w) \/ SweepStops(w) PROVE CountInv'
    <2>1. ASSUME NEW x \in People, Reads(w, x) PROVE CountInv'
        <3>1. UNCHANGED carry /\ UNCHANGED delivery /\ UNCHANGED row /\ UNCHANGED mishaps
            BY <2>1 DEF Reads
        <3> QED BY <3>1, OthersCount
    <2>2. ASSUME Derive(w) PROVE CountInv'
        <3>1. UNCHANGED carry /\ UNCHANGED delivery /\ UNCHANGED row /\ UNCHANGED mishaps
            BY <2>2 DEF Derive
        <3> QED BY <3>1, OthersCount
    <2>3. ASSUME Writes(w) PROVE CountInv'
        <3>1. UNCHANGED carry /\ UNCHANGED delivery /\ UNCHANGED mishaps
            BY <2>3 DEF Writes
        <3> QED BY <2>3, <3>1, OthersCount
    <2>4. ASSUME SweepStops(w) PROVE CountInv'
        <3>1. UNCHANGED carry /\ UNCHANGED delivery /\ UNCHANGED row /\ mishaps' = mishaps + 1
            BY <2>4 DEF SweepStops, Mishap
        <3> QED BY <3>1, OthersCount
    <2> QED BY <1>5, <2>1, <2>2, <2>3, <2>4 DEF Watching
<1> QED BY <1>2, <1>3, <1>4, <1>5 DEF NotifyNext

LEMMA CountInvInit == NotifyInit => CountInv
<1> SUFFICES ASSUME NotifyInit PROVE CountInv
    OBVIOUS
<1>1. Ids = {} /\ mishaps = 0 /\ delivery.row = 0
    BY DEF NotifyInit, Ids, NoDelivery
<1>2. Sayings(Ids) = {} /\ Lasts = {} /\ Sayings(Lasts) = {}
    BY <1>1 DEF Sayings, Lasts
<1>3. IsFiniteSet(Sayings(Ids)) /\ Said = 0
    BY <1>2, FS_EmptySet DEF Said
<1>4. \A p \in Carriers : carry[p].pc = "idle"
    BY DEF NotifyInit, Waits
<1> QED BY <1>1, <1>3, <1>4 DEF CountInv, Follows, Counted, Walks, Sends

\* Where one replica sweeps and one carries, of all that a destination was told of
\* openings that last, each time but the one the delivery stands for was something
\* gone wrong.
THEOREM CountInvHolds == OneSweeper /\ OneCarrier /\ NotifySpec => []CountInv
<1> SUFFICES ASSUME OneSweeper, OneCarrier PROVE NotifySpec => []CountInv
    OBVIOUS
<1>1. NotifyInv /\ AloneInv /\ CountInv /\ [NotifyNext]_notifyVars => CountInv'
    BY CountInvStep DEF AloneInv
<1> QED BY <1>1, CountInvInit, AloneInvHolds, NotifyInvHolds, PTL DEF NotifySpec

\* What stands lasts, and so does what is of its opening.
LEMMA StandingLasts ==
    ASSUME NotifyInv, TimesInv, NEW r \in Ids, Standing(r), NEW s \in Ids, SameOpening(r, s)
    PROVE  Lasting(s)
<1>1. PICK n \in Ids : Open(n) /\ SameOpening(r, n)
    BY DEF Standing
<1>2. ASSUME NEW i \in Ids, Ends(i), ~(row[i].cleared < row[s].opened) PROVE FALSE
    <2> DEFINE t == row[i].cleared
    <2>1. t \in 1 .. now /\ NoneOpen(t)
        BY <1>2, TimesAreNumbers DEF TimesInv, Before, Ends, Open
    <2>2. t < row[n].opened
        BY <1>1, <2>1, TimesAreNumbers DEF NoneOpen
    <2>3. ~\E m \in Ids : row[m].opened <= t /\ (Open(m) \/ t < row[m].cleared)
        BY <2>1, TimesAreNumbers DEF NoneOpen
    <2> HIDE DEF t
    <2>4. (t < row[r].opened) = (t < row[n].opened)
        BY <1>1, <2>1, <2>3 DEF SameOpening
    <2>5. (t < row[r].opened) = (t < row[s].opened)
        BY <2>1, <2>3 DEF SameOpening
    <2>6. ~(t < row[s].opened)
        BY <1>2 DEF t
    <2> QED BY <2>2, <2>4, <2>5, <2>6
<1> QED BY <1>2 DEF Lasting

\* Where one replica sweeps and one carries at a time: a destination hears of an
\* opening once while it lasts, and once more at most for each thing that went
\* wrong, of however many people it is said (reopened, claim).
THEOREM SaidOnce == OneSweeper /\ OneCarrier /\ NotifySpec => OneOpeningIsSaidOnce
<1> SUFFICES ASSUME OneSweeper, OneCarrier PROVE NotifySpec => OneOpeningIsSaidOnce
    OBVIOUS
<1> DEFINE Once == \A p \in Carriers :
                      Hears(p) /\ Standing(carry[p].row) => TimesHeard(carry[p].row) <= mishaps
<1>1. ASSUME NotifyInv, TimesInv, CountInv, [NotifyNext]_notifyVars, NEW p \in Carriers,
             Hears(p), Standing(carry[p].row)
      PROVE  TimesHeard(carry[p].row) <= mishaps
    <2> DEFINE r == carry[p].row
               S == {s \in Ids : SameOpening(r, s)}
    <2>1. Said <= mishaps /\ mishaps \in Nat
        <3>1. ~Covered(carry[p], delivery)
            BY <1>1 DEF CountInv, Follows, Covered, Hears, Sends
        <3> QED BY <1>1, <3>1 DEF CountInv, Counted, NotifyInv, WorldInv
    <2>2. r \in Ids
        BY <1>1 DEF CountInv, Follows, Hears, Sends
    <2>3. S \subseteq Lasts
        BY <1>1, <2>2, StandingLasts DEF Lasts
    <2>4. TimesHeard(r) = Cardinality(Sayings(S))
        BY DEF TimesHeard, Sayings
    <2> HIDE DEF S, r
    <2>5. Cardinality(Sayings(S)) <= Said /\ Said \in Nat /\ Cardinality(Sayings(S)) \in Nat
        <3>1. Lasts \in SUBSET Ids /\ S \in SUBSET Lasts /\ S \in SUBSET Ids /\ IsFiniteSet(Sayings(Ids))
            BY <1>1, <2>3 DEF Lasts, CountInv
        <3> QED BY <3>1, SomeSayings DEF Said
    <2>6. TimesHeard(r) <= mishaps
        BY <2>1, <2>4, <2>5
    <2> QED BY <2>6 DEF r
<1>2. NotifyInv /\ AloneInv /\ CountInv /\ [NotifyNext]_notifyVars => [Once]_notifyVars
    BY <1>1 DEF AloneInv
<1>3. NotifySpec => [][Once]_notifyVars
    BY <1>2, CountInvHolds, AloneInvHolds, NotifyInvHolds, PTL DEF NotifySpec
<1> QED BY <1>3 DEF OneOpeningIsSaidOnce
=============================================================================
