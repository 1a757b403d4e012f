------------------------ MODULE RegisterLedger_proofs ------------------------
(* What is proved of RegisterLedger.  As long as nothing lands between a            *)
(* settlement's read and its write, the figure the settlement writes is the         *)
(* balance moved by its sum; everything else moves the balance where it stands.       *)
EXTENDS RegisterLedger, Sums

\* The newest row of a snapshot, or none.
Newests == {0} \union {Max(ids) : ids \in SUBSET EventIds}

Takings == [delta : Int, pre : Int, newest : Newests, target : Int, refused : BOOLEAN]

Typed ==
    /\ balance \in Int /\ meant \in Int /\ owed \in Int
    /\ payouts \in [Payouts -> {"none", "created", "performed"}]
    /\ events \in [EventIds -> Rows \union {NoEvent}] /\ serial \in Nat
    /\ at \in [Movers -> {"new", "edit", "refused", "undo", "update", "settled", "refund", "done"}]
    /\ held \in [Movers -> Takings]

\* What a settlement read still stands, and nobody else is under way.
Undisturbed ==
    \A s \in Settlements : UnderWay(s) =>
        held[s].pre = balance /\ \A m \in Movers \ {s} : ~UnderWay(m)

\* An edit is refused when it lands, never before.
RefusedWhenLanded ==
    \A e \in Edits : /\ at[e] \in {"new", "edit"} => ~held[e].refused
                     /\ at[e] \in {"refused", "undo"} => held[e].refused

Inv == Typed /\ Undisturbed /\ RefusedWhenLanded /\ EveryMoveCounts /\ NamesPerformed

-----------------------------------------------------------------------------
(* Sums of money are natural numbers, and both arithmetics return integers. *)
LEMMA Amounts ==
    /\ \A x \in Payouts \union Settlements : Sum[x] \in Nat
    /\ \A b, n \in Int : Apply(b, n) \in Int /\ Reverse(b, n) \in Int
  BY LedgerAssumption DEF Apply, Reverse

(* The invariant of the ledger holds in every initial state. *)
LEMMA InvInit == Init => Inv
  <1> SUFFICES ASSUME Init PROVE Inv
    OBVIOUS
  <1>1. Typed
    <2>1. InitialBalance \in Int
      BY LedgerAssumption
    <2>2. Nothing \in Takings
      BY DEF Takings, Nothing, Newests
    <2> QED BY <2>1, <2>2 DEF Init, Typed
  <1>2. Undisturbed /\ RefusedWhenLanded
    BY DEF Init, Undisturbed, RefusedWhenLanded, UnderWay, Movers, Nothing
  <1>3. EveryMoveCounts
    BY LedgerAssumption DEF Init, EveryMoveCounts
  <1>4. NamesPerformed
    BY DEF Init, NamesPerformed, Written
  <1> QED BY <1>1, <1>2, <1>3, <1>4 DEF Inv

(* A row that names no payout, or one that is performed, keeps the history true.      *)
LEMMA RecordKeeps ==
    ASSUME Typed, NamesPerformed, NEW delta \in Int, NEW before \in Int,
           NEW p \in Payouts \union {NoPayout}, Record(delta, before, p),
           NEW q \in [Payouts -> {"none", "created", "performed"}], payouts' = q,
           \A x \in Payouts : payouts[x] = "performed" => q[x] = "performed",
           p # NoPayout => q[p] = "performed"
    PROVE  /\ events' \in [EventIds -> Rows \union {NoEvent}] /\ serial' \in Nat
           /\ NamesPerformed'
  <1>1. Event(delta, before, p) \in Rows /\ Event(delta, before, p).payout = p
    BY DEF Event, Rows
  <1>2. serial' \in Nat /\ events' = [events EXCEPT ![serial'] = Event(delta, before, p)]
    BY DEF Record, Typed
  <1>3. events' \in [EventIds -> Rows \union {NoEvent}]
    BY <1>1, <1>2 DEF Typed
  <1>4. ASSUME NEW i \in Written', events'[i].payout # NoPayout
        PROVE  payouts'[events'[i].payout] = "performed"
    <2>1. i \in EventIds /\ events'[i] # NoEvent
      BY DEF Written
    <2>2. CASE i = serial'
      BY <2>1, <2>2, <1>1, <1>2, <1>4 DEF Typed
    <2>3. CASE i # serial'
      <3>1. events'[i] = events[i] /\ i \in Written /\ events[i] \in Rows
        BY <2>1, <2>3, <1>2 DEF Typed, Written
      <3>2. events[i].payout \in Payouts /\ payouts[events[i].payout] = "performed"
        BY <3>1, <1>4 DEF NamesPerformed, Rows
      <3> QED BY <3>1, <3>2
    <2> QED BY <2>2, <2>3
  <1> QED BY <1>2, <1>3, <1>4 DEF NamesPerformed

(* Nobody but the settlement itself moves while one is under way.                   *)
Steady == \A s \in Settlements : ~UnderWay(s)

(* The read that starts an edit keeps the invariant of the ledger. *)
LEMMA StepEditBegin ==
    ASSUME Inv, Steady, NEW e \in Edits, EditBegin(e) PROVE Inv'
  <1>1. PICK d, h :
           /\ d \in Deltas
           /\ h = [Nothing EXCEPT !.delta = d, !.pre = balance] /\ held' = [held EXCEPT ![e] = h]
    BY DEF EditBegin
  <1>2. at[e] = "new" /\ at' = [at EXCEPT ![e] = "edit"] /\ e \in Movers
    BY DEF EditBegin, Movers
  <1>3. UNCHANGED <<balance, payouts, events, serial, meant, owed>>
    BY DEF EditBegin, Reads
  <1>4. h \in Takings /\ h.refused = FALSE
    <2>1. Nothing \in Takings /\ Nothing.refused = FALSE
      BY DEF Nothing, Takings, Newests
    <2>2. d \in Int /\ balance \in Int
      BY <1>1, LedgerAssumption DEF Inv, Typed
    <2> QED BY <1>1, <2>1, <2>2 DEF Takings
  <1>5. Typed'
    BY <1>1, <1>2, <1>3, <1>4 DEF Inv, Typed
  <1>6. Undisturbed'
    BY <1>2, LedgerAssumption DEF Steady, Undisturbed, UnderWay, Inv, Typed, Movers
  <1>7. RefusedWhenLanded'
    BY <1>1, <1>2, <1>4 DEF RefusedWhenLanded, Inv, Typed, Movers
  <1>8. EveryMoveCounts'
    <2>1. \A f \in Edits : held[f].refused => f # e
      BY <1>2 DEF Inv, RefusedWhenLanded
    <2>2. OnlySubtractionsRefused' => OnlySubtractionsRefused
      BY <1>1, <2>1 DEF OnlySubtractionsRefused, Inv, Typed, Movers
    <2> QED BY <2>2, <1>3 DEF EveryMoveCounts, Inv
  <1>9. NamesPerformed'
    BY <1>3 DEF NamesPerformed, Written, Inv
  <1> QED BY <1>5, <1>6, <1>7, <1>8, <1>9 DEF Inv

(* The commit of an edit keeps the invariant of the ledger. *)
LEMMA StepEditCommit ==
    ASSUME Inv, Steady, NEW e \in Edits, EditCommit(e) PROVE Inv'
  <1> DEFINE d == held[e].delta
             new == balance + d
             pre == held[e].pre
  <1>1. /\ at[e] = "edit" /\ e \in Movers /\ d \in Int /\ pre \in Int /\ new \in Int
        /\ held[e] \in Takings /\ ~held[e].refused
    <2>1. at[e] = "edit" /\ e \in Movers
      BY DEF EditCommit, Edited, Movers
    <2>2. held[e] \in Takings /\ balance \in Int
      BY <2>1 DEF Inv, Typed
    <2>3. d \in Int /\ pre \in Int
      BY <2>2 DEF Takings
    <2> QED BY <2>1, <2>2, <2>3 DEF Inv, RefusedWhenLanded
  <1>2. /\ balance' = new /\ Record(new - pre, pre, NoPayout) /\ payouts' = payouts
        /\ at' = [at EXCEPT ![e] = IF new < 0 THEN "refused" ELSE "done"]
        /\ owed' = owed + (IF new < 0 /\ d < 0 THEN -d ELSE 0)
        /\ meant' = meant + (IF new < 0 THEN 0 ELSE d)
    BY DEF EditCommit, Edited
  <1> HIDE DEF new, pre
  <1>0. PICK b, h :
           /\ b \in BOOLEAN /\ (b <=> new < 0)
           /\ h = [held[e] EXCEPT !.refused = b] /\ held' = [held EXCEPT ![e] = h]
    <2>1. held' = [held EXCEPT ![e] = [held[e] EXCEPT !.refused = (new < 0)]]
      BY DEF EditCommit, Edited, new
    <2>2. CASE new < 0
      <3>1. (new < 0) = TRUE
        BY <2>2
      <3> QED BY <2>1, <3>1
    <2>3. CASE ~(new < 0)
      <3>1. (new < 0) = FALSE
        BY <2>3
      <3> QED BY <2>1, <3>1
    <2> QED BY <2>2, <2>3
  <1>3. /\ held'[e].refused = b /\ held'[e].delta = d /\ held'[e] \in Takings
        /\ \A m \in Movers \ {e} : held'[m] = held[m] /\ at'[m] = at[m]
    BY <1>0, <1>1, <1>2 DEF Inv, Typed, Takings
  <1>4. events' \in [EventIds -> Rows \union {NoEvent}] /\ serial' \in Nat /\ NamesPerformed'
    <2>1. new - pre \in Int
      BY <1>1
    <2> QED BY <1>1, <1>2, <2>1, RecordKeeps DEF Inv, Typed
  <1>5. Typed'
    <2>1. owed' \in Int /\ meant' \in Int
      BY <1>1, <1>2 DEF Inv, Typed
    <2>2. held' \in [Movers -> Takings]
      BY <1>0, <1>3 DEF Inv, Typed
    <2> QED BY <1>1, <1>2, <1>4, <2>1, <2>2 DEF Inv, Typed
  <1>6. Undisturbed'
    BY <1>2, LedgerAssumption DEF Steady, Undisturbed, UnderWay, Inv, Typed, Movers
  <1>7. RefusedWhenLanded'
    BY <1>0, <1>1, <1>2, <1>3 DEF RefusedWhenLanded, Inv, Typed, Movers
  <1>8. EveryMoveCounts'
    <2> SUFFICES ASSUME OnlySubtractionsRefused' PROVE balance' + owed' = meant'
      BY DEF EveryMoveCounts
    <2>1. new < 0 => d < 0
      BY <1>0, <1>3 DEF OnlySubtractionsRefused
    <2>2. OnlySubtractionsRefused
      BY <1>1, <1>3 DEF OnlySubtractionsRefused, Movers
    <2>3. balance + owed = meant
      BY <2>2 DEF Inv, EveryMoveCounts
    <2>4. new = balance + d /\ balance \in Int /\ owed \in Int /\ meant \in Int
      BY DEF new, Inv, Typed
    <2> HIDE DEF d
    <2>5. CASE new < 0
      BY <1>1, <1>2, <2>1, <2>3, <2>4, <2>5
    <2>6. CASE ~(new < 0)
      BY <1>1, <1>2, <2>3, <2>4, <2>6
    <2> QED BY <2>5, <2>6
  <1> QED BY <1>4, <1>5, <1>6, <1>7, <1>8 DEF Inv

(* The read that starts an undo keeps the invariant of the ledger. *)
LEMMA StepUndoBegin == ASSUME Inv, Steady, NEW e \in Edits, UndoBegin(e) PROVE Inv'
  <1>1. /\ at[e] = "refused" /\ e \in Movers /\ at' = [at EXCEPT ![e] = "undo"]
        /\ held' = [held EXCEPT ![e].newest = Newest]
        /\ UNCHANGED <<balance, payouts, events, serial, meant, owed>>
    BY DEF UndoBegin, Movers, Reads
  <1>2. Newest \in Newests
    BY DEF Newest, Newests, Written
  <1>3. /\ held' \in [Movers -> Takings]
        /\ \A m \in Movers : held'[m].refused = held[m].refused /\ held'[m].delta = held[m].delta
    <2> HIDE DEF Newest
    <2> QED BY <1>1, <1>2 DEF Inv, Typed, Takings
  <1>4. Typed'
    BY <1>1, <1>3 DEF Inv, Typed
  <1>5. Undisturbed'
    BY <1>1, LedgerAssumption DEF Steady, Undisturbed, UnderWay, Inv, Typed, Movers
  <1>6. RefusedWhenLanded'
    BY <1>1, <1>3 DEF RefusedWhenLanded, Inv, Typed, Movers
  <1>7. EveryMoveCounts'
    BY <1>1, <1>3 DEF EveryMoveCounts, OnlySubtractionsRefused, Inv, Movers
  <1>8. NamesPerformed'
    BY <1>1 DEF NamesPerformed, Written, Inv
  <1> QED BY <1>4, <1>5, <1>6, <1>7, <1>8 DEF Inv

(* The commit of an undo keeps the invariant of the ledger. *)
LEMMA StepUndoCommit == ASSUME Inv, Steady, NEW e \in Edits, UndoCommit(e) PROVE Inv'
  <1> DEFINE d == held[e].delta
  <1>1. /\ at[e] = "undo" /\ e \in Movers /\ at' = [at EXCEPT ![e] = "done"]
        /\ balance' = balance + Magnitude(d)
        /\ owed' = owed + (IF d < 0 THEN d ELSE 0)
        /\ events' = [events EXCEPT ![held[e].newest] = NoEvent]
        /\ UNCHANGED <<payouts, serial, held, meant>>
    BY DEF UndoCommit, Undone, Movers
  <1>2. d \in Int /\ held[e].refused
    BY <1>1 DEF Inv, Typed, Takings, RefusedWhenLanded
  <1> HIDE DEF d
  <1>3. Typed'
    <2>1. balance' \in Int /\ owed' \in Int
      BY <1>1, <1>2 DEF Magnitude, Inv, Typed
    <2>2. events' \in [EventIds -> Rows \union {NoEvent}]
      BY <1>1 DEF Inv, Typed
    <2> QED BY <1>1, <2>1, <2>2 DEF Inv, Typed
  <1>4. Undisturbed'
    BY <1>1, LedgerAssumption DEF Steady, Undisturbed, UnderWay, Inv, Typed, Movers
  <1>5. RefusedWhenLanded'
    BY <1>1 DEF RefusedWhenLanded, Inv, Typed, Movers
  <1>6. EveryMoveCounts'
    <2> SUFFICES ASSUME OnlySubtractionsRefused' PROVE balance' + owed' = meant'
      BY DEF EveryMoveCounts
    <2>1. OnlySubtractionsRefused
      BY <1>1 DEF OnlySubtractionsRefused
    <2>2. d < 0
      BY <1>2, <2>1 DEF OnlySubtractionsRefused, d
    <2>3. balance + owed = meant
      BY <2>1 DEF Inv, EveryMoveCounts
    <2> QED BY <1>1, <1>2, <2>2, <2>3 DEF Magnitude, Inv, Typed
  <1>7. NamesPerformed'
    <2>1. \A i \in Written' : i \in Written /\ events'[i] = events[i]
      BY <1>1 DEF Written, Inv, Typed
    <2> QED BY <1>1, <2>1 DEF NamesPerformed, Inv
  <1> QED BY <1>3, <1>4, <1>5, <1>6, <1>7 DEF Inv

(* Opening a payout keeps the invariant of the ledger. *)
LEMMA StepOpenPayout == ASSUME Inv, Steady, NEW p \in Payouts, OpenPayout(p) PROVE Inv'
  <1>1. /\ payouts' = [payouts EXCEPT ![p] = Opened(p)]
        /\ UNCHANGED <<balance, events, serial, at, held, meant, owed>>
    BY DEF OpenPayout
  <1>2. Opened(p) \in {"created", "performed"} /\ (payouts[p] = "performed" => Opened(p) = "performed")
    BY DEF Opened, Inv, Typed
  <1>3. Typed'
    BY <1>1, <1>2 DEF Inv, Typed
  <1>4. Undisturbed' /\ RefusedWhenLanded' /\ EveryMoveCounts'
    BY <1>1 DEF Inv, Undisturbed, UnderWay, RefusedWhenLanded, EveryMoveCounts,
                OnlySubtractionsRefused
  <1>5. NamesPerformed'
    BY <1>1, <1>2 DEF NamesPerformed, Written, Inv, Typed
  <1> QED BY <1>3, <1>4, <1>5 DEF Inv

(* Settling a payout keeps the invariant of the ledger. *)
LEMMA StepSettlePayout == ASSUME Inv, Steady, NEW p \in Payouts, SettlePayout(p) PROVE Inv'
  <1> DEFINE new == Apply(balance, Sum[p])
             q == [payouts EXCEPT ![p] = "performed"]
  <1>1. /\ balance' = new /\ Record(new - balance, balance, p) /\ payouts' = q
        /\ meant' = meant + new - balance /\ UNCHANGED <<at, held, owed>>
    BY DEF SettlePayout
  <1>2. new \in Int /\ balance \in Int /\ meant \in Int /\ owed \in Int
    <2>1. balance \in Int /\ meant \in Int /\ owed \in Int
      BY DEF Inv, Typed
    <2>2. Sum[p] \in Int
      BY Amounts
    <2> QED BY <2>1, <2>2, Amounts
  <1> HIDE DEF new
  <1>3. /\ q \in [Payouts -> {"none", "created", "performed"}]
        /\ \A x \in Payouts : payouts[x] = "performed" => q[x] = "performed"
        /\ q[p] = "performed"
    BY DEF Inv, Typed
  <1> HIDE DEF q
  <1>4. events' \in [EventIds -> Rows \union {NoEvent}] /\ serial' \in Nat /\ NamesPerformed'
    <2>1. new - balance \in Int
      BY <1>2
    <2> QED BY <1>1, <1>2, <1>3, <2>1, RecordKeeps DEF Inv
  <1>5. Typed'
    BY <1>1, <1>2, <1>3, <1>4 DEF Inv, Typed
  <1>6. Undisturbed' /\ RefusedWhenLanded'
    BY <1>1 DEF Inv, Steady, Undisturbed, UnderWay, RefusedWhenLanded
  <1>7. EveryMoveCounts'
    BY <1>1, <1>2 DEF Inv, EveryMoveCounts, OnlySubtractionsRefused
  <1> QED BY <1>4, <1>5, <1>6, <1>7 DEF Inv

(* A settlement that reads begins alone.                                          *)
LEMMA StepReading ==
    ASSUME Inv, Overlap = "apart", NEW s \in Settlements,
           NEW from \in {"new", "settled"}, NEW to \in {"update", "refund"},
           NEW target \in Int, Reading(s, from, to, target)
    PROVE  Inv'
  <1>1. /\ at[s] = from /\ s \in Movers /\ s \notin Edits
        /\ \A m \in Movers \ {s} : ~UnderWay(m)
        /\ held' = [held EXCEPT ![s].target = target, ![s].pre = balance]
        /\ at' = [at EXCEPT ![s] = to]
        /\ UNCHANGED <<balance, payouts, events, serial, meant, owed>>
    BY LedgerAssumption DEF Reading, Alone, Movers, Reads
  <1>2. /\ held' \in [Movers -> Takings] /\ held'[s].pre = balance
        /\ \A e \in Edits : held'[e] = held[e]
    <2>1. DEFINE h == [[held[s] EXCEPT !.target = target] EXCEPT !.pre = balance]
    <2>2. h \in Takings /\ h.pre = balance
      BY <1>1 DEF Inv, Typed, Takings
    <2>3. held' = [held EXCEPT ![s] = h]
      BY <1>1 DEF Inv, Typed
    <2> HIDE DEF h
    <2>4. held \in [Movers -> Takings] /\ s \in Movers
      BY <1>1 DEF Inv, Typed
    <2>5. held' \in [Movers -> Takings] /\ held'[s] = h
      BY <2>2, <2>3, <2>4
    <2>6. ASSUME NEW e \in Edits PROVE held'[e] = held[e]
      <3>1. e \in Movers /\ e # s
        BY <1>1 DEF Movers
      <3> QED BY <2>3, <2>4, <3>1
    <2> QED BY <2>2, <2>5, <2>6
  <1>3. Typed'
    BY <1>1, <1>2 DEF Inv, Typed
  <1>4. Undisturbed'
    <2>1. \A m \in Movers \ {s} : ~UnderWay(m)'
      BY <1>1 DEF UnderWay, Inv, Typed
    <2>2. \A t \in Settlements : UnderWay(t)' => t = s
      BY <2>1 DEF Movers
    <2> QED BY <1>1, <1>2, <2>1, <2>2 DEF Undisturbed
  <1>5. RefusedWhenLanded'
    BY <1>1, <1>2 DEF RefusedWhenLanded, Inv, Typed, Movers
  <1>6. EveryMoveCounts'
    BY <1>1, <1>2 DEF EveryMoveCounts, OnlySubtractionsRefused, Inv
  <1>7. NamesPerformed'
    BY <1>1 DEF NamesPerformed, Written, Inv
  <1> QED BY <1>3, <1>4, <1>5, <1>6, <1>7 DEF Inv

(* The read of a settlement, or of its reversal, keeps the invariant of the ledger. *)
LEMMA StepSettle ==
    ASSUME Inv, Overlap = "apart", NEW s \in Settlements, Settle(s) \/ Unsettle(s)
    PROVE  Inv'
  <1>1. Apply(balance, Sum[s]) \in Int /\ Reverse(balance, Sum[s]) \in Int
    <2>1. balance \in Int /\ Sum[s] \in Int
      BY Amounts DEF Inv, Typed
    <2> QED BY <2>1, Amounts
  <1> DEFINE applied == Apply(balance, Sum[s])
             reversed == Reverse(balance, Sum[s])
             none == "new"
             settled == "settled"
             update == "update"
             refund == "refund"
  <1>2. Reading(s, none, update, applied) \/ Reading(s, settled, refund, reversed)
    BY DEF Settle, Unsettle
  <1>3. /\ none \in {"new", "settled"} /\ settled \in {"new", "settled"}
        /\ update \in {"update", "refund"} /\ refund \in {"update", "refund"}
        /\ applied \in Int /\ reversed \in Int
    BY <1>1
  <1> HIDE DEF applied, reversed, none, settled, update, refund
  <1> QED BY <1>2, <1>3, StepReading

(* The update of the balance keeps the invariant of the ledger. *)
LEMMA StepUpdateBalance == ASSUME Inv, NEW s \in Settlements, UpdateBalance(s) PROVE Inv'
  <1> DEFINE target == held[s].target
             delta == target - balance
  <1>1. /\ s \in Movers /\ at[s] \in {"update", "refund"} /\ balance' = target
        /\ Record(delta, balance, NoPayout)
        /\ meant' = meant + target - held[s].pre
        /\ at' = [at EXCEPT ![s] = IF at[s] = "update" THEN "settled" ELSE "done"]
        /\ UNCHANGED <<payouts, held, owed>>
    BY DEF UpdateBalance, Movers
  <1>2. UnderWay(s) /\ held[s].pre = balance /\ \A m \in Movers \ {s} : ~UnderWay(m)
    BY <1>1 DEF UnderWay, Inv, Undisturbed
  <1>3. target \in Int /\ balance \in Int /\ meant \in Int /\ owed \in Int /\ delta \in Int
    BY <1>1 DEF Inv, Typed, Takings
  <1> HIDE DEF target
  <1>4. events' \in [EventIds -> Rows \union {NoEvent}] /\ serial' \in Nat /\ NamesPerformed'
    <2> HIDE DEF delta
    <2>1. payouts \in [Payouts -> {"none", "created", "performed"}]
      BY DEF Inv, Typed
    <2> QED BY <1>1, <1>3, <2>1, RecordKeeps DEF Inv
  <1>5. Typed'
    BY <1>1, <1>3, <1>4 DEF Inv, Typed
  <1>6. Undisturbed'
    <2>1. \A m \in Movers : ~UnderWay(m)'
      BY <1>1, <1>2 DEF UnderWay, Inv, Typed
    <2> QED BY <2>1 DEF Undisturbed, Movers
  <1>7. RefusedWhenLanded'
    BY <1>1, LedgerAssumption DEF RefusedWhenLanded, Inv, Typed, Movers
  <1>8. EveryMoveCounts'
    BY <1>1, <1>2, <1>3 DEF EveryMoveCounts, OnlySubtractionsRefused, Inv
  <1> QED BY <1>4, <1>5, <1>6, <1>7, <1>8 DEF Inv

(* Rows that lose the payout they name.                                           *)
LEMMA UnnamedKeeps ==
    ASSUME Typed, NamesPerformed, NEW gone \in SUBSET Payouts,
           payouts' = [p \in Payouts |-> IF p \in gone THEN "none" ELSE payouts[p]],
           events' = [i \in EventIds |->
                        IF events[i] = NoEvent THEN NoEvent
                        ELSE IF events[i].payout \in gone
                             THEN [events[i] EXCEPT !.payout = NoPayout] ELSE events[i]]
    PROVE  /\ payouts' \in [Payouts -> {"none", "created", "performed"}]
           /\ events' \in [EventIds -> Rows \union {NoEvent}] /\ NamesPerformed'
  <1>1. payouts' \in [Payouts -> {"none", "created", "performed"}]
    BY DEF Typed
  <1>2. \A i \in EventIds : events[i] # NoEvent => events[i] \in Rows
    BY DEF Typed
  <1>3. \A i \in EventIds : events[i] # NoEvent =>
           [events[i] EXCEPT !.payout = NoPayout] \in Rows
    BY <1>2 DEF Rows
  <1>4. events' \in [EventIds -> Rows \union {NoEvent}]
    BY <1>2, <1>3
  <1>5. ASSUME NEW i \in Written', events'[i].payout # NoPayout
        PROVE  payouts'[events'[i].payout] = "performed"
    <2>1. i \in EventIds /\ events[i] # NoEvent
      BY DEF Written
    <2>2. events[i].payout \notin gone
      <3>1. events[i] \in Rows
        BY <1>2, <2>1
      <3>2. [events[i] EXCEPT !.payout = NoPayout].payout = NoPayout
        BY <3>1 DEF Rows
      <3> QED BY <1>5, <2>1, <3>2
    <2>3. events'[i] = events[i]
      BY <2>1, <2>2
    <2>4. events[i].payout \in Payouts /\ payouts[events[i].payout] = "performed"
      BY <1>2, <1>5, <2>1, <2>3 DEF Rows, NamesPerformed, Written
    <2> QED BY <2>2, <2>3, <2>4
  <1> QED BY <1>1, <1>4, <1>5 DEF NamesPerformed

(* Emptying the books keeps the invariant of the ledger. *)
LEMMA StepResetSandbox == ASSUME Inv, Steady, ResetSandbox PROVE Inv'
  <1>1. /\ balance' = 0 /\ meant' = owed /\ UNCHANGED <<serial, at, held, owed>>
        /\ payouts' = [p \in Payouts |-> "none"]
        /\ events' = [i \in EventIds |-> IF events[i] = NoEvent THEN NoEvent
                                          ELSE [events[i] EXCEPT !.payout = NoPayout]]
    BY DEF ResetSandbox
  <1> DEFINE gone == Payouts
  <1>2. /\ gone \in SUBSET Payouts
        /\ payouts' = [p \in Payouts |-> IF p \in gone THEN "none" ELSE payouts[p]]
    BY <1>1
  <1>3. events' = [i \in EventIds |->
                     IF events[i] = NoEvent THEN NoEvent
                     ELSE IF events[i].payout \in gone
                          THEN [events[i] EXCEPT !.payout = NoPayout] ELSE events[i]]
    <2>1. ASSUME NEW i \in EventIds, events[i] # NoEvent, events[i].payout \notin gone
          PROVE  [events[i] EXCEPT !.payout = NoPayout] = events[i]
      <3>1. events[i] \in Rows
        BY <2>1 DEF Inv, Typed
      <3>2. events[i].payout = NoPayout
        BY <2>1, <3>1 DEF Rows
      <3> QED BY <3>1, <3>2 DEF Rows
    <2> QED BY <1>1, <2>1
  <1> HIDE DEF gone
  <1>4. /\ payouts' \in [Payouts -> {"none", "created", "performed"}]
        /\ events' \in [EventIds -> Rows \union {NoEvent}] /\ NamesPerformed'
    BY <1>2, <1>3, UnnamedKeeps DEF Inv
  <1>5. Typed'
    BY <1>1, <1>4 DEF Inv, Typed
  <1>6. Undisturbed' /\ RefusedWhenLanded'
    BY <1>1 DEF Inv, Steady, Undisturbed, UnderWay, RefusedWhenLanded
  <1>7. EveryMoveCounts'
    BY <1>1 DEF Inv, Typed, EveryMoveCounts
  <1> QED BY <1>4, <1>5, <1>6, <1>7 DEF Inv

(* Deleting the row of a payout keeps the invariant of the ledger. *)
LEMMA StepDeleteTransaction ==
    ASSUME Inv, NEW p \in Payouts, DeleteTransaction(p) PROVE Inv'
  <1>1. /\ payouts' = [payouts EXCEPT ![p] = "none"]
        /\ events' = [i \in EventIds |-> IF events[i] # NoEvent /\ events[i].payout = p
                                          THEN [events[i] EXCEPT !.payout = NoPayout] ELSE events[i]]
        /\ UNCHANGED <<balance, serial, at, held, meant, owed>>
    BY DEF DeleteTransaction
  <1> DEFINE gone == {p}
  <1>2. /\ gone \in SUBSET Payouts
        /\ payouts' = [x \in Payouts |-> IF x \in gone THEN "none" ELSE payouts[x]]
    BY <1>1 DEF Inv, Typed
  <1>3. events' = [i \in EventIds |->
                     IF events[i] = NoEvent THEN NoEvent
                     ELSE IF events[i].payout \in gone
                          THEN [events[i] EXCEPT !.payout = NoPayout] ELSE events[i]]
    BY <1>1
  <1> HIDE DEF gone
  <1>4. /\ payouts' \in [Payouts -> {"none", "created", "performed"}]
        /\ events' \in [EventIds -> Rows \union {NoEvent}] /\ NamesPerformed'
    BY <1>2, <1>3, UnnamedKeeps DEF Inv
  <1>5. Typed'
    BY <1>1, <1>4 DEF Inv, Typed
  <1>6. Undisturbed' /\ RefusedWhenLanded' /\ EveryMoveCounts'
    BY <1>1 DEF Inv, Undisturbed, UnderWay, RefusedWhenLanded, EveryMoveCounts,
                OnlySubtractionsRefused
  <1> QED BY <1>4, <1>5, <1>6 DEF Inv

(* A step that fails keeps the invariant of the ledger. *)
LEMMA StepFail == ASSUME Inv, NEW m \in Movers, Fail(m) PROVE Inv'
  <1>1. /\ at' = [at EXCEPT ![m] = "done"]
        /\ UNCHANGED <<balance, payouts, events, serial, held, meant, owed>>
    BY DEF Fail
  <1>2. Typed'
    BY <1>1 DEF Inv, Typed
  <1>3. \A n \in Movers : UnderWay(n)' => UnderWay(n)
    BY <1>1 DEF UnderWay, Inv, Typed
  <1>4. Undisturbed'
    BY <1>1, <1>3 DEF Undisturbed, Inv, Movers
  <1>5. RefusedWhenLanded'
    BY <1>1 DEF RefusedWhenLanded, Inv, Typed, Movers
  <1>6. EveryMoveCounts' /\ NamesPerformed'
    BY <1>1 DEF EveryMoveCounts, OnlySubtractionsRefused, NamesPerformed, Written, Inv
  <1> QED BY <1>2, <1>4, <1>5, <1>6 DEF Inv

(* Every step of the ledger keeps its invariant. *)
LEMMA InvNext == ASSUME Inv, Overlap = "apart", [Next]_vars PROVE Inv'
  <1>1. ASSUME NEW s \in Settlements, Settle(s) \/ Unsettle(s) \/ UpdateBalance(s) PROVE Inv'
    BY <1>1, StepSettle, StepUpdateBalance
  <1>2. Exclusive => Steady
    BY DEF Exclusive, Steady
  <1>3. ASSUME Steady, NEW e \in Edits,
               EditBegin(e) \/ EditCommit(e) \/ UndoBegin(e) \/ UndoCommit(e)
        PROVE  Inv'
    BY <1>3, StepEditBegin, StepEditCommit, StepUndoBegin, StepUndoCommit
  <1>4. ASSUME Steady, NEW p \in Payouts,
               OpenPayout(p) \/ SettlePayout(p) \/ DeleteTransaction(p)
        PROVE  Inv'
    BY <1>4, StepOpenPayout, StepSettlePayout, StepDeleteTransaction
  <1>5. ASSUME Steady, ResetSandbox PROVE Inv'
    BY <1>5, StepResetSandbox
  <1>6. ASSUME NEW m \in Movers, Fail(m) PROVE Inv'
    BY <1>6, StepFail
  <1>7. CASE UNCHANGED <<balance, payouts, events, serial, at, held, meant, owed>>
    BY <1>7 DEF Inv, Typed, Undisturbed, UnderWay, RefusedWhenLanded, EveryMoveCounts,
                OnlySubtractionsRefused, NamesPerformed, Written
  <1>8. SetBlocked \/ UNCHANGED vars =>
           UNCHANGED <<balance, payouts, events, serial, at, held, meant, owed>>
    BY DEF SetBlocked, vars
  <1> QED BY <1>1, <1>2, <1>3, <1>4, <1>5, <1>6, <1>7, <1>8 DEF Next

(* No move is lost, whatever lands between the statements of an edit and its undo,   *)
(* as long as a settlement is not interrupted (views.go:379, ledger.go:100).         *)
THEOREM EveryMoveCountsSafety == ASSUME Overlap = "apart" PROVE Spec => []EveryMoveCounts
  <1>1. Inv => EveryMoveCounts
    BY DEF Inv
  <1>2. Inv /\ [Next]_vars => Inv'
    BY InvNext
  <1> QED BY <1>1, <1>2, InvInit, PTL DEF Spec

(* The history names performed payouts only (ledger.go:58).                        *)
THEOREM NamesPerformedSafety == ASSUME Overlap = "apart" PROVE Spec => []NamesPerformed
  <1>1. Inv => NamesPerformed
    BY DEF Inv
  <1>2. Inv /\ [Next]_vars => Inv'
    BY InvNext
  <1> QED BY <1>1, <1>2, InvInit, PTL DEF Spec
-----------------------------------------------------------------------------
(* What holds of the rows in every schedule, a settlement's read overtaken or not.   *)
Shaped ==
    /\ Typed /\ blocked \in BOOLEAN /\ opening \in Int /\ failures \in Nat
    /\ serial <= MaxEvents /\ \A i \in Written : i <= serial
    /\ \A i \in Written : events[i].before + events[i].delta = events[i].after

\* No statement has landed under another mover, and none was lost.
Clean == ~crossed /\ failures = 0

\* A refused edit that has not given back its amount yet.
Awaits(e) == at[e] \in {"refused", "undo"}

\* While movers take turns, the balance a mover read is still the balance.
ReadsStand ==
    Clean => \A m \in Movers : at[m] \in {"edit", "update", "refund"} => held[m].pre = balance

\* The figure a settlement is about to write is its sum away from what it read.
Targets ==
    \A s \in Settlements :
        /\ at[s] = "update" => /\ held[s].target = Apply(held[s].pre, Sum[s])
                               /\ ~Inbound => Sum[s] <= held[s].pre
        /\ at[s] = "refund" => held[s].target = Reverse(held[s].pre, Sum[s])

\* Taking turns, a register that pays out is below nothing only for one edit's undo.
BelowForUndo ==
    Clean /\ ~Inbound =>
        /\ OnlySubtractionsRefused
        /\ \A e \in Edits : Awaits(e) => balance - held[e].delta >= 0
        /\ (\A e \in Edits : ~Awaits(e)) => balance >= 0

\* The newest row of the history is the refused edit's own.
OwnRow(e) ==
    /\ serial \in Written /\ events[serial].delta = held[e].delta
    /\ at[e] = "undo" => held[e].newest = serial

Accounted ==
    Clean /\ OnlySubtractionsRefused =>
        /\ balance = opening + Explained(events)
        /\ \A e \in Edits : Awaits(e) => OwnRow(e)

HistoryInv ==
    /\ Shaped /\ RefusedWhenLanded /\ Targets
    /\ ReadsStand /\ BelowForUndo /\ Accounted

-----------------------------------------------------------------------------
\* Ids of rows are finitely many.
LEMMA IdsFinite == IsFiniteSet(EventIds)
  <1>1. 1 \in Int /\ MaxEvents \in Int
    BY LedgerAssumption
  <1> QED BY <1>1, FS_Interval DEF EventIds

\* The rows of a history are finitely many, and their deltas add up.
LEMMA ExplainedTyped ==
    ASSUME NEW rows \in [EventIds -> Rows \union {NoEvent}] PROVE Explained(rows) \in Int
  <1>1. IsFiniteSet(EventIds)
    BY IdsFinite
  <1>2. [i \in EventIds |-> DeltaOf(rows[i])] \in [EventIds -> Int]
    BY DEF DeltaOf, Rows
  <1> QED BY <1>1, <1>2, SumTyped DEF Explained

\* A change of one row changes what the history explains by as much.
LEMMA ExplainedChanges ==
    ASSUME NEW rows \in [EventIds -> Rows \union {NoEvent}], NEW k \in EventIds,
           NEW row \in Rows \union {NoEvent}
    PROVE  Explained([rows EXCEPT ![k] = row]) = Explained(rows) + DeltaOf(row) - DeltaOf(rows[k])
  <1> DEFINE new == [rows EXCEPT ![k] = row]
             f == [i \in EventIds |-> DeltaOf(rows[i])]
             h == [i \in EventIds |-> DeltaOf(new[i])]
  <1>1. IsFiniteSet(EventIds)
    BY IdsFinite
  <1>2. f \in [EventIds -> Int] /\ h \in [EventIds -> Int]
    BY DEF DeltaOf, Rows
  <1>3. \A i \in EventIds : i # k => h[i] = f[i]
    OBVIOUS
  <1>4. f[k] = DeltaOf(rows[k]) /\ h[k] = DeltaOf(row)
    OBVIOUS
  <1>5. Explained(rows) = SumFunction(f) /\ Explained(new) = SumFunction(h)
    BY DEF Explained
  <1> HIDE DEF f, h, new
  <1>6. SumFunction(h) = SumFunction(f) + h[k] - f[k]
    BY <1>1, <1>2, <1>3, SumChanges
  <1> QED BY <1>4, <1>5, <1>6 DEF new

\* Rows that move the register alike explain as much.
LEMMA ExplainedSame ==
    ASSUME NEW rows, NEW new, \A i \in EventIds : DeltaOf(new[i]) = DeltaOf(rows[i])
    PROVE  Explained(new) = Explained(rows)
  BY DEF Explained

\* A new row takes an id no row has.
LEMMA RecordRow ==
    ASSUME Shaped, NEW delta \in Int, NEW before \in Int, NEW p \in Payouts \union {NoPayout},
           Record(delta, before, p)
    PROVE  /\ events' \in [EventIds -> Rows \union {NoEvent}]
           /\ serial' \in Nat /\ serial' <= MaxEvents /\ \A i \in Written' : i <= serial'
           /\ \A i \in Written' : events'[i].before + events'[i].delta = events'[i].after
           /\ serial' \in Written' /\ events'[serial'].delta = delta
           /\ Explained(events') = Explained(events) + delta
  <1> DEFINE row == Event(delta, before, p)
             k == serial + 1
  <1>1. /\ row \in Rows /\ row # NoEvent /\ row.delta = delta
        /\ row.before + row.delta = row.after
    <2>1. row \in Rows /\ row.delta = delta /\ row.before + row.delta = row.after
      BY DEF Event, Rows
    <2> QED BY <2>1, LedgerAssumption
  <1>2. /\ serial \in Nat /\ MaxEvents \in Nat /\ serial < MaxEvents
        /\ serial' = k /\ events' = [events EXCEPT ![k] = row]
        /\ events \in [EventIds -> Rows \union {NoEvent}]
    BY LedgerAssumption DEF Record, Shaped, Typed
  <1>3. k \in EventIds /\ events[k] = NoEvent
    <2>1. k \in EventIds /\ ~(k <= serial)
      BY <1>2 DEF EventIds
    <2> QED BY <2>1 DEF Shaped, Written
  <1> HIDE DEF row
  <1>4. /\ events' \in [EventIds -> Rows \union {NoEvent}]
        /\ events'[k] = row /\ \A i \in EventIds \ {k} : events'[i] = events[i]
    BY <1>1, <1>2, <1>3
  <1>5. Written' = Written \union {k}
    BY <1>1, <1>3, <1>4 DEF Written
  <1>6. Explained(events') = Explained(events) + delta
    <2>1. Explained(events') = Explained(events) + DeltaOf(row) - DeltaOf(events[k])
      BY <1>1, <1>2, <1>3, ExplainedChanges
    <2>2. DeltaOf(row) = delta /\ DeltaOf(events[k]) = 0
      BY <1>1, <1>3 DEF DeltaOf
    <2>3. Explained(events) \in Int
      BY <1>2, ExplainedTyped
    <2> HIDE DEF k
    <2> QED BY <2>1, <2>2, <2>3
  <1>7. \A i \in Written' : i <= k
    <2>1. \A i \in Written : i <= serial /\ i \in Int
      BY DEF Shaped, Written, EventIds
    <2> QED BY <1>2, <1>5, <2>1
  <1>8. \A i \in Written' : events'[i].before + events'[i].delta = events'[i].after
    <2>1. \A i \in Written \ {k} : events'[i] = events[i]
      BY <1>4 DEF Written
    <2> QED BY <1>1, <1>4, <1>5, <2>1 DEF Shaped
  <1> QED BY <1>1, <1>2, <1>4, <1>5, <1>6, <1>7, <1>8

\* Rows that only lose the payout they name.
LEMMA UnnamedRows ==
    ASSUME Shaped, NEW gone \in SUBSET EventIds,
           events' = [i \in EventIds |-> IF i \in gone /\ events[i] # NoEvent
                                         THEN [events[i] EXCEPT !.payout = NoPayout] ELSE events[i]],
           serial' = serial
    PROVE  /\ events' \in [EventIds -> Rows \union {NoEvent}]
           /\ Written' = Written /\ \A i \in Written : events'[i].delta = events[i].delta
           /\ \A i \in Written' : i <= serial'
           /\ \A i \in Written' : events'[i].before + events'[i].delta = events'[i].after
           /\ Explained(events') = Explained(events)
  <1>1. ASSUME NEW i \in EventIds, events[i] # NoEvent
        PROVE  /\ events'[i] \in Rows /\ events'[i] # NoEvent
               /\ events'[i].delta = events[i].delta
               /\ events'[i].before = events[i].before /\ events'[i].after = events[i].after
    <2>1. events[i] \in Rows
      BY <1>1 DEF Shaped, Typed
    <2> DEFINE row == [events[i] EXCEPT !.payout = NoPayout]
    <2>2. /\ row \in Rows /\ row.delta = events[i].delta
          /\ row.before = events[i].before /\ row.after = events[i].after
      BY <2>1 DEF Rows
    <2>3. events'[i] = row \/ events'[i] = events[i]
      BY <1>1
    <2> HIDE DEF row
    <2> QED BY <2>1, <2>2, <2>3, LedgerAssumption
  <1>2. \A i \in EventIds : events[i] = NoEvent => events'[i] = NoEvent
    OBVIOUS
  <1>3. events' \in [EventIds -> Rows \union {NoEvent}]
    <2>1. \A i \in EventIds : events'[i] \in Rows \union {NoEvent}
      BY <1>1, <1>2
    <2>2. events' = [i \in EventIds |-> events'[i]]
      OBVIOUS
    <2> QED BY <2>1, <2>2
  <1>4. Written' = Written
    BY <1>1, <1>2 DEF Written
  <1>5. \A i \in Written : i \in EventIds /\ events[i] # NoEvent
    BY DEF Written
  <1>6. \A i \in Written : /\ events'[i].delta = events[i].delta
                           /\ events'[i].before = events[i].before
                           /\ events'[i].after = events[i].after
    BY <1>1, <1>5
  <1>7. Explained(events') = Explained(events)
    <2>1. \A i \in EventIds : DeltaOf(events'[i]) = DeltaOf(events[i])
      BY <1>1, <1>2 DEF DeltaOf
    <2> QED BY <2>1, ExplainedSame
  <1>8. \A i \in Written' : i <= serial'
    BY <1>4 DEF Shaped
  <1>9. \A i \in Written' : events'[i].before + events'[i].delta = events'[i].after
    BY <1>4, <1>6 DEF Shaped
  <1> QED BY <1>3, <1>4, <1>6, <1>7, <1>8, <1>9

-----------------------------------------------------------------------------
\* A landing that crosses nobody: the others are not under way.
LEMMA LandsAlone ==
    ASSUME NEW m \in Movers, Lands(m), Clean', failures' = failures
    PROVE  Clean /\ \A n \in Movers \ {m} : ~UnderWay(n)
  BY DEF Lands, Clean

\* Who waits for an undo, or is about to write, is under way.
LEMMA AtUnderWay ==
    /\ \A m \in Movers : at[m] \in {"edit", "update", "refund"} => UnderWay(m)
    /\ \A e \in Edits : Awaits(e) => UnderWay(e)
  BY DEF UnderWay, Awaits

\* An edit or a settlement reads: its own copy changes and nothing else.
LEMMA ReadKeeps ==
    ASSUME HistoryInv, NEW m \in Movers, NEW h \in Takings, NEW to \in {"edit", "update", "refund"},
           at[m] \in {"new", "settled"}, at' = [at EXCEPT ![m] = to],
           held' = [held EXCEPT ![m] = h], Reads, h.pre = balance,
           m \in Edits => to = "edit" /\ ~held[m].refused /\ ~h.refused,
           m \in Settlements =>
               /\ to = "update" => h.target = Apply(h.pre, Sum[m]) /\ (~Inbound => Sum[m] <= h.pre)
               /\ to = "refund" => h.target = Reverse(h.pre, Sum[m])
    PROVE  HistoryInv'
  <1>1. /\ UNCHANGED <<balance, blocked, payouts, events, serial, meant, opening, owed, crossed,
                       failures>>
        /\ at'[m] = to /\ held'[m] = h
        /\ \A n \in Movers \ {m} : at'[n] = at[n] /\ held'[n] = held[n]
        /\ at' \in [Movers -> {"new", "edit", "refused", "undo", "update", "settled", "refund", "done"}]
        /\ held' \in [Movers -> Takings]
    BY DEF Reads, HistoryInv, Shaped, Typed
  <1>2. Shaped'
    BY <1>1 DEF HistoryInv, Shaped, Typed, Written
  <1>3. RefusedWhenLanded'
    BY <1>1 DEF HistoryInv, RefusedWhenLanded, Movers
  <1>4. Targets'
    BY <1>1 DEF HistoryInv, Targets, Movers
  <1>5. ReadsStand'
    BY <1>1 DEF HistoryInv, ReadsStand, Clean
  <1>6. /\ \A e \in Edits : Awaits(e)' <=> Awaits(e)
        /\ \A e \in Edits : Awaits(e) => held'[e] = held[e] /\ at'[e] = at[e]
    BY <1>1 DEF Awaits, Movers
  <1>7. OnlySubtractionsRefused' <=> OnlySubtractionsRefused
    BY <1>1 DEF OnlySubtractionsRefused, Movers
  <1>8. BelowForUndo'
    BY <1>1, <1>6, <1>7 DEF HistoryInv, BelowForUndo, Clean
  <1>9. Accounted'
    BY <1>1, <1>6, <1>7 DEF HistoryInv, Accounted, OwnRow, Written, Clean
  <1> QED BY <1>2, <1>3, <1>4, <1>5, <1>8, <1>9 DEF HistoryInv

(* The read that starts an edit keeps the history's invariant. *)
LEMMA HistoryEditBegin == ASSUME HistoryInv, NEW e \in Edits, EditBegin(e) PROVE HistoryInv'
  <1>0. PICK d \in Deltas : held' = [held EXCEPT ![e] = [Nothing EXCEPT !.delta = d, !.pre = balance]]
    BY Zenon DEF EditBegin
  <1>1. PICK h : /\ h = [Nothing EXCEPT !.delta = d, !.pre = balance]
                 /\ held' = [held EXCEPT ![e] = h]
    BY <1>0
  <1> DEFINE to == "edit"
  <1>2. at[e] = "new" /\ at' = [at EXCEPT ![e] = to] /\ e \in Movers /\ Reads
    BY DEF EditBegin, Movers
  <1>3. h \in Takings /\ ~h.refused /\ h.pre = balance
    <2>1. Nothing \in Takings /\ Nothing.refused = FALSE
      BY DEF Nothing, Takings, Newests
    <2>2. d \in Int /\ balance \in Int
      BY <1>1, LedgerAssumption DEF HistoryInv, Shaped, Typed
    <2> QED BY <1>1, <2>1, <2>2 DEF Takings
  <1>4. e \notin Settlements /\ ~held[e].refused
    BY <1>2, LedgerAssumption DEF HistoryInv, RefusedWhenLanded
  <1>5. to \in {"edit", "update", "refund"} /\ to = "edit"
    OBVIOUS
  <1> HIDE DEF to
  <1> QED BY <1>1, <1>2, <1>3, <1>4, <1>5, ReadKeeps

(* The read of a settlement, or of its reversal, keeps the history's invariant. *)
LEMMA HistorySettle ==
    ASSUME HistoryInv, NEW s \in Settlements, Settle(s) \/ Unsettle(s) PROVE HistoryInv'
  <1> DEFINE a == Apply(balance, Sum[s])
             b == Reverse(balance, Sum[s])
             C(from, to, target) ==
                 /\ at[s] = from /\ at' = [at EXCEPT ![s] = to] /\ Reads
                 /\ held' = [held EXCEPT ![s].target = target, ![s].pre = balance]
  <1>0. s \in Movers /\ s \notin Edits /\ balance \in Int /\ Sum[s] \in Int /\ a \in Int /\ b \in Int
    <2>1. s \in Movers /\ s \notin Edits /\ balance \in Int /\ Sum[s] \in Int
      BY LedgerAssumption, Amounts DEF Movers, HistoryInv, Shaped, Typed
    <2> QED BY <2>1, Amounts
  <1>1. \/ C("new", "update", a) /\ ~Refuses(blocked, balance, Sum[s])
        \/ C("settled", "refund", b)
    BY DEF Settle, Unsettle, Reading
  <1> HIDE DEF a, b
  <1>2. ASSUME NEW from \in {"new", "settled"}, NEW to \in {"update", "refund"}, NEW target \in Int,
               C(from, to, target),
               to = "update" => target = Apply(balance, Sum[s]) /\ (~Inbound => Sum[s] <= balance),
               to = "refund" => target = Reverse(balance, Sum[s])
        PROVE  HistoryInv'
    <2> DEFINE h == [[held[s] EXCEPT !.target = target] EXCEPT !.pre = balance]
    <2>1. held \in [Movers -> Takings] /\ held[s] \in Takings
      BY <1>0 DEF HistoryInv, Shaped, Typed
    <2>2. h \in Takings /\ h.pre = balance /\ h.target = target
      BY <1>0, <2>1 DEF Takings
    <2>3. held' = [held EXCEPT ![s] = h]
      BY <1>2, <1>0, <2>1
    <2> HIDE DEF h
    <2>4. at[s] \in {"new", "settled"} /\ at' = [at EXCEPT ![s] = to] /\ Reads
      BY <1>2
    <2> HIDE DEF C
    <2> QED BY <1>0, <1>2, <2>2, <2>3, <2>4, ReadKeeps
  <1>3. CASE C("new", "update", a) /\ ~Refuses(blocked, balance, Sum[s])
    <2> DEFINE from == "new"
               to == "update"
    <2>1. ~Inbound => Sum[s] <= balance
      BY <1>0, <1>3 DEF Refuses
    <2>2. C(from, to, a) /\ from \in {"new", "settled"} /\ to \in {"update", "refund"} /\ to # "refund"
      BY <1>3
    <2>3. a \in Int /\ a = Apply(balance, Sum[s])
      BY <1>0 DEF a
    <2> HIDE DEF from, to, C
    <2> QED BY <1>2, <2>1, <2>2, <2>3
  <1>4. CASE C("settled", "refund", b)
    <2> DEFINE from == "settled"
               to == "refund"
    <2>1. C(from, to, b) /\ from \in {"new", "settled"} /\ to \in {"update", "refund"} /\ to # "update"
      BY <1>4
    <2>2. b \in Int /\ b = Reverse(balance, Sum[s])
      BY <1>0 DEF b
    <2> HIDE DEF from, to, C
    <2> QED BY <1>2, <2>1, <2>2
  <1> QED BY <1>1, <1>3, <1>4

(* The read that starts an undo keeps the history's invariant. *)
LEMMA HistoryUndoBegin == ASSUME HistoryInv, NEW e \in Edits, UndoBegin(e) PROVE HistoryInv'
  <1>1. /\ at[e] = "refused" /\ e \in Movers /\ at' = [at EXCEPT ![e] = "undo"]
        /\ held' = [held EXCEPT ![e].newest = Newest]
        /\ UNCHANGED <<balance, blocked, payouts, events, serial, meant, opening, owed, crossed,
                       failures>>
    BY DEF UndoBegin, Movers, Reads
  <1>2. Newest \in Newests
    BY DEF Newest, Newests, Written
  <1>3. /\ held' \in [Movers -> Takings] /\ held'[e].newest = Newest
        /\ \A m \in Movers : /\ held'[m].refused = held[m].refused
                             /\ held'[m].delta = held[m].delta
                             /\ held'[m].pre = held[m].pre /\ held'[m].target = held[m].target
        /\ \A m \in Movers \ {e} : held'[m] = held[m]
    <2> HIDE DEF Newest
    <2> QED BY <1>1, <1>2 DEF HistoryInv, Shaped, Typed, Takings
  <1>4. /\ at'[e] = "undo" /\ \A m \in Movers \ {e} : at'[m] = at[m]
        /\ at' \in [Movers -> {"new", "edit", "refused", "undo", "update", "settled", "refund", "done"}]
    BY <1>1 DEF HistoryInv, Shaped, Typed
  <1>5. Shaped'
    BY <1>1, <1>3, <1>4 DEF HistoryInv, Shaped, Typed, Written
  <1>6. RefusedWhenLanded'
    BY <1>1, <1>3, <1>4 DEF HistoryInv, RefusedWhenLanded, Movers
  <1>7. Targets'
    BY <1>1, <1>3, <1>4 DEF HistoryInv, Targets, Movers
  <1>8. ReadsStand'
    BY <1>1, <1>3, <1>4 DEF HistoryInv, ReadsStand, Clean
  <1>9. /\ \A f \in Edits : Awaits(f)' <=> Awaits(f)
        /\ OnlySubtractionsRefused' <=> OnlySubtractionsRefused
    BY <1>1, <1>3, <1>4 DEF Awaits, OnlySubtractionsRefused, Movers
  <1>10. BelowForUndo'
    BY <1>1, <1>3, <1>9 DEF HistoryInv, BelowForUndo, Clean, Movers
  <1>11. Accounted'
    <2> SUFFICES ASSUME Clean', OnlySubtractionsRefused' PROVE
                     /\ balance' = opening' + Explained(events')
                     /\ \A f \in Edits : Awaits(f)' => OwnRow(f)'
      BY DEF Accounted
    <2>1. /\ balance = opening + Explained(events)
          /\ \A f \in Edits : Awaits(f) => OwnRow(f)
      BY <1>1, <1>9 DEF HistoryInv, Accounted, Clean
    <2>2. serial \in Written
      BY <1>1, <2>1 DEF Awaits, OwnRow
    <2>3. Newest = serial
      <3>1. \A i \in Written : serial >= i /\ i \in Int
        BY DEF HistoryInv, Shaped, Typed, Written, EventIds
      <3>2. \A k \in Written : (\A i \in Written : k >= i) => k = serial
        BY <2>2, <3>1
      <3> QED BY <2>2, <3>1, <3>2 DEF Newest, Max
    <2>4. ASSUME NEW f \in Edits, Awaits(f)' PROVE OwnRow(f)'
      <3>1. f \in Movers /\ OwnRow(f)
        BY <1>9, <2>1, <2>4 DEF Movers
      <3>2. serial' \in Written' /\ events'[serial'].delta = held'[f].delta
        BY <1>1, <1>3, <3>1 DEF OwnRow, Written
      <3>3. at'[f] = "undo" => held'[f].newest = serial'
        BY <1>1, <1>3, <1>4, <2>3, <3>1 DEF OwnRow
      <3> QED BY <3>2, <3>3 DEF OwnRow
    <2> QED BY <1>1, <2>1, <2>4
  <1> QED BY <1>5, <1>6, <1>7, <1>8, <1>10, <1>11 DEF HistoryInv

(* The commit of an edit keeps the history's invariant. *)
LEMMA HistoryEditCommit == ASSUME HistoryInv, NEW e \in Edits, EditCommit(e) PROVE HistoryInv'
  <1> DEFINE d == held[e].delta
             new == balance + d
             pre == held[e].pre
  <1>1. /\ at[e] = "edit" /\ e \in Movers /\ d \in Int /\ pre \in Int /\ new \in Int
        /\ balance \in Int /\ held[e] \in Takings /\ ~held[e].refused
    <2>1. at[e] = "edit" /\ e \in Movers
      BY DEF EditCommit, Edited, Movers
    <2>2. held[e] \in Takings /\ balance \in Int
      BY <2>1 DEF HistoryInv, Shaped, Typed
    <2>3. d \in Int /\ pre \in Int
      BY <2>2 DEF Takings
    <2> QED BY <2>1, <2>2, <2>3 DEF HistoryInv, RefusedWhenLanded
  <1>2. /\ balance' = new /\ Record(new - pre, pre, NoPayout)
        /\ at' = [at EXCEPT ![e] = IF new < 0 THEN "refused" ELSE "done"]
        /\ owed' = owed + (IF new < 0 /\ d < 0 THEN -d ELSE 0)
        /\ meant' = meant + (IF new < 0 THEN 0 ELSE d)
        /\ Lands(e) /\ UNCHANGED <<payouts, blocked, opening, failures>>
    BY DEF EditCommit, Edited
  <1>n. new = balance + d
    OBVIOUS
  <1> HIDE DEF new, pre
  <1>0. PICK b, h :
           /\ b \in BOOLEAN /\ (b <=> new < 0)
           /\ h = [held[e] EXCEPT !.refused = b] /\ held' = [held EXCEPT ![e] = h]
    <2>1. held' = [held EXCEPT ![e] = [held[e] EXCEPT !.refused = (new < 0)]]
      BY DEF EditCommit, Edited, new
    <2>2. CASE new < 0
      <3>1. (new < 0) = TRUE
        BY <2>2
      <3> QED BY <2>1, <3>1
    <2>3. CASE ~(new < 0)
      <3>1. (new < 0) = FALSE
        BY <2>3
      <3> QED BY <2>1, <3>1
    <2> QED BY <2>2, <2>3
  <1>3. /\ held'[e].refused = b /\ held'[e].delta = d /\ held'[e] \in Takings
        /\ at'[e] = IF new < 0 THEN "refused" ELSE "done"
        /\ \A m \in Movers \ {e} : held'[m] = held[m] /\ at'[m] = at[m]
        /\ at' \in [Movers -> {"new", "edit", "refused", "undo", "update", "settled", "refund", "done"}]
    BY <1>0, <1>1, <1>2 DEF HistoryInv, Shaped, Typed, Takings
  <1>4. /\ events' \in [EventIds -> Rows \union {NoEvent}]
        /\ serial' \in Nat /\ serial' <= MaxEvents /\ \A i \in Written' : i <= serial'
        /\ \A i \in Written' : events'[i].before + events'[i].delta = events'[i].after
        /\ serial' \in Written' /\ events'[serial'].delta = new - pre
        /\ Explained(events') = Explained(events) + (new - pre)
    <2>1. new - pre \in Int /\ NoPayout \in Payouts \union {NoPayout}
      BY <1>1
    <2> DEFINE delta == new - pre
    <2> HIDE DEF delta
    <2>2. delta \in Int /\ Record(delta, pre, NoPayout)
      BY <1>2, <2>1 DEF delta
    <2>3. /\ events' \in [EventIds -> Rows \union {NoEvent}]
          /\ serial' \in Nat /\ serial' <= MaxEvents /\ \A i \in Written' : i <= serial'
          /\ \A i \in Written' : events'[i].before + events'[i].delta = events'[i].after
          /\ serial' \in Written' /\ events'[serial'].delta = delta
          /\ Explained(events') = Explained(events) + delta
      BY <1>1, <2>1, <2>2, RecordRow DEF HistoryInv
    <2> QED BY <2>3 DEF delta
  <1>5. Shaped'
    <2>1. owed' \in Int /\ meant' \in Int
      BY <1>1, <1>2 DEF HistoryInv, Shaped, Typed
    <2>2. held' \in [Movers -> Takings]
      BY <1>0, <1>3 DEF HistoryInv, Shaped, Typed
    <2> QED BY <1>1, <1>2, <1>3, <1>4, <2>1, <2>2 DEF HistoryInv, Shaped, Typed
  <1>6. RefusedWhenLanded'
    BY <1>0, <1>3 DEF HistoryInv, RefusedWhenLanded, Movers
  <1>7. Targets'
    BY <1>3, LedgerAssumption DEF HistoryInv, Targets, Movers
  <1>8. Clean' => /\ Clean /\ pre = balance
                  /\ \A m \in Movers \ {e} : at[m] \notin {"edit", "update", "refund"}
                  /\ \A f \in Edits : ~Awaits(f)
    <2> SUFFICES ASSUME Clean' PROVE
                     /\ Clean /\ pre = balance
                     /\ \A m \in Movers \ {e} : at[m] \notin {"edit", "update", "refund"}
                     /\ \A f \in Edits : ~Awaits(f)
      OBVIOUS
    <2>1. Clean /\ \A n \in Movers \ {e} : ~UnderWay(n)
      BY <1>1, <1>2, LandsAlone
    <2>2. pre = balance
      BY <1>1, <2>1 DEF HistoryInv, ReadsStand, pre
    <2>3. ~Awaits(e)
      BY <1>1 DEF Awaits
    <2> QED BY <2>1, <2>2, <2>3, AtUnderWay DEF Movers
  <1>9. ReadsStand'
    BY <1>3, <1>8 DEF ReadsStand
  <1>10. OnlySubtractionsRefused' => OnlySubtractionsRefused /\ (new < 0 => d < 0)
    BY <1>0, <1>1, <1>3 DEF OnlySubtractionsRefused, Movers
  <1>11. BelowForUndo'
    <2> SUFFICES ASSUME Clean', ~Inbound PROVE
                     /\ OnlySubtractionsRefused'
                     /\ \A f \in Edits : Awaits(f)' => balance' - held'[f].delta >= 0
                     /\ (\A f \in Edits : ~Awaits(f)') => balance' >= 0
      BY DEF BelowForUndo, Inbound, RegisterKind, Kinds
    <2>1. balance >= 0 /\ OnlySubtractionsRefused
      BY <1>8 DEF HistoryInv, BelowForUndo
    <2>2. new < 0 => d < 0
      <3> HIDE DEF d
      <3> QED BY <1>1, <1>n, <2>1
    <2>3. \A f \in Edits \ {e} : ~Awaits(f)' /\ held'[f] = held[f]
      BY <1>3, <1>8 DEF Awaits, Movers
    <2>4. OnlySubtractionsRefused'
      BY <1>0, <1>3, <2>1, <2>2, <2>3 DEF OnlySubtractionsRefused
    <2>5. balance' - held'[e].delta >= 0
      <3>1. balance' - held'[e].delta = (balance + d) - d
        BY <1>2, <1>3, <1>n
      <3> HIDE DEF d
      <3>2. (balance + d) - d = balance
        BY <1>1
      <3> QED BY <2>1, <3>1, <3>2
    <2>6. ~Awaits(e)' => balance' >= 0
      <3>1. ~Awaits(e)' => ~(new < 0)
        BY <1>3 DEF Awaits
      <3> QED BY <1>1, <1>2, <3>1
    <2> QED BY <2>3, <2>4, <2>5, <2>6
  <1>12. Accounted'
    <2> SUFFICES ASSUME Clean', OnlySubtractionsRefused' PROVE
                     /\ balance' = opening' + Explained(events')
                     /\ \A f \in Edits : Awaits(f)' => OwnRow(f)'
      BY DEF Accounted
    <2>1. balance = opening + Explained(events) /\ pre = balance
      BY <1>8, <1>10 DEF HistoryInv, Accounted
    <2>2. new - pre = d
      <3> HIDE DEF d
      <3> QED BY <1>1, <1>n, <2>1
    <2>3. balance' = opening' + Explained(events')
      <3>1. opening \in Int /\ Explained(events) \in Int
        BY ExplainedTyped DEF HistoryInv, Shaped, Typed
      <3> DEFINE x == Explained(events)
                 y == Explained(events')
      <3>2. x \in Int /\ balance = opening + x /\ y = x + d
        BY <2>1, <2>2, <1>4, <3>1
      <3> HIDE DEF x, y, d
      <3>3. opening + (x + d) = balance + d
        BY <1>1, <3>1, <3>2
      <3> QED BY <1>2, <1>n, <3>2, <3>3 DEF y
    <2>4. ASSUME NEW f \in Edits, Awaits(f)' PROVE OwnRow(f)'
      <3>1. f = e
        BY <1>3, <1>8, <2>4 DEF Awaits, Movers
      <3>2. serial' \in Written' /\ events'[serial'].delta = held'[e].delta
        BY <1>3, <1>4, <2>2
      <3>3. at'[e] # "undo"
        BY <1>3
      <3> QED BY <3>1, <3>2, <3>3 DEF OwnRow
    <2> QED BY <2>3, <2>4
  <1> QED BY <1>5, <1>6, <1>7, <1>9, <1>11, <1>12 DEF HistoryInv

(* The commit of an undo keeps the history's invariant. *)
LEMMA HistoryUndoCommit == ASSUME HistoryInv, NEW e \in Edits, UndoCommit(e) PROVE HistoryInv'
  <1> DEFINE d == held[e].delta
             k == held[e].newest
  <1>1. /\ at[e] = "undo" /\ e \in Movers /\ at' = [at EXCEPT ![e] = "done"]
        /\ balance' = balance + Magnitude(d)
        /\ owed' = owed + (IF d < 0 THEN d ELSE 0)
        /\ events' = [events EXCEPT ![k] = NoEvent]
        /\ Lands(e) /\ UNCHANGED <<payouts, blocked, serial, held, meant, opening, failures>>
    BY DEF UndoCommit, Undone, Movers
  <1>2. d \in Int /\ held[e].refused /\ balance \in Int
    BY <1>1 DEF HistoryInv, Shaped, Typed, Takings, RefusedWhenLanded
  <1>3. /\ at'[e] = "done" /\ \A m \in Movers \ {e} : at'[m] = at[m]
        /\ at' \in [Movers -> {"new", "edit", "refused", "undo", "update", "settled", "refund", "done"}]
    BY <1>1 DEF HistoryInv, Shaped, Typed
  <1>4. \A i \in Written' : i \in Written /\ events'[i] = events[i]
    BY <1>1 DEF Written, HistoryInv, Shaped, Typed
  <1>5. Shaped'
    <2>1. balance' \in Int /\ owed' \in Int
      <3> HIDE DEF d
      <3> QED BY <1>1, <1>2 DEF Magnitude, HistoryInv, Shaped, Typed
    <2>2. events' \in [EventIds -> Rows \union {NoEvent}]
      BY <1>1 DEF HistoryInv, Shaped, Typed
    <2> QED BY <1>1, <1>3, <1>4, <2>1, <2>2 DEF HistoryInv, Shaped, Typed
  <1>6. RefusedWhenLanded'
    BY <1>1, <1>3 DEF HistoryInv, RefusedWhenLanded, Movers
  <1>7. Targets'
    BY <1>1, <1>3, LedgerAssumption DEF HistoryInv, Targets, Movers
  <1>8. Clean' => /\ Clean /\ \A m \in Movers \ {e} : at[m] \notin {"edit", "update", "refund"}
                  /\ \A f \in Edits \ {e} : ~Awaits(f)
    BY <1>1, LandsAlone, AtUnderWay DEF Movers
  <1>9. ReadsStand'
    BY <1>3, <1>8 DEF ReadsStand
  <1>10. OnlySubtractionsRefused' <=> OnlySubtractionsRefused
    BY <1>1 DEF OnlySubtractionsRefused
  <1>11. \A f \in Edits : Clean' => ~Awaits(f)'
    BY <1>3, <1>8 DEF Awaits, Movers
  <1>12. OnlySubtractionsRefused => d < 0
    BY <1>2 DEF OnlySubtractionsRefused
  <1>13. d < 0 => balance' = balance - d
    <2> HIDE DEF d
    <2> QED BY <1>1, <1>2 DEF Magnitude
  <1>14. Awaits(e)
    BY <1>1 DEF Awaits
  <1>15. BelowForUndo'
    <2> SUFFICES ASSUME Clean', ~Inbound PROVE OnlySubtractionsRefused' /\ balance' >= 0
      BY <1>11 DEF BelowForUndo, Inbound, RegisterKind, Kinds
    <2>1. OnlySubtractionsRefused /\ balance - d >= 0
      BY <1>8, <1>14 DEF HistoryInv, BelowForUndo
    <2> QED BY <2>1, <1>10, <1>12, <1>13
  <1>16. Accounted'
    <2> SUFFICES ASSUME Clean', OnlySubtractionsRefused' PROVE
                     balance' = opening' + Explained(events')
      BY <1>11 DEF Accounted
    <2>1. balance = opening + Explained(events) /\ OwnRow(e)
      BY <1>8, <1>10, <1>14 DEF HistoryInv, Accounted
    <2>2. k = serial /\ k \in EventIds /\ events[k] # NoEvent /\ events[k].delta = d
      BY <1>1, <2>1 DEF OwnRow, Written
    <2>3. events \in [EventIds -> Rows \union {NoEvent}] /\ opening \in Int
      BY DEF HistoryInv, Shaped, Typed
    <2> HIDE DEF k
    <2>4. Explained(events') = Explained(events) + DeltaOf(NoEvent) - DeltaOf(events[k])
      <3>1. NoEvent \in Rows \union {NoEvent}
        OBVIOUS
      <3> QED BY <1>1, <2>2, <2>3, <3>1, ExplainedChanges
    <2>5. DeltaOf(NoEvent) = 0 /\ DeltaOf(events[k]) = d
      BY <2>2 DEF DeltaOf
    <2> DEFINE x == Explained(events)
               y == Explained(events')
    <2>6. x \in Int
      BY <2>3, ExplainedTyped
    <2>7. y = x + 0 - d /\ balance = opening + x /\ balance' = balance - d
      BY <2>1, <2>4, <2>5, <1>10, <1>12, <1>13
    <2> HIDE DEF x, y, d
    <2>8. balance - d = opening + (x + 0 - d)
      BY <1>2, <2>3, <2>6, <2>7
    <2> QED BY <1>1, <2>7, <2>8 DEF y
  <1> QED BY <1>5, <1>6, <1>7, <1>9, <1>15, <1>16 DEF HistoryInv

\* Nothing moves, and the rows say the same.
LEMMA QuietKeeps ==
    ASSUME HistoryInv, Shaped', UNCHANGED <<balance, opening, serial, at, held, crossed, failures>>,
           Written' = Written, \A i \in Written : events'[i].delta = events[i].delta,
           Explained(events') = Explained(events)
    PROVE  HistoryInv'
  <1>1. RefusedWhenLanded' /\ Targets' /\ ReadsStand'
    BY DEF HistoryInv, RefusedWhenLanded, Targets, ReadsStand, Clean
  <1>2. BelowForUndo'
    BY DEF HistoryInv, BelowForUndo, Awaits, OnlySubtractionsRefused, Clean
  <1>3. Accounted'
    BY DEF HistoryInv, Accounted, OwnRow, Awaits, OnlySubtractionsRefused, Clean
  <1> QED BY <1>1, <1>2, <1>3 DEF HistoryInv

(* Opening a payout keeps the history's invariant. *)
LEMMA HistoryOpenPayout ==
    ASSUME HistoryInv,
           (\E p \in Payouts : OpenPayout(p)) \/ SetBlocked \/ UNCHANGED vars
    PROVE  HistoryInv'
  <1>1. UNCHANGED <<balance, opening, serial, at, held, crossed, failures, events, meant, owed>>
    BY DEF OpenPayout, SetBlocked, vars
  <1>2. payouts' \in [Payouts -> {"none", "created", "performed"}]
    <2>1. ASSUME NEW p \in Payouts, OpenPayout(p) PROVE payouts' \in [Payouts -> {"none", "created", "performed"}]
      <3>1. Opened(p) \in {"created", "performed"} /\ payouts' = [payouts EXCEPT ![p] = Opened(p)]
        BY <2>1 DEF OpenPayout, Opened, HistoryInv, Shaped, Typed
      <3> QED BY <3>1 DEF HistoryInv, Shaped, Typed
    <2>2. CASE SetBlocked \/ UNCHANGED vars
      BY <2>2 DEF SetBlocked, vars, HistoryInv, Shaped, Typed
    <2> QED BY <2>1, <2>2
  <1>3. blocked' \in BOOLEAN
    BY DEF OpenPayout, SetBlocked, vars, HistoryInv, Shaped
  <1>4. Shaped'
    BY <1>1, <1>2, <1>3 DEF HistoryInv, Shaped, Typed, Written
  <1>5. Written' = Written
    BY <1>1 DEF Written
  <1> QED BY <1>1, <1>4, <1>5, QuietKeeps

(* Deleting the row of a payout keeps the history's invariant. *)
LEMMA HistoryDeleteTransaction ==
    ASSUME HistoryInv, NEW p \in Payouts, DeleteTransaction(p) PROVE HistoryInv'
  <1> DEFINE gone == {i \in EventIds : events[i] # NoEvent /\ events[i].payout = p}
  <1>1. /\ payouts' = [payouts EXCEPT ![p] = "none"]
        /\ events' = [i \in EventIds |-> IF events[i] # NoEvent /\ events[i].payout = p
                                          THEN [events[i] EXCEPT !.payout = NoPayout] ELSE events[i]]
        /\ UNCHANGED <<balance, blocked, serial, at, held, meant, owed, opening, crossed, failures>>
    BY DEF DeleteTransaction
  <1>2. /\ gone \in SUBSET EventIds
        /\ events' = [i \in EventIds |-> IF i \in gone /\ events[i] # NoEvent
                                         THEN [events[i] EXCEPT !.payout = NoPayout] ELSE events[i]]
    BY <1>1
  <1> HIDE DEF gone
  <1>3. /\ events' \in [EventIds -> Rows \union {NoEvent}]
        /\ Written' = Written /\ \A i \in Written : events'[i].delta = events[i].delta
        /\ \A i \in Written' : i <= serial'
        /\ \A i \in Written' : events'[i].before + events'[i].delta = events'[i].after
        /\ Explained(events') = Explained(events)
    BY <1>1, <1>2, UnnamedRows DEF HistoryInv
  <1>4. Shaped'
    BY <1>1, <1>3 DEF HistoryInv, Shaped, Typed
  <1> QED BY <1>1, <1>3, <1>4, QuietKeeps

\* A statement of someone else lands under nobody: the balance moves, the newest
\* row says by how much, and nothing else changes for the movers.
LEMMA MoveKeeps ==
    ASSUME HistoryInv, Shaped', NEW new \in Int, balance' = new,
           UNCHANGED <<opening, failures>>,
           Clean' => Clean /\ (\A e \in Edits : ~Awaits(e)) /\ (\A e \in Edits : ~Awaits(e)')
                     /\ \A m \in Movers : at'[m] \notin {"edit", "update", "refund"},
           Clean' /\ ~Inbound => new >= 0,
           RefusedWhenLanded', Targets', held' = held,
           Explained(events') = Explained(events) + (new - balance)
    PROVE  HistoryInv'
  <1>1. ReadsStand'
    BY DEF ReadsStand
  <1>2. OnlySubtractionsRefused' <=> OnlySubtractionsRefused
    BY DEF OnlySubtractionsRefused
  <1>3. BelowForUndo'
    BY <1>2 DEF HistoryInv, BelowForUndo, Inbound, RegisterKind, Kinds
  <1>4. Accounted'
    <2> SUFFICES ASSUME Clean', OnlySubtractionsRefused' PROVE
                     balance' = opening' + Explained(events')
      BY DEF Accounted
    <2> DEFINE x == Explained(events)
    <2>1. balance = opening + x
      BY <1>2 DEF HistoryInv, Accounted
    <2>2. x \in Int /\ opening \in Int /\ balance \in Int
      BY ExplainedTyped DEF HistoryInv, Shaped, Typed
    <2> HIDE DEF x
    <2>3. new = opening + (x + (new - balance))
      BY <2>1, <2>2
    <2> QED BY <2>3 DEF x
  <1> QED BY <1>1, <1>3, <1>4 DEF HistoryInv

(* Settling a payout keeps the history's invariant. *)
LEMMA HistorySettlePayout ==
    ASSUME HistoryInv, NEW p \in Payouts, SettlePayout(p) PROVE HistoryInv'
  <1> DEFINE new == Apply(balance, Sum[p])
  <1>0. balance \in Int /\ Sum[p] \in Nat
    BY Amounts DEF HistoryInv, Shaped, Typed
  <1>1. /\ balance' = new /\ Record(new - balance, balance, p)
        /\ payouts' = [payouts EXCEPT ![p] = "performed"]
        /\ crossed' = (crossed \/ \E n \in Movers : UnderWay(n))
        /\ meant' = meant + new - balance
        /\ UNCHANGED <<blocked, at, held, opening, owed, failures>>
    BY DEF SettlePayout
  <1>2. new \in Int /\ (~Inbound => new >= 0)
    <2>1. ~Inbound => Sum[p] <= balance
      BY <1>0 DEF SettlePayout, Refuses
    <2> QED BY <1>0, <2>1 DEF Apply
  <1> HIDE DEF new
  <1> DEFINE delta == new - balance
  <1>3. delta \in Int /\ Record(delta, balance, p) /\ delta = new - balance
    BY <1>0, <1>1, <1>2
  <1> HIDE DEF delta
  <1>4. /\ events' \in [EventIds -> Rows \union {NoEvent}]
        /\ serial' \in Nat /\ serial' <= MaxEvents /\ \A i \in Written' : i <= serial'
        /\ \A i \in Written' : events'[i].before + events'[i].delta = events'[i].after
        /\ Explained(events') = Explained(events) + delta
    BY <1>0, <1>3, RecordRow DEF HistoryInv
  <1>5. Shaped'
    BY <1>0, <1>1, <1>2, <1>4 DEF HistoryInv, Shaped, Typed
  <1>6. Clean' => Clean /\ \A n \in Movers : ~UnderWay(n)
    BY <1>1 DEF Clean
  <1>7. Clean' => Clean /\ (\A e \in Edits : ~Awaits(e)) /\ (\A e \in Edits : ~Awaits(e)')
                  /\ \A m \in Movers : at'[m] \notin {"edit", "update", "refund"}
    BY <1>1, <1>6, AtUnderWay DEF Awaits, Movers
  <1>8. RefusedWhenLanded' /\ Targets'
    BY <1>1 DEF HistoryInv, RefusedWhenLanded, Targets
  <1> QED BY <1>1, <1>2, <1>3, <1>4, <1>5, <1>7, <1>8, MoveKeeps

(* The update of the balance keeps the history's invariant. *)
LEMMA HistoryUpdateBalance ==
    ASSUME HistoryInv, NEW s \in Settlements, UpdateBalance(s) PROVE HistoryInv'
  <1> DEFINE target == held[s].target
             delta == target - balance
  <1>1. /\ s \in Movers /\ at[s] \in {"update", "refund"} /\ balance' = target
        /\ Record(delta, balance, NoPayout)
        /\ meant' = meant + target - held[s].pre
        /\ at' = [at EXCEPT ![s] = IF at[s] = "update" THEN "settled" ELSE "done"]
        /\ Lands(s) /\ UNCHANGED <<blocked, payouts, held, opening, owed, failures>>
    BY DEF UpdateBalance, Movers
  <1>2. /\ target \in Int /\ balance \in Int /\ held[s].pre \in Int /\ delta \in Int
        /\ Sum[s] \in Nat /\ meant \in Int
    <2>1. held[s] \in Takings /\ balance \in Int /\ meant \in Int
      BY <1>1 DEF HistoryInv, Shaped, Typed
    <2>2. target \in Int /\ held[s].pre \in Int
      BY <2>1 DEF Takings
    <2>3. Sum[s] \in Nat
      BY Amounts
    <2> QED BY <2>1, <2>2, <2>3
  <1>3. /\ at'[s] \in {"settled", "done"} /\ \A m \in Movers \ {s} : at'[m] = at[m]
        /\ at' \in [Movers -> {"new", "edit", "refused", "undo", "update", "settled", "refund", "done"}]
    BY <1>1 DEF HistoryInv, Shaped, Typed
  <1>4. delta = target - balance
    OBVIOUS
  <1> HIDE DEF target, delta
  <1>5. /\ events' \in [EventIds -> Rows \union {NoEvent}]
        /\ serial' \in Nat /\ serial' <= MaxEvents /\ \A i \in Written' : i <= serial'
        /\ \A i \in Written' : events'[i].before + events'[i].delta = events'[i].after
        /\ Explained(events') = Explained(events) + delta
    <2>1. NoPayout \in Payouts \union {NoPayout}
      OBVIOUS
    <2> QED BY <1>1, <1>2, <2>1, RecordRow DEF HistoryInv
  <1>6. Shaped'
    BY <1>1, <1>2, <1>3, <1>5 DEF HistoryInv, Shaped, Typed
  <1>7. Clean' => /\ Clean /\ \A n \in Movers \ {s} : ~UnderWay(n)
    BY <1>1, LandsAlone
  <1>8. s \notin Edits
    BY LedgerAssumption
  <1>9. Clean' => Clean /\ (\A e \in Edits : ~Awaits(e)) /\ (\A e \in Edits : ~Awaits(e)')
                  /\ \A m \in Movers : at'[m] \notin {"edit", "update", "refund"}
    <2> SUFFICES ASSUME Clean' PROVE
                     Clean /\ (\A e \in Edits : ~Awaits(e)) /\ (\A e \in Edits : ~Awaits(e)')
                     /\ \A m \in Movers : at'[m] \notin {"edit", "update", "refund"}
      OBVIOUS
    <2>1. Clean /\ \A e \in Edits : ~Awaits(e) /\ e \in Movers \ {s}
      BY <1>7, <1>8, AtUnderWay DEF Movers
    <2>2. \A e \in Edits : ~Awaits(e)'
      BY <1>3, <2>1 DEF Awaits
    <2>3. \A m \in Movers \ {s} : at'[m] \notin {"edit", "update", "refund"}
      BY <1>3, <1>7, AtUnderWay
    <2> QED BY <1>3, <2>1, <2>2, <2>3
  <1>10. Clean' /\ ~Inbound => target >= 0
    <2> SUFFICES ASSUME Clean', ~Inbound PROVE target >= 0
      BY DEF Inbound, RegisterKind, Kinds
    <2>1. balance >= 0
      BY <1>9 DEF HistoryInv, BelowForUndo
    <2>2. held[s].pre = balance
      BY <1>1, <1>9 DEF HistoryInv, ReadsStand
    <2>3. CASE at[s] = "update"
      <3>1. target = Apply(held[s].pre, Sum[s]) /\ Sum[s] <= held[s].pre
        BY <2>3 DEF HistoryInv, Targets, target
      <3> QED BY <1>2, <2>2, <3>1 DEF Apply
    <2>4. CASE at[s] = "refund"
      <3>1. target = Reverse(held[s].pre, Sum[s])
        BY <2>4 DEF HistoryInv, Targets, target
      <3> QED BY <1>2, <2>1, <2>2, <3>1 DEF Reverse
    <2> QED BY <1>1, <2>3, <2>4
  <1>11. RefusedWhenLanded'
    BY <1>1, <1>3, <1>8 DEF HistoryInv, RefusedWhenLanded, Movers
  <1>12. Targets'
    BY <1>1, <1>3 DEF HistoryInv, Targets, Movers
  <1> QED BY <1>1, <1>2, <1>4, <1>5, <1>6, <1>9, <1>10, <1>11, <1>12, MoveKeeps

(* Emptying the books keeps the history's invariant. *)
LEMMA HistoryReset == ASSUME HistoryInv, ResetSandbox PROVE HistoryInv'
  <1>1. /\ balance' = 0 /\ blocked' = FALSE /\ meant' = owed
        /\ UNCHANGED <<serial, at, held, owed, failures>>
        /\ payouts' = [p \in Payouts |-> "none"]
        /\ events' = [i \in EventIds |-> IF events[i] = NoEvent THEN NoEvent
                                          ELSE [events[i] EXCEPT !.payout = NoPayout]]
        /\ opening' = 0 - Explained(events)
        /\ crossed' = (crossed \/ \E n \in Movers : UnderWay(n))
    BY DEF ResetSandbox
  <1> DEFINE gone == EventIds
  <1>2. /\ gone \in SUBSET EventIds
        /\ events' = [i \in EventIds |-> IF i \in gone /\ events[i] # NoEvent
                                         THEN [events[i] EXCEPT !.payout = NoPayout] ELSE events[i]]
    BY <1>1
  <1> HIDE DEF gone
  <1>3. /\ events' \in [EventIds -> Rows \union {NoEvent}]
        /\ Written' = Written /\ \A i \in Written : events'[i].delta = events[i].delta
        /\ \A i \in Written' : i <= serial'
        /\ \A i \in Written' : events'[i].before + events'[i].delta = events'[i].after
        /\ Explained(events') = Explained(events)
    <2>1. Shaped
      BY DEF HistoryInv
    <2>2. serial' = serial
      BY <1>1
    <2> QED BY <1>2, <2>1, <2>2, UnnamedRows
  <1>4. Explained(events) \in Int
    <2>1. events \in [EventIds -> Rows \union {NoEvent}]
      BY DEF HistoryInv, Shaped, Typed
    <2> QED BY <2>1, ExplainedTyped
  <1>5. Shaped'
    <2>1. Typed'
      BY <1>1, <1>3 DEF HistoryInv, Shaped, Typed
    <2>0. blocked' \in BOOLEAN
      BY <1>1, Zenon
    <2>2. opening' \in Int /\ failures' \in Nat /\ serial' <= MaxEvents
      BY <1>1, <1>4 DEF HistoryInv, Shaped
    <2>3. /\ \A i \in Written' : i <= serial'
          /\ \A i \in Written' : events'[i].before + events'[i].delta = events'[i].after
      BY <1>3
    <2> QED BY <2>0, <2>1, <2>2, <2>3 DEF Shaped
  <1>6. RefusedWhenLanded' /\ Targets'
    BY <1>1 DEF HistoryInv, RefusedWhenLanded, Targets
  <1>7. Clean' => Clean /\ \A n \in Movers : ~UnderWay(n)
    BY <1>1 DEF Clean
  <1>8. Clean' => /\ \A e \in Edits : ~Awaits(e)'
                  /\ \A m \in Movers : at'[m] \notin {"edit", "update", "refund"}
    BY <1>1, <1>7, AtUnderWay DEF Awaits, Movers
  <1>9. ReadsStand'
    BY <1>8 DEF ReadsStand
  <1>10. BelowForUndo'
    BY <1>1, <1>7, <1>8 DEF HistoryInv, BelowForUndo, OnlySubtractionsRefused, Inbound,
                            RegisterKind, Kinds
  <1>11. Accounted'
    <2>1. balance' = opening' + Explained(events')
      BY <1>1, <1>3, <1>4
    <2> QED BY <1>8, <2>1 DEF Accounted
  <1> QED BY <1>5, <1>6, <1>9, <1>10, <1>11 DEF HistoryInv

(* A step that fails keeps the history's invariant. *)
LEMMA HistoryFail == ASSUME HistoryInv, NEW m \in Movers, Fail(m) PROVE HistoryInv'
  <1>1. /\ at' = [at EXCEPT ![m] = "done"] /\ failures' = failures + 1
        /\ UNCHANGED <<balance, blocked, payouts, events, serial, held, meant, opening, owed>>
    BY DEF Fail
  <1>2. ~Clean'
    BY <1>1 DEF Clean, HistoryInv, Shaped
  <1>3. Shaped'
    BY <1>1 DEF HistoryInv, Shaped, Typed, Written
  <1>4. RefusedWhenLanded' /\ Targets'
    BY <1>1 DEF HistoryInv, Shaped, Typed, RefusedWhenLanded, Targets, Movers
  <1>5. ReadsStand' /\ BelowForUndo' /\ Accounted'
    BY <1>2 DEF ReadsStand, BelowForUndo, Accounted
  <1> QED BY <1>3, <1>4, <1>5 DEF HistoryInv

(* The history's invariant holds in every initial state. *)
LEMMA HistoryInit == Init => HistoryInv
  <1> SUFFICES ASSUME Init PROVE HistoryInv
    OBVIOUS
  <1>1. Inv
    BY InvInit
  <1>2. /\ InitialBalance \in Nat /\ MaxEvents \in Nat /\ balance = InitialBalance
        /\ opening = InitialBalance /\ serial = 0 /\ failures = 0 /\ blocked = FALSE
        /\ events = [i \in EventIds |-> NoEvent]
        /\ at = [m \in Movers |-> "new"] /\ held = [m \in Movers |-> Nothing]
    BY LedgerAssumption DEF Init
  <1>3. Written = {}
    BY <1>2 DEF Written
  <1>4. Shaped
    <2>1. Typed
      BY <1>1 DEF Inv
    <2>0. blocked \in BOOLEAN
      BY <1>2, Zenon
    <2>2. opening \in Int /\ failures \in Nat /\ serial <= MaxEvents
      BY <1>2
    <2> QED BY <1>3, <2>0, <2>1, <2>2 DEF Shaped
  <1>5. RefusedWhenLanded /\ Targets /\ ReadsStand
    BY <1>1, <1>2 DEF Inv, Targets, ReadsStand, Movers
  <1>6. \A e \in Edits : ~Awaits(e) /\ ~held[e].refused
    BY <1>2 DEF Awaits, Nothing, Movers
  <1>7. Explained(events) = 0
    <2> DEFINE f == [i \in EventIds |-> DeltaOf(events[i])]
    <2>1. f \in [EventIds -> Int] /\ \A i \in EventIds : f[i] = 0
      BY <1>2 DEF DeltaOf
    <2> HIDE DEF f
    <2>2. SumFunction(f) = 0
      BY <2>1, IdsFinite, SumOfZeros
    <2> QED BY <2>2 DEF Explained, f
  <1>8. BelowForUndo /\ Accounted
    BY <1>2, <1>6, <1>7 DEF BelowForUndo, Accounted, OnlySubtractionsRefused
  <1> QED BY <1>4, <1>5, <1>8 DEF HistoryInv

(* Every step keeps the history's invariant. *)
LEMMA HistoryNext == HistoryInv /\ [Next]_vars => HistoryInv'
  <1> SUFFICES ASSUME HistoryInv, [Next]_vars PROVE HistoryInv'
    OBVIOUS
  <1>1. ASSUME NEW s \in Settlements, Settle(s) \/ Unsettle(s) \/ UpdateBalance(s) PROVE HistoryInv'
    BY <1>1, HistorySettle, HistoryUpdateBalance
  <1>2. ASSUME NEW e \in Edits, EditBegin(e) \/ EditCommit(e) \/ UndoBegin(e) \/ UndoCommit(e)
        PROVE  HistoryInv'
    BY <1>2, HistoryEditBegin, HistoryEditCommit, HistoryUndoBegin, HistoryUndoCommit
  <1>3. ASSUME NEW p \in Payouts, OpenPayout(p) \/ SettlePayout(p) \/ DeleteTransaction(p)
        PROVE  HistoryInv'
    BY <1>3, HistoryOpenPayout, HistorySettlePayout, HistoryDeleteTransaction
  <1>4. ASSUME NEW m \in Movers, Fail(m) PROVE HistoryInv'
    BY <1>4, HistoryFail
  <1>5. CASE ResetSandbox
    BY <1>5, HistoryReset
  <1>6. CASE SetBlocked \/ UNCHANGED vars
    BY <1>6, HistoryOpenPayout
  <1> QED BY <1>1, <1>2, <1>3, <1>4, <1>5, <1>6 DEF Next

(* Values stay in range and every row adds up, in every schedule.                  *)
THEOREM TypeCorrect == Spec => []TypeOK
  <1>1. HistoryInv => TypeOK
    <2> SUFFICES ASSUME HistoryInv PROVE TypeOK
      OBVIOUS
    <2>1. Typed /\ Shaped
      BY DEF HistoryInv, Shaped
    <2>2. \A i \in EventIds : events[i] # NoEvent =>
             /\ events[i].payout \in Payouts \union {NoPayout}
             /\ events[i].before + events[i].delta = events[i].after
      BY <2>1 DEF Typed, Shaped, Rows, Written
    <2>3. serial \in 0..MaxEvents
      BY <2>1, LedgerAssumption DEF Typed, Shaped
    <2> QED BY <2>1, <2>2, <2>3 DEF TypeOK, Typed, Shaped
  <1> QED BY <1>1, HistoryInit, HistoryNext, PTL DEF Spec

(* As long as no refused edit was an addition, the history explains the balance       *)
(* whenever the movers have taken turns, on a register of either direction            *)
(* (ledger.go:149, views.go:420).                                               *)
THEOREM HistoryExplainsUnlessAdded ==
    Spec => [](OnlySubtractionsRefused => HistoryExplains)
  <1>1. HistoryInv => (OnlySubtractionsRefused => HistoryExplains)
    BY DEF HistoryInv, Accounted, Clean, HistoryExplains
  <1> QED BY <1>1, HistoryInit, HistoryNext, PTL DEF Spec

(* On a register that pays out a refused edit is always a subtraction, and the         *)
(* history explains the balance whenever the movers have taken turns (ledger.go:149).   *)
THEOREM HistoryExplainsSafety == ASSUME ~Inbound PROVE Spec => []HistoryExplains
  <1>1. HistoryInv => HistoryExplains
    BY DEF HistoryInv, BelowForUndo, Accounted, Clean, HistoryExplains
  <1> QED BY <1>1, HistoryInit, HistoryNext, PTL DEF Spec

-----------------------------------------------------------------------------
(* While no settlement is interrupted: what refused edits under way still owe the     *)
(* register is covered by owed, and owed covers what is missing.                    *)
Pending(e) == IF Awaits(e) /\ held[e].delta < 0 THEN -held[e].delta ELSE 0

Pendings == [e \in Edits |-> Pending(e)]

OwedCovers == SumFunction(Pendings) <= owed /\ (~Inbound => balance + owed >= 0)

\* What is pending is a natural number, of each edit and of all.
LEMMA PendingTyped ==
    ASSUME IsFiniteSet(Edits), Typed
    PROVE  /\ Pendings \in [Edits -> Nat] /\ SumFunction(Pendings) \in Nat
           /\ \A e \in Edits : Pending(e) <= SumFunction(Pendings)
  <1>1. ASSUME NEW e \in Edits PROVE Pending(e) \in Nat
    <2>1. held[e] \in Takings
      BY DEF Typed, Movers
    <2>2. held[e].delta \in Int
      BY <2>1 DEF Takings
    <2> QED BY <2>2 DEF Pending
  <1>2. Pendings \in [Edits -> Nat] /\ \A e \in Edits : Pendings[e] = Pending(e)
    BY <1>1 DEF Pendings
  <1> QED BY <1>2, SumCovers

\* Where only one edit's pending amount changes, the sum changes by as much.
LEMMA OnePending ==
    ASSUME IsFiniteSet(Edits), Typed, NEW e \in Edits, Pending(e)' \in Int,
           \A f \in Edits \ {e} : Pending(f)' = Pending(f)
    PROVE  SumFunction(Pendings)' = SumFunction(Pendings) + Pending(e)' - Pending(e)
  <1> DEFINE p == Pendings
             q == Pendings'
  <1>2. /\ q = [f \in Edits |-> Pending(f)']
        /\ \A f \in Edits : p[f] = Pending(f) /\ q[f] = Pending(f)'
    BY DEF Pendings
  <1>0. p \in [Edits -> Int] /\ \A f \in Edits : p[f] \in Int
    BY PendingTyped
  <1>1. p \in [Edits -> Int] /\ q \in [Edits -> Int]
    <2>1. \A f \in Edits : q[f] \in Int
      BY <1>0, <1>2
    <2> HIDE DEF p
    <2> QED BY <1>0, <1>2, <2>1
  <1>3. \A f \in Edits : f # e => q[f] = p[f]
    BY <1>2
  <1> HIDE DEF p, q
  <1>4. SumFunction(q) = SumFunction(p) + q[e] - p[e]
    BY <1>1, <1>3, SumChanges
  <1> QED BY <1>2, <1>4 DEF p, q

\* Where no edit's pending amount changes, only the balance has to be looked at.
LEMMA SamePending ==
    ASSUME OwedCovers, owed' = owed, \A e \in Edits : Pending(e)' = Pending(e),
           ~Inbound => balance' + owed' >= 0
    PROVE  OwedCovers'
  <1>1. Pendings' = Pendings
    BY DEF Pendings
  <1> QED BY <1>1 DEF OwedCovers, Inbound, RegisterKind, Kinds

(* A step that only reads the books keeps what is owed covered. *)
LEMMA OwedReads ==
    ASSUME Inv, OwedCovers,
           \/ \E e \in Edits : EditBegin(e) \/ UndoBegin(e)
           \/ \E s \in Settlements : Settle(s) \/ Unsettle(s)
    PROVE  OwedCovers'
  <1>1. UNCHANGED <<balance, owed>>
    <2>1. Reads
      BY Zenon DEF EditBegin, UndoBegin, Settle, Unsettle, Reading
    <2> QED BY <2>1 DEF Reads
  <1>2. \A f \in Edits : Pending(f)' = Pending(f)
    <2>0. held \in [Movers -> Takings] /\ at \in [Movers -> {"new", "edit", "refused", "undo",
                                        "update", "settled", "refund", "done"}]
      BY DEF Inv, Typed
    <2>1. ASSUME NEW e \in Edits, EditBegin(e), NEW f \in Edits PROVE Pending(f)' = Pending(f)
      <3>0. PICK d \in Deltas :
               held' = [held EXCEPT ![e] = [Nothing EXCEPT !.delta = d, !.pre = balance]]
        BY <2>1, Zenon DEF EditBegin
      <3> DEFINE h == [Nothing EXCEPT !.delta = d, !.pre = balance]
      <3>1. held' = [held EXCEPT ![e] = h]
        BY <3>0
      <3> HIDE DEF h
      <3>2. at[e] = "new" /\ at' = [at EXCEPT ![e] = "edit"] /\ e \in Movers /\ f \in Movers
        BY <2>1 DEF EditBegin, Movers
      <3> QED BY <2>0, <3>1, <3>2 DEF Pending, Awaits
    <2>2. ASSUME NEW e \in Edits, UndoBegin(e), NEW f \in Edits PROVE Pending(f)' = Pending(f)
      <3>1. /\ at[e] = "refused" /\ at' = [at EXCEPT ![e] = "undo"] /\ e \in Movers /\ f \in Movers
            /\ held' = [held EXCEPT ![e].newest = Newest]
        BY <2>2 DEF UndoBegin, Movers
      <3>2. held'[f].delta = held[f].delta /\ (Awaits(f)' <=> Awaits(f))
        <4> HIDE DEF Newest
        <4> QED BY <2>0, <3>1 DEF Awaits, Takings
      <3> QED BY <3>2 DEF Pending
    <2>3. ASSUME NEW s \in Settlements, Settle(s) \/ Unsettle(s), NEW f \in Edits
          PROVE  Pending(f)' = Pending(f)
      <3>1. f \in Movers /\ s \in Movers /\ f # s
        BY LedgerAssumption DEF Movers
      <3>2. held'[f] = held[f] /\ at'[f] = at[f]
        BY <2>0, <2>3, <3>1 DEF Settle, Unsettle, Reading
      <3> QED BY <3>2 DEF Pending, Awaits
    <2> QED BY <2>1, <2>2, <2>3
  <1>3. ~Inbound => balance' + owed' >= 0
    BY <1>1 DEF OwedCovers
  <1> QED BY <1>1, <1>2, <1>3, SamePending

(* A step of a payout, or one that leaves the movers alone, keeps what is owed covered. *)
LEMMA OwedPayouts ==
    ASSUME Inv, IsFiniteSet(Edits), OwedCovers,
           \/ \E p \in Payouts : OpenPayout(p) \/ SettlePayout(p) \/ DeleteTransaction(p)
           \/ ResetSandbox \/ SetBlocked \/ UNCHANGED vars
    PROVE  OwedCovers'
  <1>1. UNCHANGED <<at, held, owed>>
    BY DEF OpenPayout, SettlePayout, DeleteTransaction, ResetSandbox, SetBlocked, vars
  <1>2. \A f \in Edits : Pending(f)' = Pending(f)
    BY <1>1 DEF Pending, Awaits
  <1>3. owed \in Int /\ balance \in Int /\ owed >= 0
    <2>1. owed \in Int /\ balance \in Int
      BY DEF Inv, Typed
    <2>2. SumFunction(Pendings) \in Nat /\ SumFunction(Pendings) <= owed
      BY PendingTyped DEF Inv, OwedCovers
    <2> QED BY <2>1, <2>2
  <1>4. ~Inbound => balance' + owed' >= 0
    <2>1. ASSUME NEW p \in Payouts, SettlePayout(p), ~Inbound PROVE balance' + owed' >= 0
      <3>0. Sum[p] \in Nat
        BY Amounts
      <3>1. balance' = Apply(balance, Sum[p]) /\ ~Refuses(blocked, balance, Sum[p])
        BY <2>1 DEF SettlePayout
      <3>2. Sum[p] <= balance /\ balance' = balance - Sum[p]
        BY <1>3, <2>1, <3>0, <3>1 DEF Refuses, Apply
      <3> QED BY <1>1, <1>3, <3>0, <3>2
    <2>2. ASSUME ResetSandbox PROVE balance' + owed' >= 0
      BY <1>1, <1>3, <2>2 DEF ResetSandbox
    <2>3. ASSUME \/ \E p \in Payouts : OpenPayout(p) \/ DeleteTransaction(p)
                 \/ SetBlocked \/ UNCHANGED vars
          PROVE  balance' = balance
      BY <2>3 DEF OpenPayout, DeleteTransaction, SetBlocked, vars
    <2> QED BY <1>1, <2>1, <2>2, <2>3 DEF OwedCovers
  <1> QED BY <1>1, <1>2, <1>4, SamePending

(* The update of the balance keeps what is owed covered. *)
LEMMA OwedUpdate ==
    ASSUME Inv, Targets, IsFiniteSet(Edits), OwedCovers, NEW s \in Settlements, UpdateBalance(s)
    PROVE  OwedCovers'
  <1> DEFINE target == held[s].target
             pre == held[s].pre
  <1>1. /\ s \in Movers /\ at[s] \in {"update", "refund"} /\ balance' = target
        /\ at' = [at EXCEPT ![s] = IF at[s] = "update" THEN "settled" ELSE "done"]
        /\ UNCHANGED <<held, owed>>
    BY DEF UpdateBalance, Movers
  <1>2. \A f \in Edits : Pending(f)' = Pending(f)
    <2>1. \A f \in Edits : f # s /\ f \in Movers
      BY LedgerAssumption DEF Movers
    <2> QED BY <1>1, <2>1 DEF Pending, Awaits, Inv, Typed
  <1>3. owed \in Int /\ balance \in Int /\ owed >= 0
    <2>1. owed \in Int /\ balance \in Int
      BY DEF Inv, Typed
    <2>2. SumFunction(Pendings) \in Nat /\ SumFunction(Pendings) <= owed
      BY PendingTyped DEF Inv, OwedCovers
    <2> QED BY <2>1, <2>2
  <1>4. pre = balance /\ Sum[s] \in Nat
    BY <1>1, Amounts DEF UnderWay, Inv, Undisturbed
  <1>5. ~Inbound => balance' + owed' >= 0
    <2> SUFFICES ASSUME ~Inbound PROVE target + owed >= 0
      BY <1>1
    <2>1. CASE at[s] = "update"
      <3>1. target = Apply(pre, Sum[s]) /\ Sum[s] <= pre
        BY <2>1 DEF Targets
      <3> HIDE DEF target, pre
      <3> QED BY <1>3, <1>4, <3>1 DEF Apply
    <2>2. CASE at[s] = "refund"
      <3>1. target = Reverse(pre, Sum[s]) /\ balance + owed >= 0
        BY <2>2 DEF Targets, OwedCovers
      <3> HIDE DEF target, pre
      <3> QED BY <1>3, <1>4, <3>1 DEF Reverse
    <2> QED BY <1>1, <2>1, <2>2
  <1> QED BY <1>1, <1>2, <1>5, SamePending

(* A step of an edit keeps what is owed covered. *)
LEMMA OwedEdit ==
    ASSUME Inv, Inv', IsFiniteSet(Edits), OwedCovers, NEW e \in Edits, EditCommit(e)
    PROVE  OwedCovers'
  <1> DEFINE d == held[e].delta
             new == balance + d
  <1>1. /\ at[e] = "edit" /\ e \in Movers /\ balance' = new
        /\ at' = [at EXCEPT ![e] = IF new < 0 THEN "refused" ELSE "done"]
        /\ owed' = owed + (IF new < 0 /\ d < 0 THEN -d ELSE 0)
    BY DEF EditCommit, Edited, Movers
  <1>2. /\ held'[e].delta = d /\ \A m \in Movers \ {e} : held'[m] = held[m]
        /\ d \in Int /\ balance \in Int /\ owed \in Int
    <2>1. held' = [held EXCEPT ![e].refused = new < 0]
      BY DEF EditCommit, Edited
    <2>2. held \in [Movers -> Takings] /\ held[e] \in Takings /\ balance \in Int /\ owed \in Int
      BY <1>1 DEF Inv, Typed
    <2>3. \A m \in Movers \ {e} : held'[m] = held[m]
      BY <2>1, <2>2
    <2>4. held'[e] = [held[e] EXCEPT !.refused = new < 0]
      BY <1>1, <2>1, <2>2
    <2>5. held'[e].delta = held[e].delta /\ d \in Int
      BY <2>2, <2>4 DEF Takings
    <2> QED BY <2>2, <2>3, <2>5
  <1>3. \A f \in Edits \ {e} : Pending(f)' = Pending(f)
    <2>1. \A f \in Edits \ {e} : f \in Movers \ {e} /\ at'[f] = at[f]
      BY <1>1 DEF Movers, Inv, Typed
    <2> QED BY <1>2, <2>1 DEF Pending, Awaits
  <1>4. Pending(e) = 0
    BY <1>1 DEF Pending, Awaits
  <1>5. Pending(e)' = IF new < 0 /\ d < 0 THEN -d ELSE 0
    <2>1. at'[e] = IF new < 0 THEN "refused" ELSE "done"
      BY <1>1 DEF Inv, Typed
    <2>2. Awaits(e)' <=> new < 0
      BY <2>1 DEF Awaits
    <2> QED BY <1>2, <2>2 DEF Pending
  <1> DEFINE x == SumFunction(Pendings)
  <1>6. SumFunction(Pendings)' = x + (IF new < 0 /\ d < 0 THEN -d ELSE 0) - 0
    <2>1. (IF new < 0 /\ d < 0 THEN -d ELSE 0) \in Int
      BY <1>2
    <2> QED BY <1>3, <1>4, <1>5, <2>1, OnePending DEF Inv
  <1>7. x \in Nat /\ x <= owed /\ (~Inbound => balance + owed >= 0)
    BY PendingTyped DEF Inv, OwedCovers
  <1>8. new = balance + d
    OBVIOUS
  <1> HIDE DEF x, d, new
  <1>9. SumFunction(Pendings)' <= owed'
    BY <1>1, <1>2, <1>6, <1>7
  <1>10. ~Inbound => balance' + owed' >= 0
    BY <1>1, <1>2, <1>7, <1>8
  <1> QED BY <1>9, <1>10 DEF OwedCovers, Inbound, RegisterKind, Kinds

(* A step of an undo keeps what is owed covered. *)
LEMMA OwedUndo ==
    ASSUME Inv, Inv', IsFiniteSet(Edits), OwedCovers, NEW e \in Edits, UndoCommit(e)
    PROVE  OwedCovers'
  <1> DEFINE d == held[e].delta
  <1>1. /\ at[e] = "undo" /\ e \in Movers /\ at' = [at EXCEPT ![e] = "done"]
        /\ balance' = balance + Magnitude(d) /\ held' = held
        /\ owed' = owed + (IF d < 0 THEN d ELSE 0)
    BY DEF UndoCommit, Undone, Movers
  <1>2. d \in Int /\ balance \in Int /\ owed \in Int
    <2>1. held[e] \in Takings /\ balance \in Int /\ owed \in Int
      BY <1>1 DEF Inv, Typed
    <2> QED BY <2>1 DEF Takings
  <1>3. /\ \A f \in Edits \ {e} : Pending(f)' = Pending(f)
        /\ Pending(e)' = 0 /\ Pending(e) = IF d < 0 THEN -d ELSE 0
    BY <1>1 DEF Pending, Awaits, Movers, Inv, Typed
  <1> DEFINE x == SumFunction(Pendings)
  <1>4. SumFunction(Pendings)' = x + 0 - (IF d < 0 THEN -d ELSE 0)
    BY <1>3, OnePending DEF Inv
  <1>5. x \in Nat /\ x <= owed /\ (~Inbound => balance + owed >= 0)
    BY PendingTyped DEF Inv, OwedCovers
  <1> HIDE DEF x, d
  <1>6. SumFunction(Pendings)' <= owed'
    BY <1>1, <1>2, <1>4, <1>5
  <1>7. ~Inbound => balance' + owed' >= 0
    BY <1>1, <1>2, <1>5 DEF Magnitude
  <1> QED BY <1>6, <1>7 DEF OwedCovers, Inbound, RegisterKind, Kinds

(* A step that fails keeps what is owed covered. *)
LEMMA OwedFail ==
    ASSUME Inv, Inv', IsFiniteSet(Edits), OwedCovers, NEW m \in Movers, Fail(m)
    PROVE  OwedCovers'
  <1>1. at' = [at EXCEPT ![m] = "done"] /\ UNCHANGED <<balance, held, owed>>
    BY DEF Fail
  <1>2. \A f \in Edits : f # m => Pending(f)' = Pending(f)
    BY <1>1 DEF Pending, Awaits, Movers, Inv, Typed
  <1>3. ~Inbound => balance' + owed' >= 0
    BY <1>1 DEF OwedCovers
  <1>4. CASE m \notin Edits
    BY <1>1, <1>2, <1>3, <1>4, SamePending
  <1>5. CASE m \in Edits
    <2>1. Pending(m)' = 0
      BY <1>1, <1>5 DEF Pending, Awaits, Inv, Typed
    <2>2. SumFunction(Pendings)' = SumFunction(Pendings) + 0 - Pending(m)
      BY <1>2, <1>5, <2>1, OnePending DEF Inv
    <2>3. SumFunction(Pendings) \in Nat /\ Pending(m) \in Nat
      BY <1>5, PendingTyped DEF Inv, Pendings
    <2>4. SumFunction(Pendings)' <= owed'
      BY <1>1, <2>2, <2>3 DEF OwedCovers, Inv, Typed
    <2> QED BY <1>3, <2>4 DEF OwedCovers, Inbound, RegisterKind, Kinds
  <1> QED BY <1>4, <1>5

(* Every step keeps what is owed covered. *)
LEMMA OwedNext ==
    ASSUME Overlap = "apart", IsFiniteSet(Edits), Inv, Inv', HistoryInv, OwedCovers, [Next]_vars
    PROVE  OwedCovers'
  <1>0. Targets
    BY DEF HistoryInv
  <1>1. ASSUME NEW s \in Settlements, Settle(s) \/ Unsettle(s) \/ UpdateBalance(s) PROVE OwedCovers'
    BY <1>0, <1>1, OwedReads, OwedUpdate
  <1>2. ASSUME NEW e \in Edits, EditBegin(e) \/ EditCommit(e) \/ UndoBegin(e) \/ UndoCommit(e)
        PROVE  OwedCovers'
    BY <1>2, OwedReads, OwedEdit, OwedUndo
  <1>3. ASSUME \/ \E p \in Payouts : OpenPayout(p) \/ SettlePayout(p) \/ DeleteTransaction(p)
               \/ ResetSandbox \/ SetBlocked \/ UNCHANGED vars
        PROVE  OwedCovers'
    BY <1>3, OwedPayouts
  <1>4. ASSUME NEW m \in Movers, Fail(m) PROVE OwedCovers'
    BY <1>4, OwedFail
  <1> QED BY <1>1, <1>2, <1>3, <1>4 DEF Next

(* A register that pays out is below nothing only by what refused edits have yet to   *)
(* give back, however many of them are under way and whichever of them never do        *)
(* (views.go:372, cashbox.go:77), as long as a settlement is not interrupted.         *)
THEOREM NegativeOnlyByUndoSafety ==
    ASSUME Overlap = "apart", IsFiniteSet(Edits) PROVE Spec => []NegativeOnlyByUndo
  <1> DEFINE Whole == Inv /\ HistoryInv /\ OwedCovers
  <1>1. Init => Whole
    <2> SUFFICES ASSUME Init PROVE OwedCovers
      BY InvInit, HistoryInit
    <2>1. \A e \in Edits : ~Awaits(e)
      BY DEF Init, Awaits, Movers
    <2>2. Pendings \in [Edits -> Int] /\ \A e \in Edits : Pendings[e] = 0
      BY <2>1 DEF Pendings, Pending
    <2>3. SumFunction(Pendings) = 0
      BY <2>2, SumOfZeros
    <2> QED BY <2>3, LedgerAssumption DEF Init, OwedCovers
  <1>2. Whole /\ [Next]_vars => Whole'
    <2> SUFFICES ASSUME Whole, [Next]_vars PROVE Whole'
      OBVIOUS
    <2>1. Inv'
      BY InvNext
    <2>2. HistoryInv'
      BY HistoryNext
    <2> QED BY <2>1, <2>2, OwedNext
  <1>3. Whole => NegativeOnlyByUndo
    BY DEF OwedCovers, NegativeOnlyByUndo
  <1> HIDE DEF Whole
  <1> QED BY <1>1, <1>2, <1>3, PTL DEF Spec
=============================================================================
