------------------------ MODULE ReceiptService_proofs ------------------------
(* Theorems about the receipts and payouts of the Subscribe API.               *)
EXTENDS ReceiptService, TLAPS

USE DEF Absent, StateCreated, StateChecking, StateWithdrawn, StateClosing, StatePaid,
        StateHeld, StateCancelQueued, StateCancelled

-----------------------------------------------------------------------------
(* The inductive invariant, for every schedule.                                *)

Performed == {t \in Txns : books[t] = "performed"}

\* A receipt once out of "created" never comes back to it.
Left(row) == row.state \notin {Absent, StateCreated}
Gone      == {r \in Receipts : Left(receipts[r])}

\* What a row that has left "created" knows.
Reached(row, performed) ==
    /\ Left(row)
    /\ row.state = StatePaid => ~row.hold
    /\ row.state \in Begun \cup {StateCancelQueued} => row.txn \in performed

\* A payout has its card and its payment from the start.
PayoutNamed(r, row) ==
    r \in Payouts /\ row.state # Absent =>
        /\ row.card \in Cards /\ row.txn \in Txns
        /\ row.state = StateCreated => ~row.hold

RowReached(r) ==
    /\ RowWellFormed(receipts[r]) /\ PayoutNamed(r, receipts[r])
    /\ Left(receipts[r]) => Reached(receipts[r], Performed)
    /\ pending[r] > 0 => r \in Gone

\* What each operation leaves its receipt in.
Writes(call) ==
    \/ call.op \in {"Pay", "Advance"}
    \/ call.op \in {"Complete", "Confirm"} /\ call.row.state = StatePaid
    \/ call.op = "Cancel" /\ call.row.state \in {StateCancelQueued, StateCancelled}

\* What a call carries towards the rows it is going to write.
CallReached(call, at, performed, gone) ==
    /\ call.purse.balance >= 0
    /\ PayoutNamed(call.id, call.row)
    /\ at \in {"create", "perform", "settle"} => call.row.charged /\ call.row.card \in Cards
    /\ at \in {"create", "perform"} => call.row.state = StateChecking
    /\ at = "settle" => call.row.state = StatePaid /\ ~call.row.hold
    /\ at = "payee" => call.id \in Payouts /\ call.row.state # Absent
    /\ at = "refund" => Refunds(call.row)
    /\ at = "update" => call.op = "Remove" \/ (Reached(call.row, performed) /\ Writes(call))
    /\ at \in {"refund", "store", "schedule"} => Reached(call.row, performed) /\ Writes(call)
    /\ at \in {"update", "store"} /\ call.op \in {"Pay", "Complete"} => call.row.txn \in Txns
    /\ at = "schedule" => call.id \in gone

CallsKept ==
    /\ pc \in [Calls -> Statements] /\ loc \in [Calls -> Call]
    /\ \A c \in Calls : /\ CallWellFormed(loc[c], pc[c])
                        /\ CallReached(loc[c], pc[c], Performed, Gone)

RowsKept == \A r \in Receipts : RowReached(r)

\* Usable is asked of the very card row the charge is taken from.
NoDebt == \A k \in Cards : cards[k].balance >= 0

Inv ==
    /\ TablesTyped /\ GhostsTyped /\ pending \in [Receipts -> Nat]
    /\ NoDebt /\ RowsKept /\ CallsKept

-----------------------------------------------------------------------------
LEMMA InvMeans ==
    Inv => Typed /\ BegunWasPerformed
  <1> SUFFICES ASSUME Inv PROVE Typed /\ BegunWasPerformed
    OBVIOUS
  <1>1. Typed
    BY DEF Inv, Typed, CallsTyped, CallsKept, RowsKept, RowReached
  <1>2. BegunWasPerformed
    BY DEF Inv, RowsKept, RowReached, Reached, Left, BegunWasPerformed, Begun, Performed
  <1> QED BY <1>1, <1>2

(* The rows the operations make.                                              *)
LEMMA NothingTyped ==
    /\ NoReceipt \in ReceiptRow /\ NoCall \in Call /\ NoPurse \in CardRow
    /\ NoReceipt.state = Absent /\ NoCall.row = NoReceipt /\ NoCall.purse = NoPurse
    /\ NoCall.op = "none" /\ NoCall.id = NoReceiptId /\ NoPurse.balance = 0
  BY DEF NoReceipt, ReceiptRow, ReceiptState, NoCall, Call, NoPurse, CardRow

LEMMA BegunTyped ==
    ASSUME NEW row \in ReceiptRow, NEW k \in Cards, NEW hold \in BOOLEAN
    PROVE  BeginPay(row, k, hold) \in ReceiptRow
  BY DEF BeginPay, ReceiptRow, ReceiptState

LEMMA PayoutTyped ==
    ASSUME NEW k \in Cards, NEW t \in Txns
    PROVE  NewPayout(k, t) \in ReceiptRow
  BY DEF NewPayout, NoReceipt, ReceiptRow, ReceiptState

LEMMA StoredTyped ==
    ASSUME NEW row \in ReceiptRow
    PROVE  /\ Completed(row) \in ReceiptRow /\ HoldConfirmed(row) \in ReceiptRow
           /\ Cancelled(row) \in ReceiptRow
  BY DEF Completed, HoldConfirmed, Cancelled, ReceiptRow, ReceiptState

LEMMA AdvancedTyped ==
    ASSUME NEW row \in ReceiptRow, CanAdvance(row)
    PROVE  /\ Advanced(row) \in ReceiptRow
           /\ Advanced(row).card = row.card /\ Advanced(row).txn = row.txn
           /\ Advanced(row).hold = row.hold /\ Advanced(row).charged = row.charged
           /\ Advanced(row).state =
                IF row.state = StateCancelQueued THEN StateCancelled
                ELSE IF row.state = StateCreated THEN StateChecking
                ELSE IF row.state = StateChecking THEN StateWithdrawn
                ELSE IF row.state = StateWithdrawn THEN StateClosing
                ELSE IF row.hold THEN StateHeld ELSE StatePaid
  <1>1. row.state \in {StateCreated, StateChecking, StateWithdrawn, StateClosing,
                       StateCancelQueued}
    BY DEF CanAdvance, Progression
  <1>2. CASE row.state = StateCancelQueued
    BY <1>2 DEF Advanced, ReceiptRow, ReceiptState
  <1>3. CASE row.state \in {StateCreated, StateChecking, StateWithdrawn, StateClosing}
    <2>1. Progression[row.state] =
             IF row.state = StateCreated THEN StateChecking
             ELSE IF row.state = StateChecking THEN StateWithdrawn
             ELSE IF row.state = StateWithdrawn THEN StateClosing ELSE StatePaid
      BY <1>3 DEF Progression
    <2> QED BY <1>3, <2>1 DEF Advanced, ReceiptRow, ReceiptState
  <1> QED BY <1>1, <1>2, <1>3

LEMMA PursesTyped ==
    ASSUME NEW card \in CardRow, NEW amount \in Nat
    PROVE  /\ Charged(card, amount) \in CardRow
           /\ Charged(card, amount).balance = card.balance - amount
           /\ Credited(card, amount) \in CardRow
           /\ Credited(card, amount).balance = card.balance + amount
           /\ [card EXCEPT !.removed = TRUE] \in CardRow
           /\ [card EXCEPT !.removed = TRUE].balance = card.balance
  <1> DEFINE less == card.balance - amount
             more == card.balance + amount
  <1>1. less \in Int /\ more \in Int
    BY DEF CardRow
  <1>2. Charged(card, amount) = [card EXCEPT !.balance = less]
        /\ Credited(card, amount) = [card EXCEPT !.balance = more]
    BY DEF Charged, Credited
  <1>3. [card EXCEPT !.removed = TRUE] \in CardRow
        /\ [card EXCEPT !.removed = TRUE].balance = card.balance
    BY DEF CardRow
  <1>4. Charged(card, amount).balance = less /\ Credited(card, amount).balance = more
    <2> HIDE DEF less, more
    <2> QED BY <1>2 DEF CardRow
  <1>5. Charged(card, amount) \in CardRow /\ Credited(card, amount) \in CardRow
    <2> HIDE DEF less, more
    <2> QED BY <1>1, <1>2 DEF CardRow
  <1> QED BY <1>3, <1>4, <1>5

-----------------------------------------------------------------------------
(* What a step of one call leaves to the others.                               *)
Grows == Performed \subseteq Performed' /\ Gone \subseteq Gone'

LEMMA CallStep ==
    ASSUME CallsKept, NEW c \in Calls, NEW l \in Call, NEW s \in Statements,
           loc' = [loc EXCEPT ![c] = l], pc' = [pc EXCEPT ![c] = s], Grows,
           CallWellFormed(l, s), CallReached(l, s, Performed', Gone')
    PROVE  CallsKept'
  <1>1. pc' \in [Calls -> Statements] /\ loc' \in [Calls -> Call]
    BY DEF CallsKept
  <1>2. ASSUME NEW d \in Calls
        PROVE  CallWellFormed(loc'[d], pc'[d]) /\ CallReached(loc'[d], pc'[d], Performed', Gone')
    <2>1. CASE d = c
      <3>1. loc'[d] = l /\ pc'[d] = s
        BY <2>1 DEF CallsKept
      <3> QED BY <3>1
    <2>2. CASE d # c
      <3>1. loc'[d] = loc[d] /\ pc'[d] = pc[d]
        BY <2>2 DEF CallsKept
      <3>2. CallWellFormed(loc[d], pc[d]) /\ CallReached(loc[d], pc[d], Performed, Gone)
        BY DEF CallsKept
      <3>3. CallReached(loc[d], pc[d], Performed', Gone')
        BY <3>2 DEF CallReached, Reached, Grows
      <3> QED BY <3>1, <3>2, <3>3
    <2> QED BY <2>1, <2>2
  <1> QED BY <1>1, <1>2 DEF CallsKept

LEMMA CallsStay ==
    ASSUME CallsKept, UNCHANGED <<pc, loc>>, Grows
    PROVE  CallsKept'
  <1>1. ASSUME NEW d \in Calls PROVE CallReached(loc[d], pc[d], Performed', Gone')
    BY DEF CallsKept, CallReached, Reached, Grows
  <1> QED BY <1>1 DEF CallsKept

LEMMA CallEnds ==
    ASSUME CallsKept, NEW c \in Calls, Ends(c), Grows
    PROVE  CallsKept'
  <1>1. CallWellFormed(NoCall, "idle")
    BY NothingTyped DEF CallWellFormed
  <1>2. CallReached(NoCall, "idle", Performed', Gone')
    BY NothingTyped DEF CallReached, PayoutNamed
  <1> QED BY <1>1, <1>2, NothingTyped, CallStep DEF Ends, Goto, Statements

\* Where a call goes on with what it has.
LEMMA CallMoves ==
    ASSUME CallsKept, NEW c \in Calls, NEW s \in Statements, Goto(c, s), UNCHANGED loc, Grows,
           CallWellFormed(loc[c], s), CallReached(loc[c], s, Performed', Gone')
    PROVE  CallsKept'
  <1>1. loc[c] \in Call /\ loc' = [loc EXCEPT ![c] = loc[c]]
    BY DEF CallsKept
  <1> QED BY <1>1, CallStep DEF Goto

LEMMA RowsStay ==
    ASSUME RowsKept, UNCHANGED <<receipts, pending>>, Grows
    PROVE  RowsKept'
  <1>1. ASSUME NEW r \in Receipts PROVE RowReached(r)'
    BY DEF RowsKept, RowReached, Reached, Grows
  <1> QED BY <1>1 DEF RowsKept

LEMMA RowStep ==
    ASSUME RowsKept, receipts \in [Receipts -> ReceiptRow], NEW r \in Receipts,
           NEW row \in ReceiptRow, receipts' = [receipts EXCEPT ![r] = row],
           UNCHANGED pending, Performed \subseteq Performed',
           RowWellFormed(row), PayoutNamed(r, row),
           Left(row) => Reached(row, Performed'), Left(receipts[r]) => Left(row)
    PROVE  RowsKept' /\ Gone \subseteq Gone' /\ receipts' \in [Receipts -> ReceiptRow]
  <1>1. receipts' \in [Receipts -> ReceiptRow] /\ receipts'[r] = row
        /\ \A q \in Receipts \ {r} : receipts'[q] = receipts[q]
    OBVIOUS
  <1>2. Gone \subseteq Gone'
    BY <1>1 DEF Gone
  <1>3. ASSUME NEW q \in Receipts PROVE RowReached(q)'
    <2>1. RowReached(q)
      BY DEF RowsKept
    <2>2. CASE q = r
      BY <2>1, <2>2, <1>1, <1>2 DEF RowReached, Gone
    <2>3. CASE q # r
      BY <2>1, <2>3, <1>1, <1>2 DEF RowReached, Reached
    <2> QED BY <2>2, <2>3
  <1> QED BY <1>1, <1>2, <1>3 DEF RowsKept

\* A step that writes no table.
LEMMA ReadStep ==
    ASSUME Inv, UNCHANGED <<tables, pending>>, GhostsTyped', Grows => CallsKept'
    PROVE  Inv'
  <1>1. UNCHANGED <<receipts, cards, books, register, blocked, pending>>
    BY DEF tables
  <1>2. Grows
    BY <1>1 DEF Grows, Performed, Gone
  <1>3. TablesTyped' /\ (pending \in [Receipts -> Nat])' /\ NoDebt'
    BY <1>1 DEF Inv, TablesTyped, NoDebt
  <1> QED BY <1>1, <1>2, <1>3, RowsStay DEF Inv

LEMMA GhostsStay == ASSUME Inv, UNCHANGED <<ghosts, failures>> PROVE GhostsTyped'
  BY DEF Inv, GhostsTyped, ghosts

\* What a call in flight and a receipt know.
LEMMA CallKnows ==
    ASSUME Inv, NEW c \in Calls
    PROVE  /\ loc[c] \in Call /\ pc[c] \in Statements /\ CallsKept
           /\ CallWellFormed(loc[c], pc[c]) /\ CallReached(loc[c], pc[c], Performed, Gone)
  BY DEF Inv, CallsKept

LEMMA RowKnows ==
    ASSUME Inv, NEW r \in Receipts
    PROVE  /\ receipts[r] \in ReceiptRow /\ RowsKept /\ RowWellFormed(receipts[r])
           /\ PayoutNamed(r, receipts[r]) /\ (Left(receipts[r]) => Reached(receipts[r], Performed))
           /\ (pending[r] > 0 => r \in Gone) /\ receipts \in [Receipts -> ReceiptRow]
  BY DEF Inv, RowsKept, RowReached, TablesTyped

\* The tables and what is remembered of them.
LEMMA GhostsKnown ==
    ASSUME Inv
    PROVE  /\ taken \in [Receipts -> Int] /\ torn \in [Receipts -> Int]
           /\ drawn \in [Cards -> Int] /\ settled \in [Receipts -> Nat] /\ stray \subseteq Txns
           /\ cards \in [Cards -> CardRow] /\ receipts \in [Receipts -> ReceiptRow]
           /\ books \in [Txns -> {"none", "created", "performed"}]
           /\ pc \in [Calls -> Statements] /\ loc \in [Calls -> Call] /\ failures \in Nat
  BY DEF Inv, GhostsTyped, TablesTyped, CallsKept

-----------------------------------------------------------------------------
(* Every action keeps the invariant: the requests' first statements.           *)
LEMMA KeepsCreate == ASSUME Inv, NEW r \in Receipts, ReceiptsCreate(r) PROVE Inv'
  <1>1. PICK hold \in BOOLEAN : receipts' = [receipts EXCEPT ![r] = NewReceipt(hold)]
    BY DEF ReceiptsCreate
  <1>2. /\ r \notin Payouts /\ receipts[r].state = Absent
        /\ UNCHANGED <<cards, books, register, blocked, pending, pc, loc, ghosts, failures>>
    BY DEF ReceiptsCreate
  <1>3. NewReceipt(hold) \in ReceiptRow /\ NewReceipt(hold).state = StateCreated
    BY DEF NewReceipt, NoReceipt, ReceiptRow, ReceiptState
  <1>4. RowWellFormed(NewReceipt(hold)) /\ PayoutNamed(r, NewReceipt(hold))
        /\ ~Left(NewReceipt(hold)) /\ ~Left(receipts[r])
    BY <1>2, <1>3 DEF RowWellFormed, Begun, PayoutNamed, Left
  <1>5. Performed' = Performed
    BY <1>2 DEF Performed
  <1>6. RowsKept' /\ Gone \subseteq Gone' /\ receipts' \in [Receipts -> ReceiptRow]
    BY <1>1, <1>2, <1>3, <1>4, <1>5, RowKnows, RowStep
  <1>7. CallsKept'
    BY <1>2, <1>5, <1>6, CallsStay DEF Grows, Inv
  <1>8. TablesTyped' /\ (pending \in [Receipts -> Nat])' /\ NoDebt' /\ GhostsTyped'
    BY <1>2, <1>6, GhostsStay DEF Inv, TablesTyped, NoDebt
  <1> QED BY <1>6, <1>7, <1>8 DEF Inv

\* A request that begins by reading the row it will work on.
LEMMA BeginStep ==
    ASSUME Inv, NEW c \in Calls, NEW r \in Receipts, NEW row \in ReceiptRow,
           NEW op \in {"Open", "Pay", "Complete", "Confirm", "Cancel", "Advance"},
           NEW k \in Cards \cup {NoCard}, NEW s \in Statements, Begins(c, op, r, row, k, s), Grows,
           PayoutNamed(r, row),
           \/ s = "card" /\ op = "Pay" /\ k \in Cards
           \/ s = "open" /\ op = "Open" /\ row.txn # NoTxn
           \/ s = "payee" /\ op = "Complete" /\ k \in Cards /\ r \in Payouts /\ row.state # Absent
           \/ /\ s = "store" /\ RowWellFormed(row) /\ Reached(row, Performed')
              /\ \/ op = "Confirm" /\ row.state = StatePaid
                 \/ op = "Cancel" /\ row.state \in {StateCancelQueued, StateCancelled}
                 \/ op = "Advance"
           \/ /\ s = "refund" /\ op = "Cancel" /\ k \in Cards /\ Refunds(row)
              /\ Reached(row, Performed') /\ row.state \in {StateCancelQueued, StateCancelled}
    PROVE  CallsKept'
  <1> DEFINE l == [NoCall EXCEPT !.op = op, !.id = r, !.row = row, !.card = k]
  <1>1. /\ l \in Call /\ l.op = op /\ l.id = r /\ l.row = row /\ l.card = k
        /\ l.purse.balance = 0
    <2>1. /\ l \in Call /\ l.op = op /\ l.id = r /\ l.row = row /\ l.card = k
          /\ l.purse = NoPurse
      <3>1. op \in {"none", "Open", "Pay", "Complete", "Confirm", "Cancel", "Remove", "Advance"}
            /\ r \in Receipts \cup {NoReceiptId}
        OBVIOUS
      <3> QED BY <3>1, NothingTyped DEF Call, NoCall, NoPurse, CardRow
    <2> HIDE DEF l
    <2> QED BY <2>1, NothingTyped
  <1>2. loc' = [loc EXCEPT ![c] = l] /\ pc' = [pc EXCEPT ![c] = s]
    BY DEF Begins, Goto
  <1> HIDE DEF l
  <1>3. CallWellFormed(l, s)
    BY <1>1 DEF CallWellFormed
  <1>4. CallReached(l, s, Performed', Gone')
    BY <1>1 DEF CallReached, Writes
  <1> QED BY <1>1, <1>2, <1>3, <1>4, CallStep DEF Inv

LEMMA CallSlots == Calls = Requests \cup Timers
  BY DEF Calls

LEMMA KeepsPayBegin ==
    ASSUME Inv, NEW c \in Requests, NEW r \in Receipts, NEW k \in Cards, PayBegin(c, r, k)
    PROVE  Inv'
  <1>1. Begins(c, "Pay", r, receipts[r], k, "card") /\ UNCHANGED <<tables, pending, ghosts, failures>>
    BY DEF PayBegin
  <1> DEFINE op == "Pay"
             s == "card"
  <1>2. op \in {"Open", "Pay", "Complete", "Confirm", "Cancel", "Advance"} /\ s \in Statements
        /\ op = "Pay" /\ s = "card" /\ Begins(c, op, r, receipts[r], k, s)
    BY <1>1 DEF Statements
  <1> HIDE DEF op, s
  <1>3. ASSUME Grows PROVE CallsKept'
    BY <1>2, <1>3, RowKnows, CallSlots, BeginStep
  <1> QED BY <1>1, <1>3, GhostsStay, ReadStep

LEMMA KeepsCompleteBegin ==
    ASSUME Inv, NEW c \in Requests, NEW r \in Receipts, CompleteBegin(c, r)
    PROVE  Inv'
  <1>1. /\ r \in Payouts /\ receipts[r].state # Absent
        /\ Begins(c, "Complete", r, receipts[r], receipts[r].card, "payee")
        /\ UNCHANGED <<tables, pending, ghosts, failures>>
    BY DEF CompleteBegin
  <1> DEFINE op == "Complete"
             s == "payee"
  <1>2. op \in {"Open", "Pay", "Complete", "Confirm", "Cancel", "Advance"} /\ s \in Statements
        /\ op = "Complete" /\ s = "payee" /\ Begins(c, op, r, receipts[r], receipts[r].card, s)
    BY <1>1 DEF Statements
  <1> HIDE DEF op, s
  <1>3. receipts[r].card \in Cards
    BY <1>1, RowKnows DEF PayoutNamed
  <1>4. ASSUME Grows PROVE CallsKept'
    BY <1>1, <1>2, <1>3, <1>4, RowKnows, CallSlots, BeginStep
  <1> QED BY <1>1, <1>4, GhostsStay, ReadStep

LEMMA KeepsConfirmBegin ==
    ASSUME Inv, NEW c \in Requests, NEW r \in Receipts, ConfirmBegin(c, r)
    PROVE  Inv'
  <1> DEFINE op == "Confirm"
             s == "store"
             row == HoldConfirmed(receipts[r])
             k == NoCard
  <1>1. /\ receipts[r].state = StateHeld /\ UNCHANGED <<tables, pending, ghosts, failures>>
        /\ Begins(c, op, r, row, k, s)
    BY DEF ConfirmBegin
  <1>2. op \in {"Open", "Pay", "Complete", "Confirm", "Cancel", "Advance"} /\ s \in Statements
        /\ op = "Confirm" /\ s = "store" /\ k \in Cards \cup {NoCard}
    BY DEF Statements
  <1>3. row \in ReceiptRow /\ RowWellFormed(row) /\ PayoutNamed(r, row) /\ Reached(row, Performed)
        /\ row.state = StatePaid
    <2>1. receipts[r] \in ReceiptRow /\ RowWellFormed(receipts[r])
          /\ PayoutNamed(r, receipts[r]) /\ Reached(receipts[r], Performed)
      BY <1>1, RowKnows DEF Left
    <2>2. /\ row.state = StatePaid /\ row.hold = FALSE /\ row.card = receipts[r].card
          /\ row.txn = receipts[r].txn /\ row.charged = TRUE /\ row \in ReceiptRow
      BY <2>1, StoredTyped DEF HoldConfirmed, ReceiptRow
    <2> HIDE DEF row
    <2> QED BY <1>1, <2>1, <2>2 DEF RowWellFormed, PayoutNamed, Reached, Left, Begun
  <1> HIDE DEF op, s, k, row
  <1>4. ASSUME Grows PROVE CallsKept'
    <2>1. Reached(row, Performed')
      BY <1>3, <1>4 DEF Reached, Grows
    <2> QED BY <1>1, <1>2, <1>3, <1>4, <2>1, CallSlots, BeginStep
  <1> QED BY <1>1, <1>4, GhostsStay, ReadStep

LEMMA KeepsCancelBegin ==
    ASSUME Inv, NEW c \in Requests, NEW r \in Receipts, CancelBegin(c, r)
    PROVE  Inv'
  <1> DEFINE op == "Cancel"
             row == Cancelled(receipts[r])
             k == receipts[r].card
             s == IF Refunds(row) THEN "refund" ELSE "store"
  <1>1. /\ Cancellable(receipts[r]) /\ UNCHANGED <<tables, pending, ghosts, failures>>
        /\ Begins(c, op, r, row, k, s)
    BY DEF CancelBegin
  <1>2. receipts[r] \in ReceiptRow /\ RowWellFormed(receipts[r])
        /\ PayoutNamed(r, receipts[r]) /\ (Left(receipts[r]) => Reached(receipts[r], Performed))
    BY RowKnows
  <1>3. /\ row \in ReceiptRow /\ row.hold = receipts[r].hold /\ row.card = k
        /\ row.txn = receipts[r].txn /\ row.charged = receipts[r].charged
        /\ k = receipts[r].card /\ receipts[r].charged \in BOOLEAN
        /\ row.state = IF receipts[r].state = StateCreated THEN StateCancelled
                       ELSE StateCancelQueued
    BY <1>2, StoredTyped DEF Cancelled, ReceiptRow
  <1>4. k \in Cards \cup {NoCard} /\ op \in {"Open", "Pay", "Complete", "Confirm", "Cancel", "Advance"}
        /\ op = "Cancel"
    BY <1>2 DEF ReceiptRow
  <1>5. s \in Statements /\ ((s = "refund" /\ Refunds(row)) \/ s = "store")
    BY DEF Statements
  <1> HIDE DEF op, s, k, row
  <1>6. RowWellFormed(row) /\ PayoutNamed(r, row) /\ Reached(row, Performed)
    <2>1. receipts[r].state \in {StateCreated, StatePaid, StateHeld, StateChecking,
                                 StateWithdrawn, StateClosing}
      BY <1>1 DEF Cancellable, InProgress
    <2>2. CASE receipts[r].state = StateCreated
      BY <1>2, <1>3, <2>2 DEF RowWellFormed, PayoutNamed, Reached, Left, Begun
    <2>3. CASE receipts[r].state # StateCreated
      <3>1. receipts[r].state \in Begun /\ Left(receipts[r]) /\ row.state = StateCancelQueued
        BY <1>3, <2>1, <2>3 DEF Begun, Left
      <3>2. row.txn \in Performed
        BY <1>2, <1>3, <3>1 DEF Reached
      <3>3. RowWellFormed(row)
        <4>1. receipts[r].card # NoCard /\ receipts[r].txn # NoTxn /\ receipts[r].charged = TRUE
          BY <1>2, <1>3, <3>1 DEF RowWellFormed
        <4> QED BY <1>3, <4>1 DEF RowWellFormed
      <3>4. PayoutNamed(r, row)
        BY <1>2, <1>3, <3>1, <2>1 DEF PayoutNamed
      <3> QED BY <3>1, <3>2, <3>3, <3>4 DEF Reached, Left
    <2> QED BY <2>2, <2>3
  <1>7. s = "refund" => k \in Cards
    BY <1>3, <1>4, <1>5 DEF Refunds
  <1>8. ASSUME Grows PROVE CallsKept'
    <2>1. Reached(row, Performed')
      BY <1>6, <1>8 DEF Reached, Grows
    <2>2. CASE s = "refund"
      BY <1>1, <1>3, <1>4, <1>5, <1>6, <1>7, <1>8, <2>1, <2>2, CallSlots, BeginStep
    <2>3. CASE s = "store"
      BY <1>1, <1>3, <1>4, <1>5, <1>6, <1>8, <2>1, <2>3, CallSlots, BeginStep
    <2> QED BY <1>5, <2>2, <2>3
  <1> QED BY <1>1, <1>8, GhostsStay, ReadStep

LEMMA KeepsOpenBegin ==
    ASSUME Inv, NEW c \in Requests, NEW r \in Receipts, NEW k \in Cards, OpenBegin(c, r, k)
    PROVE  Inv'
  <1>1. PICK t \in Txns : /\ receipts' = [receipts EXCEPT ![r] = NewPayout(k, t)]
                          /\ Begins(c, "Open", r, NewPayout(k, t), k, "open")
    BY DEF OpenBegin
  <1>2. /\ r \in Payouts /\ receipts[r].state = Absent
        /\ UNCHANGED <<cards, books, register, blocked, pending, ghosts, failures>>
    BY DEF OpenBegin
  <1> DEFINE row == NewPayout(k, t)
             op == "Open"
             s == "open"
  <1>3. /\ row \in ReceiptRow /\ row.state = StateCreated /\ row.card = k /\ row.txn = t
        /\ row.hold = FALSE
    <2>1. row \in ReceiptRow
      BY PayoutTyped
    <2>2. /\ row.state = StateCreated /\ row.card = k /\ row.txn = t /\ row.hold = FALSE
      BY DEF NewPayout, NoReceipt
    <2> QED BY <2>1, <2>2
  <1>4. op \in {"Open", "Pay", "Complete", "Confirm", "Cancel", "Advance"} /\ s \in Statements
        /\ op = "Open" /\ s = "open" /\ Begins(c, op, r, row, k, s)
        /\ receipts' = [receipts EXCEPT ![r] = row]
    BY <1>1 DEF Statements
  <1> HIDE DEF row, op, s
  <1>5. /\ RowWellFormed(row) /\ PayoutNamed(r, row) /\ ~Left(row) /\ ~Left(receipts[r])
        /\ row.txn # NoTxn
    BY <1>2, <1>3, ReceiptAssumption DEF RowWellFormed, Begun, PayoutNamed, Left
  <1>6. Performed' = Performed
    BY <1>2 DEF Performed
  <1>7. RowsKept' /\ Gone \subseteq Gone' /\ receipts' \in [Receipts -> ReceiptRow]
    BY <1>2, <1>3, <1>4, <1>5, <1>6, RowKnows, RowStep
  <1>8. CallsKept'
    BY <1>3, <1>4, <1>5, <1>6, <1>7, CallSlots, BeginStep DEF Grows
  <1>9. TablesTyped' /\ (pending \in [Receipts -> Nat])' /\ NoDebt' /\ GhostsTyped'
    BY <1>2, <1>7, GhostsStay DEF Inv, TablesTyped, NoDebt
  <1> QED BY <1>7, <1>8, <1>9 DEF Inv

LEMMA KeepsRemoveBegin ==
    ASSUME Inv, NEW c \in Requests, NEW k \in Cards, RemoveBegin(c, k)
    PROVE  Inv'
  <1> DEFINE purse == [cards[k] EXCEPT !.removed = TRUE]
             l == [NoCall EXCEPT !.op = "Remove", !.card = k, !.purse = purse]
             s == "update"
  <1>1. /\ loc' = [loc EXCEPT ![c] = l] /\ pc' = [pc EXCEPT ![c] = s]
        /\ UNCHANGED <<tables, pending, ghosts, failures>>
    BY DEF RemoveBegin, Goto
  <1>2. cards[k] \in CardRow /\ cards[k].balance >= 0
    BY DEF Inv, TablesTyped, NoDebt
  <1>3. purse \in CardRow /\ purse.balance >= 0
    BY <1>2 DEF CardRow
  <1> HIDE DEF purse
  <1>4. /\ l \in Call /\ l.op = "Remove" /\ l.id = NoReceiptId /\ l.row = NoReceipt /\ l.card = k
        /\ l.purse = purse
    BY <1>3, NothingTyped DEF Call, NoCall
  <1>5. s \in Statements /\ s = "update"
    BY DEF Statements
  <1> HIDE DEF l, s
  <1>6. CallWellFormed(l, s)
    BY <1>4, <1>5, NothingTyped DEF CallWellFormed, RowWellFormed, Begun
  <1>7. ASSUME Grows PROVE CallReached(l, s, Performed', Gone')
    BY <1>3, <1>4, <1>5, NothingTyped DEF CallReached, Writes, PayoutNamed
  <1>8. Grows => CallsKept'
    BY <1>1, <1>4, <1>5, <1>6, <1>7, CallSlots, CallStep DEF Inv
  <1> QED BY <1>1, <1>8, GhostsStay, ReadStep

LEMMA KeepsAdvanceBegin ==
    ASSUME Inv, NEW c \in Timers, NEW r \in Receipts, AdvanceBegin(c, r)
    PROVE  Inv'
  <1>1. /\ pending[r] > 0 /\ pending' = [pending EXCEPT ![r] = @ - 1]
        /\ UNCHANGED <<tables, ghosts, failures>>
    BY DEF AdvanceBegin
  <1>2. UNCHANGED <<receipts, cards, books, register, blocked>>
    BY <1>1 DEF tables
  <1>3. Grows
    BY <1>2 DEF Grows, Performed, Gone
  <1>4. pending' \in [Receipts -> Nat] /\ \A q \in Receipts : pending'[q] > 0 => pending[q] > 0
    BY <1>1 DEF Inv
  <1>5. RowsKept'
    <2>1. ASSUME NEW q \in Receipts PROVE RowReached(q)'
      BY <1>2, <1>3, <1>4 DEF Inv, RowsKept, RowReached, Reached, Grows
    <2> QED BY <2>1 DEF RowsKept
  <1>6. CallsKept'
    <2>1. CASE UNCHANGED <<pc, loc>>
      BY <1>3, <2>1, CallsStay DEF Inv
    <2>2. CASE /\ CanAdvance(receipts[r])
               /\ Begins(c, "Advance", r, Advanced(receipts[r]), NoCard, "store")
      <3> DEFINE op == "Advance"
                 s == "store"
                 row == Advanced(receipts[r])
                 k == NoCard
      <3>1. op \in {"Open", "Pay", "Complete", "Confirm", "Cancel", "Advance"} /\ s \in Statements
            /\ op = "Advance" /\ s = "store" /\ k \in Cards \cup {NoCard}
            /\ Begins(c, op, r, row, k, s)
        BY <2>2 DEF Statements
      <3>2. receipts[r] \in ReceiptRow /\ RowWellFormed(receipts[r])
            /\ PayoutNamed(r, receipts[r]) /\ Reached(receipts[r], Performed)
        BY <1>1, RowKnows DEF Gone
      <3>3. receipts[r].state \in {StateChecking, StateWithdrawn, StateClosing, StateCancelQueued}
        BY <2>2, <3>2 DEF CanAdvance, Progression, Reached, Left
      <3>4. /\ row \in ReceiptRow /\ row.card = receipts[r].card /\ row.txn = receipts[r].txn
            /\ row.hold = receipts[r].hold /\ row.charged = receipts[r].charged
            /\ row.state \in {StateWithdrawn, StateClosing, StatePaid, StateHeld, StateCancelled}
            /\ row.state = StatePaid => ~row.hold
        BY <2>2, <3>2, <3>3, AdvancedTyped
      <3> HIDE DEF op, s, row, k
      <3>5. RowWellFormed(row) /\ PayoutNamed(r, row) /\ Reached(row, Performed')
        BY <1>3, <3>2, <3>3, <3>4
        DEF RowWellFormed, PayoutNamed, Reached, Left, Begun, Grows
      <3> QED BY <1>3, <3>1, <3>4, <3>5, CallSlots, BeginStep
    <2> QED BY <2>1, <2>2 DEF AdvanceBegin
  <1>7. TablesTyped' /\ NoDebt' /\ GhostsTyped'
    BY <1>1, <1>2, GhostsStay DEF Inv, TablesTyped, NoDebt
  <1> QED BY <1>4, <1>5, <1>6, <1>7 DEF Inv

-----------------------------------------------------------------------------
(* The statements of a call.                                                   *)

LEMMA KeepsPayCard == ASSUME Inv, NEW c \in Calls, PayCard(c) PROVE Inv'
  <1>1. pc[c] = "card" /\ UNCHANGED <<tables, pending, ghosts, failures>>
    BY DEF PayCard
  <1>2. ASSUME Grows PROVE CallsKept'
    <2>1. CASE Ends(c)
      BY <1>2, <2>1, CallEnds DEF Inv
    <2>2. ASSUME NEW hold \in BOOLEAN, Usable(cards[loc[c].card], Amount[loc[c].id]),
                 AwaitsPayment(loc[c].row), Goto(c, "create"),
                 loc' = [loc EXCEPT ![c].row = BeginPay(loc[c].row, loc[c].card, hold),
                                    ![c].purse = Charged(cards[loc[c].card], Amount[loc[c].id])]
          PROVE  CallsKept'
      <3> DEFINE row == BeginPay(loc[c].row, loc[c].card, hold)
                 purse == Charged(cards[loc[c].card], Amount[loc[c].id])
                 l == [loc[c] EXCEPT !.row = row, !.purse = purse]
                 s == "create"
      <3>1. /\ loc[c] \in Call /\ loc[c].op = "Pay" /\ loc[c].id \in Receipts /\ loc[c].card \in Cards
            /\ PayoutNamed(loc[c].id, loc[c].row) /\ loc[c].row.state = StateCreated
            /\ loc[c].row \in ReceiptRow
        BY <1>1, <2>2, CallKnows DEF CallWellFormed, CallReached, Writes, AwaitsPayment, Call
      <3>2. /\ row \in ReceiptRow /\ row.state = StateChecking /\ row.charged = TRUE
            /\ row.card = loc[c].card /\ row.txn = loc[c].row.txn
        <4>1. row \in ReceiptRow
          BY <3>1, BegunTyped
        <4>2. /\ row.state = StateChecking /\ row.charged = TRUE
              /\ row.card = loc[c].card /\ row.txn = loc[c].row.txn
          BY <3>1 DEF BeginPay, ReceiptRow
        <4> QED BY <4>1, <4>2
      <3>3. purse \in CardRow /\ purse.balance >= 0
        <4>1. cards[loc[c].card] \in CardRow /\ Amount[loc[c].id] \in Nat
          BY <3>1, ServiceAssumption DEF Inv, TablesTyped
        <4>2. cards[loc[c].card].balance >= Amount[loc[c].id]
              /\ cards[loc[c].card].balance \in Int
          BY <2>2, <4>1 DEF Usable, CardRow
        <4>3. purse \in CardRow /\ purse.balance = cards[loc[c].card].balance - Amount[loc[c].id]
          BY <4>1, PursesTyped
        <4> HIDE DEF purse
        <4> QED BY <4>1, <4>2, <4>3
      <3>4. loc' = [loc EXCEPT ![c] = l] /\ pc' = [pc EXCEPT ![c] = s] /\ s \in Statements
            /\ s = "create"
        BY <2>2 DEF Goto, Statements
      <3> HIDE DEF row, purse, s
      <3>5. /\ l \in Call /\ l.op = "Pay" /\ l.id = loc[c].id /\ l.row = row
            /\ l.card = loc[c].card /\ l.purse = purse
        <4> DEFINE half == [loc[c] EXCEPT !.row = row]
        <4>1. /\ half \in Call /\ half.op = loc[c].op /\ half.id = loc[c].id /\ half.row = row
              /\ half.card = loc[c].card
          BY <3>1, <3>2 DEF Call
        <4>2. l = [half EXCEPT !.purse = purse]
          OBVIOUS
        <4> HIDE DEF half, l
        <4> QED BY <3>1, <3>3, <4>1, <4>2 DEF Call
      <3> HIDE DEF l
      <3>6. CallWellFormed(l, s)
        BY <3>1, <3>2, <3>4, <3>5 DEF CallWellFormed
      <3>7. CallReached(l, s, Performed', Gone')
        BY <3>1, <3>2, <3>3, <3>4, <3>5 DEF CallReached, Writes, PayoutNamed
      <3> QED BY <1>2, <3>4, <3>5, <3>6, <3>7, CallStep DEF Inv
    <2> QED BY <2>1, <2>2 DEF PayCard
  <1> QED BY <1>1, <1>2, GhostsStay, ReadStep

\* A step of a call that changes the merchant's books and nothing else of the tables.
LEMMA BooksStep ==
    ASSUME Inv, UNCHANGED <<receipts, cards, register, blocked, pending>>, GhostsTyped',
           books' \in [Txns -> {"none", "created", "performed"}],
           Performed \subseteq Performed', Grows => CallsKept'
    PROVE  Inv'
  <1>1. Grows
    BY DEF Grows, Gone
  <1>2. TablesTyped' /\ (pending \in [Receipts -> Nat])' /\ NoDebt'
    BY DEF Inv, TablesTyped, NoDebt
  <1> QED BY <1>1, <1>2, RowsStay DEF Inv

LEMMA KeepsPayCreate == ASSUME Inv, NEW c \in Calls, PayCreate(c) PROVE Inv'
  <1>1. pc[c] = "create" /\ UNCHANGED <<receipts, cards, register, blocked, pending, ghosts, failures>>
    BY DEF PayCreate
  <1>2. books \in [Txns -> {"none", "created", "performed"}]
    BY DEF Inv, TablesTyped
  <1>3. CASE Ends(c) /\ UNCHANGED books
    <2>1. Performed' = Performed
      BY <1>3 DEF Performed
    <2> QED BY <1>1, <1>2, <1>3, <2>1, CallEnds, GhostsStay, BooksStep DEF Inv
  <1>4. ASSUME NEW t \in Txns, Fresh(t), books' = [books EXCEPT ![t] = "created"],
               \/ Ends(c)
               \/ loc' = [loc EXCEPT ![c].row.txn = t] /\ Goto(c, "perform")
        PROVE  Inv'
    <2>1. books[t] = "none" /\ books' \in [Txns -> {"none", "created", "performed"}]
      BY <1>2, <1>4 DEF Fresh
    <2>2. Performed \subseteq Performed'
      BY <1>2, <1>4, <2>1 DEF Performed
    <2>3. ASSUME Grows PROVE CallsKept'
      <3>1. CASE Ends(c)
        BY <2>3, <3>1, CallEnds DEF Inv
      <3>2. CASE loc' = [loc EXCEPT ![c].row.txn = t] /\ Goto(c, "perform")
        <4> DEFINE row == [loc[c].row EXCEPT !.txn = t]
                   l == [loc[c] EXCEPT !.row = row]
                   s == "perform"
        <4>1. /\ loc[c] \in Call /\ loc[c].op = "Pay" /\ loc[c].id \in Receipts /\ loc[c].card \in Cards
              /\ PayoutNamed(loc[c].id, loc[c].row) /\ loc[c].row.state = StateChecking
              /\ loc[c].row.charged = TRUE /\ loc[c].row.card \in Cards
              /\ loc[c].purse.balance >= 0 /\ loc[c].row \in ReceiptRow
          BY <1>1, CallKnows DEF CallWellFormed, CallReached, Writes, Call, ReceiptRow
        <4>2. /\ row \in ReceiptRow /\ row.state = StateChecking /\ row.charged = TRUE
              /\ row.card = loc[c].row.card /\ row.txn = t
          BY <4>1 DEF ReceiptRow
        <4>3. loc' = [loc EXCEPT ![c] = l] /\ pc' = [pc EXCEPT ![c] = s] /\ s \in Statements
              /\ s = "perform"
          BY <3>2 DEF Goto, Statements
        <4> HIDE DEF row, s
        <4>4. /\ l \in Call /\ l.op = "Pay" /\ l.id = loc[c].id /\ l.row = row
              /\ l.card = loc[c].card /\ l.purse = loc[c].purse
          BY <4>1, <4>2 DEF Call
        <4> HIDE DEF l
        <4>5. CallWellFormed(l, s)
          BY <4>1, <4>2, <4>3, <4>4, ReceiptAssumption DEF CallWellFormed
        <4>6. CallReached(l, s, Performed', Gone')
          BY <4>1, <4>2, <4>3, <4>4 DEF CallReached, Writes, PayoutNamed
        <4> QED BY <2>3, <4>3, <4>4, <4>5, <4>6, CallStep DEF Inv
      <3> QED BY <1>4, <3>1, <3>2
    <2> QED BY <1>1, <2>1, <2>2, <2>3, GhostsStay, BooksStep
  <1> QED BY <1>3, <1>4 DEF PayCreate

LEMMA KeepsPayPerform == ASSUME Inv, NEW c \in Calls, PayPerform(c) PROVE Inv'
  <1> DEFINE t == loc[c].row.txn
             s == "update"
  <1>1. pc[c] = "perform" /\ UNCHANGED <<receipts, cards, register, blocked, pending>>
        /\ UNCHANGED <<taken, drawn, settled, torn, failures>>
    BY DEF PayPerform
  <1>2. books \in [Txns -> {"none", "created", "performed"}]
    BY DEF Inv, TablesTyped
  <1>3. /\ loc[c] \in Call /\ loc[c].op = "Pay" /\ loc[c].id \in Receipts /\ loc[c].card \in Cards
        /\ PayoutNamed(loc[c].id, loc[c].row) /\ loc[c].row.state = StateChecking
        /\ loc[c].row.charged /\ loc[c].row.card \in Cards /\ loc[c].purse.balance >= 0
        /\ loc[c].row \in ReceiptRow /\ t \in Txns
    BY <1>1, CallKnows DEF CallWellFormed, CallReached, Writes, Call, ReceiptRow
  <1>4. s = "update" /\ s \in Statements
    BY DEF Statements
  <1>5. GhostsTyped'
    BY <1>1, <1>3 DEF PayPerform, Inv, GhostsTyped
  <1>6. CASE Ends(c) /\ UNCHANGED <<books, stray>>
    <2>1. Performed' = Performed
      BY <1>6 DEF Performed
    <2> QED BY <1>1, <1>2, <1>5, <1>6, <2>1, CallEnds, BooksStep DEF Inv
  <1>7. CASE /\ books' = [books EXCEPT ![t] = "performed"]
             /\ Ends(c) \/ (Goto(c, s) /\ UNCHANGED loc)
    <2>1. books' \in [Txns -> {"none", "created", "performed"}]
      BY <1>2, <1>7
    <2>2. Performed \subseteq Performed' /\ t \in Performed'
      BY <1>2, <1>3, <1>7 DEF Performed
    <2> HIDE DEF s
    <2>3. ASSUME Grows PROVE CallsKept'
      <3>1. CASE Ends(c)
        BY <2>3, <3>1, CallEnds DEF Inv
      <3>2. CASE Goto(c, s) /\ UNCHANGED loc
        <4>1. CallWellFormed(loc[c], s)
          BY <1>3, <1>4, ReceiptAssumption DEF CallWellFormed, RowWellFormed
        <4>2. CallReached(loc[c], s, Performed', Gone')
          BY <1>3, <1>4, <2>2 DEF CallReached, Writes, Reached, Left
        <4> QED BY <1>4, <2>3, <3>2, <4>1, <4>2, CallMoves DEF Inv
      <3> QED BY <1>7, <3>1, <3>2
    <2> QED BY <1>1, <1>5, <2>1, <2>2, <2>3, BooksStep
  <1> QED BY <1>6, <1>7 DEF PayPerform

LEMMA KeepsOpen == ASSUME Inv, NEW c \in Calls, Open(c) PROVE Inv'
  <1>1. pc[c] = "open" /\ Ends(c)
        /\ UNCHANGED <<receipts, cards, register, blocked, pending, ghosts, failures>>
    BY DEF Open
  <1>2. books \in [Txns -> {"none", "created", "performed"}]
    BY DEF Inv, TablesTyped
  <1>3. \/ UNCHANGED books
        \/ books' = [books EXCEPT ![loc[c].row.txn] = IF @ = "none" THEN "created" ELSE @]
    BY DEF Open
  <1>4. books' \in [Txns -> {"none", "created", "performed"}] /\ Performed \subseteq Performed'
    BY <1>2, <1>3 DEF Performed
  <1> QED BY <1>1, <1>4, CallEnds, GhostsStay, BooksStep DEF Inv

LEMMA KeepsPayee == ASSUME Inv, NEW c \in Calls, Payee(c) PROVE Inv'
  <1>1. pc[c] = "payee" /\ UNCHANGED <<tables, pending, ghosts, failures>>
    BY DEF Payee
  <1>2. ASSUME Grows PROVE CallsKept'
    <2>1. CASE Ends(c)
      BY <1>2, <2>1, CallEnds DEF Inv
    <2>2. CASE /\ AwaitsPayment(loc[c].row) /\ Goto(c, "settle")
               /\ loc' = [loc EXCEPT ![c].row = Completed(loc[c].row),
                                     ![c].purse = Credited(cards[loc[c].card], Amount[loc[c].id])]
      <3> DEFINE row == Completed(loc[c].row)
                 purse == Credited(cards[loc[c].card], Amount[loc[c].id])
                 l == [loc[c] EXCEPT !.row = row, !.purse = purse]
                 s == "settle"
      <3>1. /\ loc[c] \in Call /\ loc[c].op = "Complete" /\ loc[c].id \in Payouts
            /\ loc[c].id \in Receipts /\ loc[c].card \in Cards
            /\ PayoutNamed(loc[c].id, loc[c].row) /\ loc[c].row.state = StateCreated
            /\ loc[c].row \in ReceiptRow
        BY <1>1, <2>2, CallKnows DEF CallWellFormed, CallReached, Writes, AwaitsPayment, Call
      <3>2. /\ row \in ReceiptRow /\ row.state = StatePaid /\ row.charged = TRUE
            /\ row.card = loc[c].row.card /\ row.txn = loc[c].row.txn /\ row.hold = loc[c].row.hold
        BY <3>1, StoredTyped DEF Completed, ReceiptRow
      <3>3. purse \in CardRow /\ purse.balance >= 0
        <4>1. cards[loc[c].card] \in CardRow /\ Amount[loc[c].id] \in Nat
              /\ cards[loc[c].card].balance >= 0 /\ cards[loc[c].card].balance \in Int
          BY <3>1, ServiceAssumption DEF Inv, TablesTyped, NoDebt, CardRow
        <4>2. purse \in CardRow /\ purse.balance = cards[loc[c].card].balance + Amount[loc[c].id]
          BY <4>1, PursesTyped
        <4> HIDE DEF purse
        <4> QED BY <4>1, <4>2
      <3>4. loc' = [loc EXCEPT ![c] = l] /\ pc' = [pc EXCEPT ![c] = s] /\ s \in Statements
            /\ s = "settle"
        BY <2>2 DEF Goto, Statements
      <3> HIDE DEF row, purse, s
      <3>5. /\ l \in Call /\ l.op = "Complete" /\ l.id = loc[c].id /\ l.row = row
            /\ l.card = loc[c].card /\ l.purse = purse
        <4> DEFINE half == [loc[c] EXCEPT !.row = row]
        <4>1. /\ half \in Call /\ half.op = loc[c].op /\ half.id = loc[c].id /\ half.row = row
              /\ half.card = loc[c].card
          BY <3>1, <3>2 DEF Call
        <4>2. l = [half EXCEPT !.purse = purse]
          OBVIOUS
        <4> HIDE DEF half, l
        <4> QED BY <3>1, <3>3, <4>1, <4>2 DEF Call
      <3> HIDE DEF l
      <3>6. CallWellFormed(l, s)
        BY <3>1, <3>2, <3>4, <3>5, ReceiptAssumption DEF CallWellFormed, PayoutNamed
      <3>7. CallReached(l, s, Performed', Gone')
        BY <3>1, <3>2, <3>3, <3>4, <3>5 DEF CallReached, Writes, PayoutNamed
      <3> QED BY <1>2, <3>4, <3>5, <3>6, <3>7, CallStep DEF Inv
    <2> QED BY <2>1, <2>2 DEF Payee
  <1> QED BY <1>1, <1>2, GhostsStay, ReadStep

LEMMA KeepsSettle == ASSUME Inv, NEW c \in Calls, Settle(c) PROVE Inv'
  <1> DEFINE t == loc[c].row.txn
             s == "update"
  <1>1. pc[c] = "settle" /\ UNCHANGED <<receipts, cards, blocked, pending, taken, drawn, torn,
                                        stray, failures>>
    BY DEF Settle
  <1>2. /\ loc[c] \in Call /\ loc[c].op = "Complete" /\ loc[c].id \in Receipts /\ loc[c].card \in Cards
        /\ PayoutNamed(loc[c].id, loc[c].row) /\ loc[c].row.state = StatePaid /\ ~loc[c].row.hold
        /\ loc[c].row.charged /\ loc[c].row.card \in Cards /\ loc[c].purse.balance >= 0
        /\ t \in Txns
    BY <1>1, CallKnows DEF CallWellFormed, CallReached, Writes, Call, ReceiptRow
  <1>3. s = "update" /\ s \in Statements
    BY DEF Statements
  <1>4. \/ Ends(c) /\ UNCHANGED <<books, register, settled>>
        \/ /\ register' = Apply(register, Amount[loc[c].id])
           /\ books' = [books EXCEPT ![t] = "performed"]
           /\ settled' = [settled EXCEPT ![loc[c].id] = @ + 1]
           /\ Goto(c, s) /\ UNCHANGED loc
    BY DEF Settle
  <1>5. books \in [Txns -> {"none", "created", "performed"}] /\ register \in Int
        /\ Amount[loc[c].id] \in Nat
    BY <1>2, ServiceAssumption DEF Inv, TablesTyped
  <1>6. books' \in [Txns -> {"none", "created", "performed"}] /\ Performed \subseteq Performed'
    BY <1>4, <1>5 DEF Performed
  <1>7. register' \in Int
    BY <1>4, <1>5 DEF Apply
  <1>8. GhostsTyped'
    BY <1>1, <1>4 DEF Inv, GhostsTyped
  <1>9. Grows
    BY <1>1, <1>6 DEF Grows, Gone
  <1>10. CallsKept'
    <2>1. CASE Ends(c)
      BY <1>9, <2>1, CallEnds DEF Inv
    <2>2. CASE Goto(c, s) /\ UNCHANGED loc /\ books' = [books EXCEPT ![t] = "performed"]
      <3>1. t \in Performed'
        BY <1>2, <1>5, <2>2 DEF Performed
      <3> HIDE DEF s
      <3>2. CallWellFormed(loc[c], s)
        BY <1>2, <1>3, ReceiptAssumption DEF CallWellFormed, RowWellFormed
      <3>3. CallReached(loc[c], s, Performed', Gone')
        BY <1>2, <1>3, <3>1 DEF CallReached, Writes, Reached, Left
      <3> QED BY <1>3, <1>9, <2>2, <3>2, <3>3, CallMoves DEF Inv
    <2> QED BY <1>4, <2>1, <2>2
  <1>11. TablesTyped' /\ (pending \in [Receipts -> Nat])' /\ NoDebt'
    BY <1>1, <1>6, <1>7 DEF Inv, TablesTyped, NoDebt
  <1> QED BY <1>1, <1>8, <1>9, <1>10, <1>11, RowsStay DEF Inv

LEMMA KeepsRefundCard == ASSUME Inv, NEW c \in Calls, RefundCard(c) PROVE Inv'
  <1>1. pc[c] = "refund" /\ UNCHANGED <<tables, pending, taken, drawn, settled, stray, failures>>
    BY DEF RefundCard
  <1>2. /\ loc[c] \in Call /\ loc[c].op = "Cancel" /\ loc[c].id \in Receipts /\ loc[c].card \in Cards
        /\ PayoutNamed(loc[c].id, loc[c].row) /\ Refunds(loc[c].row)
        /\ Reached(loc[c].row, Performed) /\ loc[c].purse.balance >= 0 /\ loc[c].row \in ReceiptRow
        /\ loc[c].row.state \in {StateCancelQueued, StateCancelled}
    BY <1>1, CallKnows DEF CallWellFormed, CallReached, Writes, Call
  <1>3. RowWellFormed(loc[c].row)
    BY <1>2, ReceiptAssumption DEF RowWellFormed, Reached, Refunds, Performed
  <1>4. GhostsTyped'
    BY <1>1, <1>2 DEF RefundCard, Inv, GhostsTyped
  <1>5. ASSUME Grows PROVE CallsKept'
    <2>0. Reached(loc[c].row, Performed')
      BY <1>2, <1>5 DEF Reached, Grows
    <2>1. CASE /\ loc' = [loc EXCEPT ![c].purse = Credited(cards[loc[c].card], Amount[loc[c].id])]
               /\ Goto(c, "update")
      <3> DEFINE purse == Credited(cards[loc[c].card], Amount[loc[c].id])
                 l == [loc[c] EXCEPT !.purse = purse]
                 s == "update"
      <3>1. purse \in CardRow /\ purse.balance >= 0
        <4>1. cards[loc[c].card] \in CardRow /\ Amount[loc[c].id] \in Nat
              /\ cards[loc[c].card].balance >= 0 /\ cards[loc[c].card].balance \in Int
          BY <1>2, ServiceAssumption DEF Inv, TablesTyped, NoDebt, CardRow
        <4>2. purse \in CardRow /\ purse.balance = cards[loc[c].card].balance + Amount[loc[c].id]
          BY <4>1, PursesTyped
        <4> HIDE DEF purse
        <4> QED BY <4>1, <4>2
      <3>2. loc' = [loc EXCEPT ![c] = l] /\ pc' = [pc EXCEPT ![c] = s] /\ s \in Statements
            /\ s = "update"
        BY <2>1 DEF Goto, Statements
      <3> HIDE DEF purse, s
      <3>3. /\ l \in Call /\ l.op = "Cancel" /\ l.id = loc[c].id /\ l.row = loc[c].row
            /\ l.card = loc[c].card /\ l.purse = purse
        BY <1>2, <3>1 DEF Call
      <3> HIDE DEF l
      <3>4. CallWellFormed(l, s)
        BY <1>2, <1>3, <3>2, <3>3 DEF CallWellFormed
      <3>5. CallReached(l, s, Performed', Gone')
        BY <1>2, <2>0, <3>1, <3>2, <3>3 DEF CallReached, Writes
      <3> QED BY <1>5, <3>2, <3>3, <3>4, <3>5, CallStep DEF Inv
    <2>2. CASE Goto(c, "store") /\ UNCHANGED loc
      <3> DEFINE s == "store"
      <3>1. s = "store" /\ s \in Statements /\ Goto(c, s)
        BY <2>2 DEF Statements
      <3> HIDE DEF s
      <3>2. CallWellFormed(loc[c], s)
        BY <1>2, <1>3, <3>1 DEF CallWellFormed
      <3>3. CallReached(loc[c], s, Performed', Gone')
        BY <1>2, <2>0, <3>1 DEF CallReached, Writes
      <3> QED BY <1>5, <2>2, <3>1, <3>2, <3>3, CallMoves DEF Inv
    <2> QED BY <2>1, <2>2 DEF RefundCard
  <1> QED BY <1>1, <1>4, <1>5, ReadStep

LEMMA TakesTyped ==
    ASSUME NEW call PROVE Takes(call) \in {-1, 0, 1} /\ Moved(call) \in {-1, 0, 1}
  BY DEF Takes, Moved

LEMMA KeepsUpdateCard == ASSUME Inv, NEW c \in Calls, UpdateCard(c) PROVE Inv'
  <1>1. /\ pc[c] = "update" /\ cards' = [cards EXCEPT ![loc[c].card] = loc[c].purse]
        /\ UNCHANGED <<receipts, books, register, blocked, pending, settled, torn, stray, failures>>
    BY DEF UpdateCard
  <1>2. /\ loc[c] \in Call /\ loc[c].card \in Cards /\ CallWellFormed(loc[c], "update")
        /\ CallReached(loc[c], "update", Performed, Gone) /\ loc[c].purse \in CardRow
    BY <1>1, CallKnows DEF CallWellFormed, Call
  <1>3. Grows
    BY <1>1 DEF Grows, Performed, Gone
  <1>4. TablesTyped' /\ NoDebt'
    <2>1. cards' \in [Cards -> CardRow]
      BY <1>1, <1>2 DEF Inv, TablesTyped
    <2>2. loc[c].purse.balance >= 0
      BY <1>2 DEF CallReached, Writes
    <2>3. NoDebt'
      BY <1>1, <1>2, <2>2 DEF Inv, TablesTyped, NoDebt
    <2> QED BY <1>1, <2>1, <2>3 DEF Inv, TablesTyped
  <1>5. GhostsTyped'
    <2>1. CASE UNCHANGED <<taken, drawn>>
      BY <1>1, <2>1 DEF Inv, GhostsTyped
    <2>2. CASE /\ loc[c].op # "Remove"
               /\ taken' = [taken EXCEPT ![loc[c].id] = @ + Takes(loc[c])]
               /\ drawn' = [drawn EXCEPT ![loc[c].card] = @ + Takes(loc[c]) * Amount[loc[c].id]]
      <3> DEFINE n == Takes(loc[c])
                 m == Takes(loc[c]) * Amount[loc[c].id]
      <3>1. n \in Int /\ m \in Int
        <4>1. loc[c].id \in Receipts
          BY <1>2, <2>2 DEF CallWellFormed
        <4>2. Amount[loc[c].id] \in Int
          BY <4>1, ServiceAssumption
        <4>3. Takes(loc[c]) \in {-1, 0, 1}
          BY TakesTyped
        <4> QED BY <4>2, <4>3
      <3>2. taken' = [taken EXCEPT ![loc[c].id] = @ + n]
            /\ drawn' = [drawn EXCEPT ![loc[c].card] = @ + m]
        BY <2>2
      <3> HIDE DEF n, m
      <3>3. taken \in [Receipts -> Int] /\ drawn \in [Cards -> Int]
            /\ loc[c].id \in Receipts /\ loc[c].card \in Cards
        BY <1>2, <2>2 DEF Inv, GhostsTyped, CallWellFormed
      <3>4. taken' \in [Receipts -> Int]
        BY <3>1, <3>2, <3>3
      <3>5. drawn' \in [Cards -> Int]
        BY <3>1, <3>2, <3>3
      <3> QED BY <1>1, <3>4, <3>5 DEF Inv, GhostsTyped
    <2> QED BY <2>1, <2>2 DEF UpdateCard
  <1>6. CallsKept'
    <2>1. CASE Ends(c)
      BY <1>3, <2>1, CallEnds DEF Inv
    <2>2. CASE loc[c].op # "Remove" /\ Goto(c, "store") /\ UNCHANGED loc
      <3> DEFINE s == "store"
      <3>1. s = "store" /\ s \in Statements /\ Goto(c, s)
        BY <2>2 DEF Statements
      <3> HIDE DEF s
      <3>2. CallWellFormed(loc[c], s)
        BY <1>2, <2>2, <3>1 DEF CallWellFormed
      <3>3. CallReached(loc[c], s, Performed', Gone')
        BY <1>2, <1>3, <2>2, <3>1 DEF CallReached, Writes, Reached, Grows
      <3> QED BY <1>3, <2>2, <3>1, <3>2, <3>3, CallMoves DEF Inv
    <2> QED BY <2>1, <2>2 DEF UpdateCard
  <1> QED BY <1>1, <1>3, <1>4, <1>5, <1>6, RowsStay DEF Inv

LEMMA KeepsStore == ASSUME Inv, NEW c \in Calls, Store(c) PROVE Inv'
  <1> DEFINE r == loc[c].id
             row == loc[c].row
  <1>1. /\ pc[c] = "store" /\ receipts' = [receipts EXCEPT ![r] = row]
        /\ UNCHANGED <<cards, books, register, blocked, pending, ghosts, failures>>
    BY DEF Store
  <1>2. /\ loc[c] \in Call /\ r \in Receipts /\ row \in ReceiptRow
        /\ CallWellFormed(loc[c], "store") /\ CallReached(loc[c], "store", Performed, Gone)
    BY <1>1, CallKnows DEF CallWellFormed, Call
  <1>3. RowWellFormed(row) /\ PayoutNamed(r, row) /\ Reached(row, Performed) /\ Left(row)
    BY <1>2 DEF CallWellFormed, CallReached, Writes, Reached
  <1>4. Performed' = Performed
    BY <1>1 DEF Performed
  <1>5. RowsKept' /\ Gone \subseteq Gone' /\ receipts' \in [Receipts -> ReceiptRow]
    BY <1>1, <1>2, <1>3, <1>4, RowKnows, RowStep
  <1>6. r \in Gone'
    BY <1>1, <1>2, <1>3, RowKnows DEF Gone
  <1>7. Grows
    BY <1>4, <1>5 DEF Grows
  <1>8. CallsKept'
    <2>1. CASE Ends(c)
      BY <1>7, <2>1, CallEnds DEF Inv
    <2>2. CASE Schedules(loc[c]) /\ Goto(c, "schedule") /\ UNCHANGED loc
      <3> DEFINE s == "schedule"
      <3>1. s = "schedule" /\ s \in Statements /\ Goto(c, s)
        BY <2>2 DEF Statements
      <3> HIDE DEF s
      <3>2. CallWellFormed(loc[c], s)
        BY <1>2, <2>2, <3>1 DEF CallWellFormed
      <3>3. CallReached(loc[c], s, Performed', Gone')
        BY <1>2, <1>3, <1>4, <1>6, <3>1 DEF CallReached, Writes
      <3> QED BY <1>7, <2>2, <3>1, <3>2, <3>3, CallMoves DEF Inv
    <2> QED BY <2>1, <2>2 DEF Store
  <1>9. TablesTyped' /\ (pending \in [Receipts -> Nat])' /\ NoDebt' /\ GhostsTyped'
    BY <1>1, <1>5, GhostsStay DEF Inv, TablesTyped, NoDebt
  <1> QED BY <1>5, <1>8, <1>9 DEF Inv

LEMMA KeepsSchedule == ASSUME Inv, NEW c \in Calls, Schedule(c) PROVE Inv'
  <1> DEFINE r == loc[c].id
  <1>1. /\ pc[c] = "schedule" /\ pending' = [pending EXCEPT ![r] = @ + 1] /\ Ends(c)
        /\ UNCHANGED <<tables, ghosts, failures>>
    BY DEF Schedule
  <1>2. UNCHANGED <<receipts, cards, books, register, blocked>>
    BY <1>1 DEF tables
  <1>3. Grows /\ Gone' = Gone
    BY <1>2 DEF Grows, Performed, Gone
  <1>4. r \in Receipts /\ r \in Gone
    BY <1>1, CallKnows DEF CallWellFormed, CallReached, Writes
  <1>5. pending' \in [Receipts -> Nat]
    BY <1>1, <1>4 DEF Inv
  <1>6. RowsKept'
    <2>1. ASSUME NEW q \in Receipts PROVE RowReached(q)'
      <3>1. pending'[q] > 0 => q \in Gone
        <4>1. q # r => pending'[q] = pending[q]
          BY <1>1, <1>4 DEF Inv
        <4> QED BY <1>4, <4>1, RowKnows
      <3> QED BY <1>2, <1>3, <3>1 DEF Inv, RowsKept, RowReached, Reached, Grows
    <2> QED BY <2>1 DEF RowsKept
  <1>7. CallsKept'
    BY <1>1, <1>3, CallEnds DEF Inv
  <1>8. TablesTyped' /\ NoDebt' /\ GhostsTyped'
    BY <1>1, <1>2, GhostsStay DEF Inv, TablesTyped, NoDebt
  <1> QED BY <1>5, <1>6, <1>7, <1>8 DEF Inv

LEMMA KeepsFail == ASSUME Inv, NEW c \in Calls, Fail(c) PROVE Inv'
  <1>1. /\ InFlight(c) /\ failures' = failures + 1 /\ Leaves(c) /\ Ends(c)
        /\ UNCHANGED <<tables, pending, taken, drawn, settled>>
    BY DEF Fail
  <1>2. CallReached(loc[c], pc[c], Performed, Gone) /\ CallWellFormed(loc[c], pc[c])
    BY CallKnows
  <1>3. stray' \subseteq Txns
    BY <1>1, <1>2 DEF Leaves, CallReached, Inv, GhostsTyped
  <1>4. torn' \in [Receipts -> Int]
    <2> DEFINE n == Moved(loc[c])
    <2>1. n \in Int
      BY TakesTyped
    <2>2. torn' = torn \/ torn' = [torn EXCEPT ![loc[c].id] = @ + n]
      BY <1>1 DEF Leaves
    <2> HIDE DEF n
    <2> QED BY <2>1, <2>2 DEF Inv, GhostsTyped
  <1>5. GhostsTyped'
    BY <1>1, <1>3, <1>4 DEF Inv, GhostsTyped
  <1>6. Grows => CallsKept'
    BY <1>1, CallEnds DEF Inv
  <1> QED BY <1>1, <1>5, <1>6, ReadStep

LEMMA KeepsLoseStep == ASSUME Inv, NEW r \in Receipts, LoseStep(r) PROVE Inv'
  <1>1. /\ pending[r] > 0 /\ failures' = failures + 1 /\ pending' = [pending EXCEPT ![r] = @ - 1]
        /\ UNCHANGED <<tables, pc, loc, ghosts>>
    BY DEF LoseStep
  <1>2. UNCHANGED <<receipts, cards, books, register, blocked>>
    BY <1>1 DEF tables
  <1>3. Grows
    BY <1>2 DEF Grows, Performed, Gone
  <1>4. pending' \in [Receipts -> Nat] /\ \A q \in Receipts : pending'[q] > 0 => pending[q] > 0
    BY <1>1 DEF Inv
  <1>5. RowsKept'
    <2>1. ASSUME NEW q \in Receipts PROVE RowReached(q)'
      BY <1>2, <1>3, <1>4 DEF Inv, RowsKept, RowReached, Reached, Grows
    <2> QED BY <2>1 DEF RowsKept
  <1>6. CallsKept'
    BY <1>1, <1>3, CallsStay DEF Inv
  <1>7. TablesTyped' /\ NoDebt' /\ GhostsTyped'
    BY <1>1, <1>2 DEF Inv, TablesTyped, NoDebt, GhostsTyped, ghosts
  <1> QED BY <1>4, <1>5, <1>6, <1>7 DEF Inv

LEMMA KeepsSetBlocked == ASSUME Inv, SetBlocked PROVE Inv'
  <1>1. UNCHANGED <<receipts, cards, books, register, pending, pc, loc, ghosts, failures>>
        /\ blocked' = ~blocked
    BY DEF SetBlocked
  <1>2. Grows
    BY <1>1 DEF Grows, Performed, Gone
  <1>3. CallsKept'
    BY <1>1, <1>2, CallsStay DEF Inv
  <1>4. TablesTyped' /\ (pending \in [Receipts -> Nat])' /\ NoDebt'
    BY <1>1 DEF Inv, TablesTyped, NoDebt
  <1> QED BY <1>1, <1>2, <1>3, <1>4, RowsStay, GhostsStay DEF Inv

-----------------------------------------------------------------------------
LEMMA InitKeeps == ASSUME Init PROVE Inv
  <1>1. TablesTyped /\ GhostsTyped /\ pending \in [Receipts -> Nat] /\ NoDebt
    <2>1. [balance |-> CardBalance, removed |-> FALSE] \in CardRow /\ CardBalance \in Nat
          /\ RegisterBalance \in Int
      BY ServiceAssumption DEF CardRow
    <2>2. TablesTyped
      BY <2>1, NothingTyped DEF Init, TablesTyped
    <2>3. GhostsTyped /\ pending \in [Receipts -> Nat]
      BY DEF Init, GhostsTyped
    <2>4. NoDebt
      <3>1. ASSUME NEW k \in Cards PROVE cards[k].balance >= 0
        <4>1. cards[k].balance = CardBalance /\ CardBalance >= 0
          BY ServiceAssumption DEF Init
        <4> QED BY <4>1
      <3> QED BY <3>1 DEF NoDebt
    <2> QED BY <2>2, <2>3, <2>4
  <1>2. RowsKept
    BY NothingTyped DEF Init, RowsKept, RowReached, RowWellFormed, Begun, PayoutNamed, Left
  <1>3. CallsKept
    <2>1. CallWellFormed(NoCall, "idle") /\ CallReached(NoCall, "idle", Performed, Gone)
      BY NothingTyped DEF CallWellFormed, CallReached, Writes, PayoutNamed
    <2>2. "idle" \in Statements
      BY DEF Statements
    <2> QED BY <2>1, <2>2, NothingTyped DEF Init, CallsKept
  <1> QED BY <1>1, <1>2, <1>3 DEF Inv

LEMMA NextKeeps == ASSUME Inv, [Next]_vars PROVE Inv'
  <1>1. ASSUME NEW r \in Receipts, ReceiptsCreate(r) \/ LoseStep(r) PROVE Inv'
    BY <1>1, KeepsCreate, KeepsLoseStep
  <1>2. ASSUME NEW c \in Requests, Request(c) PROVE Inv'
    BY <1>2, KeepsPayBegin, KeepsOpenBegin, KeepsCompleteBegin, KeepsConfirmBegin,
       KeepsCancelBegin, KeepsRemoveBegin DEF Request
  <1>3. ASSUME NEW c \in Timers, NEW r \in Receipts, AdvanceBegin(c, r) PROVE Inv'
    BY <1>3, KeepsAdvanceBegin
  <1>4. ASSUME NEW c \in Calls, Step(c) \/ Fail(c) PROVE Inv'
    BY <1>4, KeepsOpen, KeepsPayCard, KeepsPayCreate, KeepsPayPerform, KeepsPayee, KeepsSettle,
       KeepsRefundCard, KeepsUpdateCard, KeepsStore, KeepsSchedule, KeepsFail DEF Step
  <1>5. CASE SetBlocked
    BY <1>5, KeepsSetBlocked
  <1>6. CASE UNCHANGED vars
    <2>1. UNCHANGED <<tables, pending, ghosts, failures, pc, loc>>
      BY <1>6 DEF vars, tables, ghosts
    <2>2. Grows => CallsKept'
      BY <2>1, CallsStay DEF Inv
    <2> QED BY <2>1, <2>2, GhostsStay, ReadStep
  <1> QED BY <1>1, <1>2, <1>3, <1>4, <1>5, <1>6 DEF Next

\* Under every schedule a receipt that walks, is paid or is refunded has a payment
\* the merchant performed (ReceiptsPay stores after PerformTransaction).
THEOREM BegunSafety == Spec => []BegunWasPerformed
  <1>1. Inv /\ [Next]_vars => Inv'
    BY NextKeeps
  <1> QED BY <1>1, InitKeeps, InvMeans, PTL DEF Spec

-----------------------------------------------------------------------------
(* Types, with what is remembered of copies and holds.                         *)
LEMMA MemoryStep == ASSUME Inv, MemoryTyped, [Next]_vars PROVE MemoryTyped'
  <1>1. CASE \E c \in Calls : PayCard(c) \/ Payee(c) \/ RefundCard(c)
    BY <1>1 DEF MemoryTyped, PayCard, Payee, RefundCard
  <1>2. CASE \E c \in Calls : PayCreate(c)
    BY <1>2 DEF MemoryTyped, PayCreate
  <1>3. ASSUME NEW c \in Calls, UpdateCard(c) PROVE MemoryTyped'
    <2>1. loc[c].card \in Cards
      BY <1>3, CallKnows DEF UpdateCard, CallWellFormed
    <2> QED BY <1>3, <2>1 DEF MemoryTyped, UpdateCard
  <1>4. CASE \E c \in Calls : Store(c)
    BY <1>4 DEF MemoryTyped, Store
  <1>5. CASE \E c \in Requests, k \in Cards : RemoveBegin(c, k)
    BY <1>5, CallSlots DEF MemoryTyped, RemoveBegin
  <1>6. CASE UNCHANGED memory
    BY <1>6 DEF MemoryTyped, memory
  <1>7. CASE \E c \in Calls : Step(c) \/ Fail(c)
    BY <1>1, <1>2, <1>3, <1>4, <1>6, <1>7
       DEF Step, Fail, Open, PayPerform, Settle, Schedule
  <1>8. CASE \E c \in Requests : Request(c)
    BY <1>5, <1>6, <1>8
       DEF Request, CompleteBegin, ConfirmBegin, CancelBegin, PayBegin, OpenBegin
  <1>9. CASE UNCHANGED vars
    BY <1>9 DEF MemoryTyped, vars
  <1> QED
    BY <1>6, <1>7, <1>8, <1>9 DEF Next, ReceiptsCreate, LoseStep, AdvanceBegin, SetBlocked

\* Under every schedule values stay in range and rows and calls name what they
\* were paid with (subscribe/application/service.go).
THEOREM ReceiptTypeSafety == Spec => []TypeOK
  <1>1. Init => Inv /\ MemoryTyped
    BY InitKeeps DEF Init, MemoryTyped
  <1>2. Inv /\ MemoryTyped /\ [Next]_vars => (Inv /\ MemoryTyped)'
    BY NextKeeps, MemoryStep
  <1>3. Inv /\ MemoryTyped => TypeOK
    BY InvMeans DEF TypeOK
  <1> QED BY <1>1, <1>2, <1>3, PTL DEF Spec

-----------------------------------------------------------------------------
(* No receipt in progress is left without a step to come.                      *)
Others(c) == \A d \in Calls \ {c} : pc'[d] = pc[d] /\ loc'[d] = loc[d]

LEMMA StepOthers == ASSUME Inv, NEW c \in Calls, Step(c) \/ Fail(c) PROVE Others(c)
  <1>1. pc \in [Calls -> Statements] /\ loc \in [Calls -> Call]
    BY DEF Inv, CallsKept
  <1>2. \E s : pc' = [pc EXCEPT ![c] = s]
    BY DEF Step, Fail, Open, PayCard, PayCreate, PayPerform, Payee, Settle, RefundCard,
           UpdateCard, Store, Schedule, Ends, Goto
  <1>3. CASE Ends(c) \/ UNCHANGED loc
    BY <1>1, <1>2, <1>3 DEF Ends, Others
  <1>4. CASE PayCard(c) \/ PayCreate(c) \/ Payee(c) \/ RefundCard(c)
    <2>1. \A d \in Calls \ {c} : loc'[d] = loc[d]
      BY <1>1, <1>4 DEF PayCard, PayCreate, Payee, RefundCard, Ends
    <2> QED BY <1>1, <1>2, <2>1 DEF Others
  <1> QED
    BY <1>3, <1>4 DEF Step, Fail, Open, PayPerform, Settle, UpdateCard, Store, Schedule

LEMMA RequestOthers ==
    ASSUME Inv, NEW c \in Requests, Request(c) PROVE Others(c) /\ pc[c] = "idle"
  <1>1. pc \in [Calls -> Statements] /\ loc \in [Calls -> Call] /\ c \in Calls
    BY CallSlots DEF Inv, CallsKept
  <1>2. /\ pc[c] = "idle"
        /\ \E s : pc' = [pc EXCEPT ![c] = s]
        /\ \E l : loc' = [loc EXCEPT ![c] = l]
    BY DEF Request, CompleteBegin, ConfirmBegin, CancelBegin, RemoveBegin, PayBegin, OpenBegin,
           MayBegin, Begins, Goto
  <1> QED BY <1>1, <1>2 DEF Others

StepToCome(r) ==
    \/ pending[r] > 0
    \/ \E c \in Calls : /\ loc[c].id = r
                        /\ \/ pc[c] = "schedule"
                           \/ pc[c] = "store" /\ loc[c].op = "Advance"

LEMMA WalkMeans ==
    WalkHasAStep <=> (failures = 0 =>
        \A r \in Receipts : InProgress(receipts[r].state) => StepToCome(r))
  BY DEF WalkHasAStep, StepToCome

\* A call at another statement takes no step away.
LEMMA StepStays ==
    ASSUME NEW r \in Receipts, StepToCome(r), NEW c \in Calls, Others(c), UNCHANGED pending,
           pc[c] \notin {"schedule", "store"}
    PROVE  StepToCome(r)'
  BY DEF StepToCome, Others

LEMMA WalkStep ==
    ASSUME Inv, WalkHasAStep, NEW c \in Calls, Others(c), UNCHANGED <<pending, failures>>,
           pc[c] \notin {"schedule", "store"},
           \A r \in Receipts : InProgress(receipts'[r].state) => InProgress(receipts[r].state)
    PROVE  WalkHasAStep'
  <1> SUFFICES ASSUME failures = 0, NEW r \in Receipts, InProgress(receipts'[r].state)
               PROVE  StepToCome(r)'
    BY WalkMeans DEF StepToCome, WalkHasAStep
  <1>1. StepToCome(r)
    BY WalkMeans
  <1> QED BY <1>1, StepStays

LEMMA WalkAtStore == ASSUME Inv, WalkHasAStep, NEW c \in Calls, Store(c) PROVE WalkHasAStep'
  <1> SUFFICES ASSUME failures = 0, NEW r \in Receipts, InProgress(receipts'[r].state)
               PROVE  StepToCome(r)'
    BY DEF StepToCome, WalkHasAStep, Store
  <1>1. /\ pc[c] = "store" /\ loc[c].id \in Receipts /\ UNCHANGED <<pending, failures>>
        /\ receipts' = [receipts EXCEPT ![loc[c].id] = loc[c].row]
        /\ CallWellFormed(loc[c], "store") /\ CallReached(loc[c], "store", Performed, Gone)
    BY CallKnows DEF Store, CallWellFormed
  <1>2. Others(c)
    BY StepOthers DEF Step
  <1>3. CASE r = loc[c].id
    <2>1. InProgress(loc[c].row.state)
      BY <1>1, <1>3 DEF Inv, TablesTyped
    <2>2. Schedules(loc[c])
      BY <1>1, <2>1 DEF CallReached, Writes, Schedules, InProgress, Terminal
    <2>3. pc' = [pc EXCEPT ![c] = "schedule"] /\ UNCHANGED loc
      BY <2>2 DEF Store, Goto
    <2> QED BY <1>3, <2>3 DEF StepToCome, Inv, CallsKept
  <1>4. CASE r # loc[c].id
    <2>1. StepToCome(r)
      BY <1>1, <1>4, WalkMeans DEF Inv, TablesTyped
    <2> QED BY <1>1, <1>2, <1>4, <2>1 DEF StepToCome, Others
  <1> QED BY <1>3, <1>4

LEMMA WalkAtSchedule == ASSUME Inv, WalkHasAStep, NEW c \in Calls, Schedule(c) PROVE WalkHasAStep'
  <1> SUFFICES ASSUME failures = 0, NEW r \in Receipts, InProgress(receipts'[r].state)
               PROVE  StepToCome(r)'
    BY DEF StepToCome, WalkHasAStep, Schedule
  <1>1. /\ pc[c] = "schedule" /\ loc[c].id \in Receipts /\ UNCHANGED <<receipts, failures>>
        /\ pending' = [pending EXCEPT ![loc[c].id] = @ + 1] /\ pending \in [Receipts -> Nat]
    BY CallKnows DEF Schedule, CallWellFormed, tables, Inv
  <1>2. StepToCome(r) /\ Others(c)
    BY <1>1, WalkMeans, StepOthers DEF Step
  <1>3. CASE r = loc[c].id
    BY <1>1, <1>3 DEF StepToCome
  <1>4. CASE r # loc[c].id
    BY <1>1, <1>2, <1>4 DEF StepToCome, Others
  <1> QED BY <1>3, <1>4

LEMMA WalkAtAdvance ==
    ASSUME Inv, WalkHasAStep, NEW c \in Timers, NEW q \in Receipts, AdvanceBegin(c, q)
    PROVE  WalkHasAStep'
  <1> SUFFICES ASSUME failures = 0, NEW r \in Receipts, InProgress(receipts'[r].state)
               PROVE  StepToCome(r)'
    BY DEF StepToCome, WalkHasAStep, AdvanceBegin
  <1>1. /\ pc[c] = "idle" /\ c \in Calls /\ UNCHANGED <<receipts, failures>>
        /\ pending' = [pending EXCEPT ![q] = @ - 1] /\ pending \in [Receipts -> Nat]
        /\ pc \in [Calls -> Statements] /\ loc \in [Calls -> Call]
    BY CallSlots DEF AdvanceBegin, MayBegin, tables, Inv, CallsKept
  <1>2. StepToCome(r)
    BY <1>1, WalkMeans
  <1>3. CASE r = q
    <2>1. CanAdvance(receipts[q])
      BY <1>1, <1>3 DEF CanAdvance, Progression, InProgress
    <2>2. Begins(c, "Advance", q, Advanced(receipts[q]), NoCard, "store")
      BY <2>1 DEF AdvanceBegin
    <2> DEFINE l == [NoCall EXCEPT !.op = "Advance", !.id = q, !.row = Advanced(receipts[q]),
                                   !.card = NoCard]
    <2>3. l.op = "Advance" /\ l.id = q
      BY DEF NoCall
    <2>4. loc' = [loc EXCEPT ![c] = l] /\ pc' = [pc EXCEPT ![c] = "store"]
      BY <2>2 DEF Begins, Goto
    <2> HIDE DEF l
    <2>5. pc'[c] = "store" /\ loc'[c].op = "Advance" /\ loc'[c].id = q
      BY <1>1, <2>3, <2>4
    <2> QED BY <1>1, <1>3, <2>5 DEF StepToCome
  <1>4. CASE r # q
    <2>1. Others(c)
      <3>1. /\ UNCHANGED pc \/ \E s : pc' = [pc EXCEPT ![c] = s]
            /\ UNCHANGED loc \/ \E l : loc' = [loc EXCEPT ![c] = l]
        BY DEF AdvanceBegin, Begins, Goto
      <3> QED BY <1>1, <3>1 DEF Others
    <2> QED BY <1>1, <1>2, <1>4, <2>1 DEF StepToCome, Others
  <1> QED BY <1>3, <1>4

LEMMA WalkNext == ASSUME Inv, WalkHasAStep, [Next]_vars PROVE WalkHasAStep'
  <1>1. CASE failures' # 0
    BY <1>1 DEF WalkHasAStep
  <1>2. ASSUME NEW r \in Receipts, ReceiptsCreate(r) PROVE WalkHasAStep'
    <2>1. \A q \in Receipts : InProgress(receipts'[q].state) => InProgress(receipts[q].state)
      <3>1. PICK hold \in BOOLEAN : receipts' = [receipts EXCEPT ![r] = NewReceipt(hold)]
        BY <1>2 DEF ReceiptsCreate
      <3>2. NewReceipt(hold).state = StateCreated
        BY DEF NewReceipt, NoReceipt
      <3> QED BY <3>1, <3>2 DEF Inv, TablesTyped, InProgress
    <2> QED BY <1>2, <2>1 DEF ReceiptsCreate, WalkHasAStep
  <1>3. ASSUME NEW c \in Requests, Request(c) PROVE WalkHasAStep'
    <2>1. Others(c) /\ pc[c] = "idle" /\ c \in Calls
      BY <1>3, RequestOthers, CallSlots
    <2>2. \A q \in Receipts : InProgress(receipts'[q].state) => InProgress(receipts[q].state)
      <3>1. CASE UNCHANGED receipts
        BY <3>1
      <3>2. ASSUME NEW r \in Receipts, NEW k \in Cards, OpenBegin(c, r, k)
            PROVE  \A q \in Receipts : InProgress(receipts'[q].state) => InProgress(receipts[q].state)
        <4>1. PICK t \in Txns : receipts' = [receipts EXCEPT ![r] = NewPayout(k, t)]
          BY <3>2 DEF OpenBegin
        <4>2. NewPayout(k, t).state = StateCreated
          BY DEF NewPayout, NoReceipt
        <4> QED BY <4>1, <4>2 DEF Inv, TablesTyped, InProgress
      <3> QED
        BY <1>3, <3>1, <3>2
        DEF Request, CompleteBegin, ConfirmBegin, CancelBegin, RemoveBegin, PayBegin, tables
    <2>3. UNCHANGED <<pending, failures>>
      BY <1>3 DEF Request, CompleteBegin, ConfirmBegin, CancelBegin, RemoveBegin, PayBegin, OpenBegin
    <2> QED BY <2>1, <2>2, <2>3, WalkStep
  <1>4. ASSUME NEW c \in Timers, NEW r \in Receipts, AdvanceBegin(c, r) PROVE WalkHasAStep'
    BY <1>4, WalkAtAdvance
  <1>5. ASSUME NEW c \in Calls, Step(c) PROVE WalkHasAStep'
    <2>1. CASE Store(c) \/ Schedule(c)
      BY <2>1, WalkAtStore, WalkAtSchedule
    <2>2. CASE ~(Store(c) \/ Schedule(c))
      <3>1. UNCHANGED <<receipts, pending, failures>> /\ pc[c] \notin {"schedule", "store"}
        BY <1>5, <2>2 DEF Step, Open, PayCard, PayCreate, PayPerform, Payee, Settle, RefundCard,
                          UpdateCard, tables
      <3> QED BY <1>5, <3>1, StepOthers, WalkStep
    <2> QED BY <2>1, <2>2
  <1>6. CASE SetBlocked \/ UNCHANGED vars
    <2>1. UNCHANGED <<receipts, pending, pc, loc, failures>>
      BY <1>6 DEF SetBlocked, vars
    <2> QED BY <2>1 DEF WalkHasAStep
  <1>7. ASSUME (\E r \in Receipts : LoseStep(r)) \/ (\E c \in Calls : Fail(c)) PROVE failures' # 0
    BY <1>7 DEF LoseStep, Fail, Inv, GhostsTyped
  <1> QED BY <1>1, <1>2, <1>3, <1>4, <1>5, <1>6, <1>7 DEF Next

\* Under every schedule, until a call fails or the process restarts, a receipt in
\* progress has a background step to come (AdvanceReceipt, scheduler).
THEOREM WalkSafety == Spec => []WalkHasAStep
  <1>1. Init => Inv /\ WalkHasAStep
    <2> SUFFICES ASSUME Init PROVE WalkHasAStep
      BY InitKeeps
    <2>1. \A r \in Receipts : ~InProgress(receipts[r].state)
      BY NothingTyped DEF Init, InProgress
    <2> QED BY <2>1 DEF WalkHasAStep
  <1>2. Inv /\ WalkHasAStep /\ [Next]_vars => (Inv /\ WalkHasAStep)'
    BY NextKeeps, WalkNext
  <1> QED BY <1>1, <1>2, PTL DEF Spec
-----------------------------------------------------------------------------
(* What is drawn from a card, under every schedule.                            *)

\* The card a call will write is the card as it is, less what the call takes.
PurseOf(call, card) ==
    /\ call.op = "Pay" => call.purse.balance = card.balance - Amount[call.id]
    /\ call.op \in {"Complete", "Cancel"} => call.purse.balance = card.balance + Amount[call.id]
    /\ call.op = "Remove" => call.purse.balance = card.balance

Carrying == {"create", "perform", "settle", "update"}

\* So it is until another call writes the card.
Purses ==
    \A c \in Calls \ overtaken : pc[c] \in Carrying => PurseOf(loc[c], cards[loc[c].card])

\* A step that writes no card.
LEMMA PursesStay ==
    ASSUME Purses, CardsAddUp, NEW c \in Calls, Others(c), UNCHANGED <<cards, drawn, crossed>>,
           overtaken \subseteq overtaken' \cup {c},
           c \notin overtaken' /\ pc'[c] \in Carrying => PurseOf(loc'[c], cards[loc'[c].card])
    PROVE  (Purses /\ CardsAddUp)'
  <1>1. CardsAddUp'
    BY DEF CardsAddUp
  <1>2. ASSUME NEW d \in Calls, d \notin overtaken', pc'[d] \in Carrying
        PROVE  PurseOf(loc'[d], cards[loc'[d].card])
    <2>1. CASE d = c
      BY <1>2, <2>1
    <2>2. CASE d # c
      BY <1>2, <2>2 DEF Others, Purses
    <2> QED BY <2>1, <2>2
  <1> QED BY <1>1, <1>2 DEF Purses, PurseOf

\* A statement that reads the card under the call's hands.
LEMMA PurseRead ==
    ASSUME Inv, NEW c \in Calls, PayCard(c) \/ Payee(c) \/ RefundCard(c), pc'[c] \in Carrying
    PROVE  PurseOf(loc'[c], cards[loc'[c].card])
  <1>1. /\ loc[c] \in Call /\ loc[c].id \in Receipts /\ loc[c].card \in Cards
        /\ CallWellFormed(loc[c], pc[c])
    BY CallKnows DEF PayCard, Payee, RefundCard, CallWellFormed
  <1>2. cards[loc[c].card] \in CardRow /\ Amount[loc[c].id] \in Nat
    BY <1>1, GhostsKnown, ServiceAssumption
  <1>3. CASE PayCard(c)
    <2>1. loc[c].op = "Pay" /\ ~Ends(c)
      BY <1>1, <1>3, GhostsKnown DEF PayCard, CallWellFormed, Ends, Goto, Carrying
    <2> DEFINE purse == Charged(cards[loc[c].card], Amount[loc[c].id])
    <2>2. purse.balance = cards[loc[c].card].balance - Amount[loc[c].id]
      BY <1>2, PursesTyped
    <2>3. PICK hold \in BOOLEAN :
             loc' = [loc EXCEPT ![c].row = BeginPay(loc[c].row, loc[c].card, hold),
                                ![c].purse = purse]
      BY <1>3, <2>1 DEF PayCard
    <2> HIDE DEF purse
    <2>4. loc'[c].op = "Pay" /\ loc'[c].id = loc[c].id /\ loc'[c].card = loc[c].card
          /\ loc'[c].purse = purse
      BY <1>1, <2>1, <2>3, GhostsKnown DEF Call
    <2> QED BY <2>2, <2>4 DEF PurseOf
  <1>4. CASE Payee(c)
    <2>1. loc[c].op = "Complete" /\ ~Ends(c)
      BY <1>1, <1>4, GhostsKnown DEF Payee, CallWellFormed, Ends, Goto, Carrying
    <2> DEFINE purse == Credited(cards[loc[c].card], Amount[loc[c].id])
    <2>2. purse.balance = cards[loc[c].card].balance + Amount[loc[c].id]
      BY <1>2, PursesTyped
    <2>3. loc' = [loc EXCEPT ![c].row = Completed(loc[c].row), ![c].purse = purse]
      BY <1>4, <2>1 DEF Payee
    <2> HIDE DEF purse
    <2>4. loc'[c].op = "Complete" /\ loc'[c].id = loc[c].id /\ loc'[c].card = loc[c].card
          /\ loc'[c].purse = purse
      BY <1>1, <2>1, <2>3, GhostsKnown DEF Call
    <2> QED BY <2>2, <2>4 DEF PurseOf
  <1>5. CASE RefundCard(c)
    <2>1. loc[c].op = "Cancel"
      BY <1>1, <1>5 DEF RefundCard, CallWellFormed
    <2> DEFINE purse == Credited(cards[loc[c].card], Amount[loc[c].id])
    <2>2. purse.balance = cards[loc[c].card].balance + Amount[loc[c].id]
      BY <1>2, PursesTyped
    <2>3. loc' = [loc EXCEPT ![c].purse = purse]
      BY <1>5, GhostsKnown DEF RefundCard, Goto, Carrying
    <2> HIDE DEF purse
    <2>4. loc'[c].op = "Cancel" /\ loc'[c].id = loc[c].id /\ loc'[c].card = loc[c].card
          /\ loc'[c].purse = purse
      BY <1>1, <2>1, <2>3, GhostsKnown DEF Call
    <2> QED BY <2>2, <2>4 DEF PurseOf
  <1> QED BY <1>3, <1>4, <1>5

\* A statement between reading the card and writing it.
LEMMA PurseCarried ==
    ASSUME Inv, Purses, NEW c \in Calls \ overtaken, PayCreate(c) \/ PayPerform(c) \/ Settle(c),
           pc'[c] \in Carrying
    PROVE  PurseOf(loc'[c], cards[loc'[c].card])
  <1>1. pc[c] \in Carrying /\ ~Ends(c)
    BY GhostsKnown DEF PayCreate, PayPerform, Settle, Ends, Goto, Carrying
  <1>2. PurseOf(loc[c], cards[loc[c].card])
    BY <1>1 DEF Purses
  <1>3. /\ loc'[c].op = loc[c].op /\ loc'[c].id = loc[c].id /\ loc'[c].card = loc[c].card
        /\ loc'[c].purse = loc[c].purse
    <2>1. CASE PayCreate(c)
      <3>1. PICK t \in Txns : loc' = [loc EXCEPT ![c].row.txn = t]
        BY <1>1, <2>1 DEF PayCreate
      <3> QED BY <3>1, GhostsKnown DEF Call
    <2>2. CASE PayPerform(c) \/ Settle(c)
      BY <1>1, <2>2 DEF PayPerform, Settle
    <2> QED BY <2>1, <2>2
  <1> QED BY <1>2, <1>3 DEF PurseOf

LEMMA CardWritten ==
    ASSUME Inv, Purses, CardsAddUp, NEW c \in Calls, UpdateCard(c)
    PROVE  (Purses /\ CardsAddUp)'
  <1> DEFINE k == loc[c].card
             r == loc[c].id
  <1>1. /\ pc[c] = "update" /\ k \in Cards /\ loc[c] \in Call
        /\ loc[c].op \in {"Pay", "Complete", "Cancel", "Remove"}
        /\ loc[c].op # "Remove" => r \in Receipts
    BY CallKnows DEF UpdateCard, CallWellFormed
  <1>2. /\ cards' = [cards EXCEPT ![k] = loc[c].purse]
        /\ overtaken' = (overtaken \ {c}) \cup {d \in Calls \ {c} : Carries(d, k)}
        /\ crossed' = IF c \in overtaken THEN crossed \cup {k} ELSE crossed
    BY DEF UpdateCard
  <1>3. Others(c) /\ pc'[c] \notin Carrying
    <2>1. pc'[c] \in {"idle", "store"}
      BY GhostsKnown DEF UpdateCard, Ends, Goto
    <2> QED BY <2>1, StepOthers DEF Step, Carrying
  <1>4. Purses'
    <2> SUFFICES ASSUME NEW d \in Calls, d \notin overtaken', pc'[d] \in Carrying
                 PROVE  PurseOf(loc'[d], cards'[loc'[d].card])
      BY DEF Purses
    <2>1. d # c /\ pc'[d] = pc[d] /\ loc'[d] = loc[d]
      BY <1>3 DEF Others
    <2>2. ~Carries(d, k) /\ d \notin overtaken
      BY <1>2, <2>1
    <2>3. loc[d].card # k /\ loc[d].card \in Cards
      <3>1. loc[d].card \in Cards
        BY <2>1, CallKnows DEF CallWellFormed, Carrying
      <3> QED BY <2>1, <2>2, <3>1 DEF Carries, Carrying
    <2>4. cards'[loc[d].card] = cards[loc[d].card]
      BY <1>2, <2>3, GhostsKnown
    <2>5. PurseOf(loc[d], cards[loc[d].card])
      BY <2>1, <2>2 DEF Purses
    <2> QED BY <2>1, <2>4, <2>5
  <1>5. CardsAddUp'
    <2> SUFFICES ASSUME NEW j \in Cards, j \notin crossed'
                 PROVE  cards'[j].balance = CardBalance - drawn'[j]
      BY DEF CardsAddUp
    <2>1. j \notin crossed /\ cards[j].balance = CardBalance - drawn[j]
      BY <1>2 DEF CardsAddUp
    <2>2. CardBalance \in Int /\ drawn[j] \in Int /\ cards[j].balance \in Int
      BY ServiceAssumption, GhostsKnown DEF CardRow
    <2>3. CASE j # k
      <3>1. cards'[j] = cards[j] /\ drawn'[j] = drawn[j]
        BY <1>2, <2>3, GhostsKnown DEF UpdateCard
      <3> QED BY <2>1, <3>1
    <2>4. CASE j = k
      <3>1. c \notin overtaken
        BY <1>2, <2>4
      <3>2. PurseOf(loc[c], cards[j]) /\ cards'[j].balance = loc[c].purse.balance
        BY <1>1, <1>2, <2>4, <3>1, GhostsKnown DEF Purses, Carrying
      <3>3. CASE loc[c].op = "Remove"
        <4>1. drawn' = drawn
          BY <3>3 DEF UpdateCard
        <4> QED BY <2>1, <3>2, <3>3, <4>1 DEF PurseOf
      <3>4. CASE loc[c].op # "Remove"
        <4> DEFINE gone == Takes(loc[c]) * Amount[r]
        <4>1. Amount[r] \in Int
          BY <1>1, <3>4, ServiceAssumption
        <4>2. gone \in Int /\ loc[c].purse.balance = cards[j].balance - gone
          <5>1. CASE loc[c].op = "Pay"
            <6>1. Takes(loc[c]) = 1
              BY <5>1 DEF Takes
            <6>2. gone = Amount[r]
              BY <4>1, <6>1
            <6> QED BY <2>2, <3>2, <4>1, <5>1, <6>2 DEF PurseOf
          <5>2. CASE loc[c].op \in {"Complete", "Cancel"}
            <6>1. Takes(loc[c]) = -1
              BY <5>2 DEF Takes
            <6>2. gone = -Amount[r]
              BY <4>1, <6>1
            <6> QED BY <2>2, <3>2, <4>1, <5>2, <6>2 DEF PurseOf
          <5> QED BY <1>1, <3>4, <5>1, <5>2
        <4>3. drawn' = [drawn EXCEPT ![k] = @ + gone]
          BY <3>4 DEF UpdateCard
        <4> HIDE DEF gone
        <4>4. drawn'[j] = drawn[j] + gone
          BY <2>4, <4>3, GhostsKnown
        <4> QED BY <2>1, <2>2, <3>2, <4>2, <4>4
      <3> QED BY <3>3, <3>4
    <2> QED BY <2>3, <2>4
  <1> QED BY <1>4, <1>5

LEMMA CardsNext ==
    ASSUME Inv, Purses, CardsAddUp, [Next]_vars PROVE (Purses /\ CardsAddUp)'
  <1>1. CASE UNCHANGED <<cards, drawn, crossed, overtaken, pc, loc>>
    BY <1>1 DEF Purses, CardsAddUp, PurseOf
  <1>2. ASSUME NEW c \in Calls, Step(c) \/ Fail(c) PROVE (Purses /\ CardsAddUp)'
    <2>1. Others(c)
      BY <1>2, StepOthers
    <2>2. CASE PayCard(c) \/ Payee(c) \/ RefundCard(c)
      <3>1. UNCHANGED <<cards, drawn, crossed>> /\ overtaken' = overtaken \ {c}
        BY <2>2 DEF PayCard, Payee, RefundCard, tables, ghosts
      <3> QED BY <2>1, <2>2, <3>1, PurseRead, PursesStay
    <2>3. CASE PayCreate(c) \/ PayPerform(c) \/ Settle(c)
      <3>1. UNCHANGED <<cards, drawn, crossed, overtaken>>
        BY <2>3 DEF PayCreate, PayPerform, Settle, ghosts, memory
      <3> QED BY <2>1, <2>3, <3>1, PurseCarried, PursesStay
    <2>4. CASE UpdateCard(c)
      BY <2>4, CardWritten
    <2>5. CASE Open(c) \/ Store(c) \/ Schedule(c) \/ Fail(c)
      <3>1. UNCHANGED <<cards, drawn, crossed, overtaken>>
        BY <2>5 DEF Open, Store, Schedule, Fail, tables, ghosts, memory
      <3>2. pc'[c] \in {"idle", "schedule"}
        BY <2>5, GhostsKnown DEF Open, Store, Schedule, Fail, Ends, Goto
      <3> QED BY <2>1, <3>1, <3>2, PursesStay DEF Carrying
    <2> QED BY <1>2, <2>2, <2>3, <2>4, <2>5 DEF Step
  <1>3. ASSUME NEW c \in Requests, Request(c) PROVE (Purses /\ CardsAddUp)'
    <2>1. Others(c) /\ c \in Calls /\ pc[c] = "idle"
      BY <1>3, RequestOthers, CallSlots
    <2>2. ASSUME NEW k \in Cards, RemoveBegin(c, k) PROVE (Purses /\ CardsAddUp)'
      <3>1. UNCHANGED <<cards, drawn, crossed>> /\ overtaken' = overtaken \ {c}
        BY <2>2 DEF RemoveBegin, tables, ghosts
      <3> DEFINE purse == [cards[k] EXCEPT !.removed = TRUE]
      <3>2. purse.balance = cards[k].balance
        BY GhostsKnown DEF CardRow
      <3>3. loc' = [loc EXCEPT ![c] = [NoCall EXCEPT !.op = "Remove", !.card = k,
                                                     !.purse = purse]]
        BY <2>2 DEF RemoveBegin
      <3> HIDE DEF purse
      <3>4. loc'[c].op = "Remove" /\ loc'[c].card = k /\ loc'[c].purse = purse
        BY <2>1, <3>3, GhostsKnown DEF NoCall
      <3>5. PurseOf(loc'[c], cards[loc'[c].card])
        BY <3>2, <3>4 DEF PurseOf
      <3> QED BY <2>1, <3>1, <3>5, PursesStay
    <2>3. CASE \/ \E r \in Receipts : CompleteBegin(c, r) \/ ConfirmBegin(c, r) \/ CancelBegin(c, r)
               \/ \E k \in Cards, r \in Receipts : PayBegin(c, r, k) \/ OpenBegin(c, r, k)
      <3>1. UNCHANGED <<cards, drawn, crossed, overtaken>>
        BY <2>3 DEF CompleteBegin, ConfirmBegin, CancelBegin, PayBegin, OpenBegin,
                    tables, ghosts, memory
      <3>2. pc'[c] \in {"payee", "store", "refund", "card", "open"}
        BY <2>1, <2>3, GhostsKnown DEF CompleteBegin, ConfirmBegin, CancelBegin, PayBegin,
                                       OpenBegin, Begins, Goto
      <3> QED BY <2>1, <3>1, <3>2, PursesStay DEF Carrying
    <2> QED BY <1>3, <2>2, <2>3 DEF Request
  <1>4. ASSUME NEW c \in Timers, NEW r \in Receipts, AdvanceBegin(c, r)
        PROVE  (Purses /\ CardsAddUp)'
    <2>1. UNCHANGED <<cards, drawn, crossed, overtaken>> /\ c \in Calls
      BY <1>4, CallSlots DEF AdvanceBegin, tables, ghosts, memory
    <2>2. CASE UNCHANGED <<pc, loc>>
      BY <1>1, <2>1, <2>2
    <2>3. CASE Begins(c, "Advance", r, Advanced(receipts[r]), NoCard, "store")
      <3>1. Others(c) /\ pc'[c] = "store"
        BY <2>1, <2>3, GhostsKnown DEF Begins, Goto, Others
      <3> QED BY <2>1, <3>1, PursesStay DEF Carrying
    <2> QED BY <1>4, <2>2, <2>3 DEF AdvanceBegin
  <1>5. CASE SetBlocked \/ (\E r \in Receipts : ReceiptsCreate(r) \/ LoseStep(r)) \/ UNCHANGED vars
    BY <1>1, <1>5 DEF SetBlocked, ReceiptsCreate, LoseStep, tables, ghosts, memory, vars
  <1> QED BY <1>2, <1>3, <1>4, <1>5 DEF Next

LEMMA CardsSafety == Spec => [](Inv /\ Purses /\ CardsAddUp)
  <1>1. Init => Inv /\ Purses /\ CardsAddUp
    <2> SUFFICES ASSUME Init PROVE Purses /\ CardsAddUp
      BY InitKeeps
    <2>1. Purses
      BY DEF Init, Purses, Carrying
    <2>2. ASSUME NEW k \in Cards PROVE cards[k].balance = CardBalance - drawn[k]
      <3>1. cards[k].balance = CardBalance
        BY DEF Init
      <3>2. drawn[k] = 0 /\ CardBalance \in Int
        BY ServiceAssumption DEF Init
      <3> QED BY <3>1, <3>2
    <2> QED BY <2>2, <2>1 DEF CardsAddUp
  <1>2. Inv /\ Purses /\ CardsAddUp /\ [Next]_vars => (Inv /\ Purses /\ CardsAddUp)'
    BY NextKeeps, CardsNext
  <1> QED BY <1>1, <1>2, PTL DEF Spec

\* Under every schedule, with failures and restarts, a card holds what it held less
\* everything drawn from it, unless a call has written it from a copy that another
\* write had overtaken (cards.Update).
THEOREM CardSafety == Spec => []CardsAddUp
  BY CardsSafety, PTL

\* Under every schedule no more is drawn from a card than it held, with the same
\* exception: Usable is asked statements before the charge, and not again.
THEOREM NoOverdraft == Spec => []CardsNeverOverdrawn
  <1>1. Inv /\ Purses /\ CardsAddUp => CardsNeverOverdrawn
    <2> SUFFICES ASSUME Inv, CardsAddUp, NEW k \in Cards, k \notin crossed
                 PROVE  drawn[k] <= CardBalance
      BY DEF CardsNeverOverdrawn
    <2>1. cards[k].balance = CardBalance - drawn[k] /\ cards[k].balance >= 0
      BY DEF Inv, NoDebt, CardsAddUp
    <2>2. CardBalance \in Int /\ drawn[k] \in Int
      BY ServiceAssumption, GhostsKnown
    <2> QED BY <2>1, <2>2
  <1> QED BY <1>1, CardsSafety, PTL

-----------------------------------------------------------------------------
(* Money on hold, under every schedule.                                        *)

\* A row of a payment whose hold nobody has confirmed.
Holds(row, unconfirmed) ==
    row.txn \in unconfirmed => row.hold /\ row.state \notin {Absent, StateCreated, StatePaid}

HoldsKept ==
    /\ \A t \in onHold : t \in Txns /\ books[t] # "none"
    /\ \A r \in Receipts : Holds(receipts[r], onHold)
    /\ \A c \in Calls : loc[c].op = "Confirm" \/ Holds(loc[c].row, onHold)

\* A step after which no new payment is on hold.
LEMMA HoldStep ==
    ASSUME HoldsKept, onHold' \subseteq onHold,
           \A t \in Txns : books[t] # "none" => books'[t] # "none",
           \A r \in Receipts : receipts'[r] = receipts[r] \/ Holds(receipts'[r], onHold'),
           \A c \in Calls : \/ loc'[c].op = loc[c].op /\ loc'[c].row = loc[c].row
                            \/ loc'[c].op = "Confirm" \/ Holds(loc'[c].row, onHold')
    PROVE  HoldsKept'
  <1>1. \A t \in onHold' : t \in Txns /\ books'[t] # "none"
    BY DEF HoldsKept
  <1>2. \A r \in Receipts : Holds(receipts'[r], onHold')
    BY DEF HoldsKept, Holds
  <1>3. \A c \in Calls : loc'[c].op = "Confirm" \/ Holds(loc'[c].row, onHold')
    BY DEF HoldsKept, Holds
  <1> QED BY <1>1, <1>2, <1>3 DEF HoldsKept

\* A call that is begun or ends, or goes on with another row.
LEMMA HoldCall ==
    ASSUME Inv, HoldsKept, NEW c \in Calls, Others(c), UNCHANGED <<receipts, books, onHold>>,
           \/ loc'[c].op = loc[c].op /\ loc'[c].row = loc[c].row
           \/ loc'[c].op = "Confirm" \/ Holds(loc'[c].row, onHold)
    PROVE  HoldsKept'
  BY HoldStep DEF Others

LEMMA NothingHolds == ASSUME HoldsKept PROVE Holds(NoCall.row, onHold) /\ NoTxn \notin onHold
  BY NothingTyped, ReceiptAssumption DEF HoldsKept, Holds, NoReceipt

LEMMA HoldAtRequest ==
    ASSUME Inv, HoldsKept, NEW c \in Requests, Request(c) PROVE HoldsKept'
  <1>1. Others(c) /\ c \in Calls /\ pc \in [Calls -> Statements] /\ loc \in [Calls -> Call]
    BY RequestOthers, GhostsKnown, CallSlots
  <1>2. ASSUME NEW r \in Receipts, CompleteBegin(c, r) \/ ConfirmBegin(c, r) \/ CancelBegin(c, r)
        PROVE  HoldsKept'
    <2>1. UNCHANGED <<receipts, books, onHold>>
      BY <1>2 DEF CompleteBegin, ConfirmBegin, CancelBegin, tables, memory
    <2>2. Holds(receipts[r], onHold) /\ receipts[r] \in ReceiptRow
      BY RowKnows DEF HoldsKept
    <2>3. CASE CompleteBegin(c, r)
      <3>1. loc'[c].row = receipts[r]
        BY <1>1, <2>3 DEF CompleteBegin, Begins, NoCall
      <3> QED BY <1>1, <2>1, <2>2, <3>1, HoldCall
    <2>4. CASE ConfirmBegin(c, r)
      <3>1. loc'[c].op = "Confirm"
        BY <1>1, <2>4 DEF ConfirmBegin, Begins, NoCall
      <3> QED BY <1>1, <2>1, <3>1, HoldCall
    <2>5. CASE CancelBegin(c, r)
      <3> DEFINE row == Cancelled(receipts[r])
      <3>1. row.txn = receipts[r].txn /\ row.hold = receipts[r].hold
            /\ row.state \in {StateCancelled, StateCancelQueued}
        BY <2>2 DEF Cancelled, ReceiptRow
      <3> HIDE DEF row
      <3>2. loc'[c].row = row
        BY <1>1, <2>5 DEF CancelBegin, Begins, NoCall, row
      <3>3. Holds(row, onHold)
        BY <2>2, <3>1 DEF Holds
      <3> QED BY <1>1, <2>1, <3>2, <3>3, HoldCall
    <2> QED BY <1>2, <2>3, <2>4, <2>5
  <1>3. ASSUME NEW r \in Receipts, NEW k \in Cards, PayBegin(c, r, k) PROVE HoldsKept'
    <2>1. UNCHANGED <<receipts, books, onHold>> /\ Holds(receipts[r], onHold)
      BY <1>3 DEF PayBegin, tables, memory, HoldsKept
    <2>2. loc'[c].row = receipts[r]
      BY <1>1, <1>3 DEF PayBegin, Begins, NoCall
    <2> QED BY <1>1, <2>1, <2>2, HoldCall
  <1>4. ASSUME NEW r \in Receipts, NEW k \in Cards, OpenBegin(c, r, k) PROVE HoldsKept'
    <2>1. PICK t \in Txns : /\ Fresh(t) /\ receipts' = [receipts EXCEPT ![r] = NewPayout(k, t)]
                            /\ Begins(c, "Open", r, NewPayout(k, t), k, "open")
      BY <1>4 DEF OpenBegin
    <2>2. UNCHANGED <<books, onHold>>
      BY <1>4 DEF OpenBegin, memory
    <2> DEFINE row == NewPayout(k, t)
    <2>3. row.txn = t
      BY DEF NewPayout, NoReceipt
    <2> HIDE DEF row
    <2>4. Holds(row, onHold)
      BY <2>1, <2>3 DEF Fresh, Holds, HoldsKept
    <2>5. loc'[c].row = row
      BY <1>1, <2>1 DEF Begins, NoCall, row
    <2>6. \A q \in Receipts : receipts'[q] = IF q = r THEN row ELSE receipts[q]
      BY <2>1, GhostsKnown DEF row
    <2> QED BY <1>1, <2>2, <2>4, <2>5, <2>6, HoldStep DEF Others
  <1>5. ASSUME NEW k \in Cards, RemoveBegin(c, k) PROVE HoldsKept'
    <2>1. UNCHANGED <<receipts, books, onHold>>
      BY <1>5 DEF RemoveBegin, tables
    <2>2. loc'[c].row = NoCall.row
      BY <1>1, <1>5 DEF RemoveBegin, NoCall
    <2> QED BY <1>1, <2>1, <2>2, NothingHolds, HoldCall
  <1> QED BY <1>2, <1>3, <1>4, <1>5 DEF Request

LEMMA HoldAtEnd ==
    ASSUME Inv, HoldsKept, NEW c \in Calls, Others(c), Ends(c), UNCHANGED <<receipts, onHold>>,
           \A t \in Txns : books[t] # "none" => books'[t] # "none"
    PROVE  HoldsKept'
  <1>1. loc'[c] = NoCall
    BY GhostsKnown DEF Ends
  <1> QED BY <1>1, NothingHolds, HoldStep DEF Others

\* The merchant agreed to a payment, with a hold or without one.
LEMMA HoldAtCreate == ASSUME Inv, HoldsKept, NEW c \in Calls, PayCreate(c) PROVE HoldsKept'
  <1>1. Others(c)
    BY StepOthers DEF Step
  <1>2. CASE Ends(c) /\ UNCHANGED <<books, onHold>>
    BY <1>1, <1>2, HoldAtEnd DEF PayCreate
  <1>3. ASSUME NEW t \in Txns, Fresh(t), books' = [books EXCEPT ![t] = "created"],
               onHold' = IF loc[c].row.hold THEN onHold \cup {t} ELSE onHold,
               Ends(c) \/ (loc' = [loc EXCEPT ![c].row.txn = t] /\ Goto(c, "perform"))
        PROVE  HoldsKept'
    <2>1. UNCHANGED receipts /\ pc[c] = "create"
      BY DEF PayCreate
    <2>2. /\ loc[c] \in Call /\ loc[c].row \in ReceiptRow /\ loc[c].row.state = StateChecking
      BY <2>1, CallKnows DEF CallReached, Call
    <2>3. \A u \in onHold' : u \in Txns /\ books'[u] # "none"
      BY <1>3, GhostsKnown DEF HoldsKept
    <2>4. \A r \in Receipts : Holds(receipts[r], onHold')
      BY <1>3 DEF HoldsKept, Holds, Fresh
    <2>5. \A d \in Calls \ {c} : loc[d].op = "Confirm" \/ Holds(loc[d].row, onHold')
      BY <1>3 DEF HoldsKept, Holds, Fresh
    <2>6. Holds(loc'[c].row, onHold')
      <3>1. CASE Ends(c)
        <4>1. loc'[c].row.txn = NoTxn
          BY <3>1, NothingTyped, GhostsKnown DEF Ends, NoReceipt
        <4> QED BY <1>3, <4>1, NothingHolds, ReceiptAssumption DEF Holds
      <3>2. CASE loc' = [loc EXCEPT ![c].row.txn = t]
        <4>1. /\ loc'[c].row.txn = t /\ loc'[c].row.hold = loc[c].row.hold
              /\ loc'[c].row.state = StateChecking
          BY <2>2, <3>2, GhostsKnown DEF Call, ReceiptRow
        <4>2. t \notin onHold
          BY <1>3 DEF HoldsKept, Fresh
        <4> QED BY <1>3, <4>1, <4>2 DEF Holds
      <3> QED BY <1>3, <3>1, <3>2
    <2>7. \A d \in Calls : loc'[d].op = "Confirm" \/ Holds(loc'[d].row, onHold')
      BY <1>1, <2>5, <2>6 DEF Others
    <2> QED BY <2>1, <2>3, <2>4, <2>7 DEF HoldsKept
  <1> QED BY <1>2, <1>3 DEF PayCreate

\* A row is begun or completed in memory.
LEMMA HoldInMemory ==
    ASSUME Inv, HoldsKept, NEW c \in Calls, PayCard(c) \/ Payee(c) PROVE HoldsKept'
  <1>1. Others(c) /\ UNCHANGED <<receipts, books, onHold>>
    BY StepOthers DEF Step, PayCard, Payee, tables
  <1>2. CASE Ends(c)
    BY <1>1, <1>2, HoldAtEnd
  <1>3. CASE ~Ends(c)
    <2>1. /\ loc[c].row.state = StateCreated /\ loc[c] \in Call /\ loc[c].row \in ReceiptRow
          /\ loc[c].op \in {"Pay", "Complete"}
      BY <1>3, CallKnows DEF PayCard, Payee, AwaitsPayment, CallWellFormed, Call
    <2>2. loc[c].row.txn \notin onHold
      BY <2>1 DEF HoldsKept, Holds
    <2>3. loc'[c].row.txn = loc[c].row.txn
      <3>1. CASE PayCard(c)
        <4>1. PICK hold \in BOOLEAN :
                 loc' = [loc EXCEPT ![c].row = BeginPay(loc[c].row, loc[c].card, hold),
                                    ![c].purse = Charged(cards[loc[c].card], Amount[loc[c].id])]
          BY <1>3, <3>1 DEF PayCard
        <4> DEFINE row == BeginPay(loc[c].row, loc[c].card, hold)
        <4>2. row.txn = loc[c].row.txn
          BY <2>1 DEF BeginPay, ReceiptRow
        <4> HIDE DEF row
        <4>3. loc'[c].row = row
          BY <2>1, <4>1, GhostsKnown DEF row, Call
        <4> QED BY <4>2, <4>3
      <3>2. CASE Payee(c)
        <4> DEFINE row == Completed(loc[c].row)
        <4>1. row.txn = loc[c].row.txn
          BY <2>1 DEF Completed, ReceiptRow
        <4>2. loc' = [loc EXCEPT ![c].row = row,
                                 ![c].purse = Credited(cards[loc[c].card], Amount[loc[c].id])]
          BY <1>3, <3>2 DEF Payee
        <4> HIDE DEF row
        <4>3. loc'[c].row = row
          BY <2>1, <4>2, GhostsKnown DEF Call
        <4> QED BY <4>1, <4>3
      <3> QED BY <3>1, <3>2
    <2> QED BY <1>1, <2>2, <2>3, HoldCall DEF Holds
  <1> QED BY <1>2, <1>3

LEMMA HoldAtStore == ASSUME Inv, HoldsKept, NEW c \in Calls, Store(c) PROVE HoldsKept'
  <1> DEFINE call == loc[c]
  <1>1. /\ Others(c) /\ UNCHANGED books /\ call.id \in Receipts /\ pc[c] = "store"
    BY StepOthers, CallKnows DEF Step, Store, CallWellFormed
  <1>2. /\ receipts' = [receipts EXCEPT ![call.id] = call.row]
        /\ onHold' = IF call.op = "Confirm" THEN onHold \ {call.row.txn} ELSE onHold
        /\ Ends(c) \/ UNCHANGED loc
    BY DEF Store
  <1>3. Holds(call.row, onHold')
    BY <1>2 DEF HoldsKept, Holds
  <1>4. \A r \in Receipts : receipts'[r] = receipts[r] \/ Holds(receipts'[r], onHold')
    BY <1>1, <1>2, <1>3, GhostsKnown
  <1>5. \/ loc'[c].op = loc[c].op /\ loc'[c].row = loc[c].row
        \/ Holds(loc'[c].row, onHold')
    <2>1. CASE Ends(c)
      BY <1>2, <2>1, NothingHolds, GhostsKnown DEF Ends, Holds
    <2>2. CASE UNCHANGED loc
      BY <2>2
    <2> QED BY <1>2, <2>1, <2>2
  <1> QED BY <1>1, <1>2, <1>4, <1>5, HoldStep DEF Others

\* A step of the walk: a receipt with a hold stops at held.
LEMMA HoldAtAdvance ==
    ASSUME Inv, HoldsKept, NEW c \in Timers, NEW r \in Receipts, AdvanceBegin(c, r)
    PROVE  HoldsKept'
  <1>1. UNCHANGED <<receipts, books, onHold>> /\ c \in Calls
    BY CallSlots DEF AdvanceBegin, tables, memory
  <1>2. CASE UNCHANGED loc
    BY <1>1, <1>2, HoldStep
  <1>3. CASE CanAdvance(receipts[r])
             /\ Begins(c, "Advance", r, Advanced(receipts[r]), NoCard, "store")
    <2> DEFINE row == Advanced(receipts[r])
    <2>1. Holds(receipts[r], onHold) /\ receipts[r] \in ReceiptRow
      BY RowKnows DEF HoldsKept
    <2>2. /\ row.txn = receipts[r].txn /\ row.hold = receipts[r].hold
          /\ receipts[r].hold => row.state \notin {Absent, StateCreated, StatePaid}
      BY <1>3, <2>1, AdvancedTyped
    <2> HIDE DEF row
    <2>3. Holds(row, onHold)
      BY <2>1, <2>2 DEF Holds
    <2>4. Others(c) /\ loc'[c].row = row
      BY <1>1, <1>3, GhostsKnown DEF Begins, Goto, Others, NoCall, row
    <2> QED BY <1>1, <2>3, <2>4, HoldCall
  <1> QED BY <1>2, <1>3 DEF AdvanceBegin

LEMMA HoldNext == ASSUME Inv, HoldsKept, [Next]_vars PROVE HoldsKept'
  <1>1. ASSUME NEW r \in Receipts, ReceiptsCreate(r) PROVE HoldsKept'
    <2>1. PICK hold \in BOOLEAN : receipts' = [receipts EXCEPT ![r] = NewReceipt(hold)]
      BY <1>1 DEF ReceiptsCreate
    <2>2. NewReceipt(hold).txn = NoTxn /\ UNCHANGED <<books, loc, onHold>>
      BY <1>1 DEF NewReceipt, NoReceipt, ReceiptsCreate, memory
    <2>3. \A q \in Receipts : receipts'[q] = receipts[q] \/ Holds(receipts'[q], onHold')
      BY <2>1, <2>2, NothingHolds, GhostsKnown DEF Holds
    <2> QED BY <2>2, <2>3, HoldStep
  <1>2. ASSUME NEW c \in Calls, Step(c) \/ Fail(c) PROVE HoldsKept'
    <2>1. Others(c)
      BY <1>2, StepOthers
    <2>2. CASE Open(c) \/ Schedule(c) \/ Fail(c)
      <3>1. /\ Ends(c) /\ UNCHANGED <<receipts, onHold>>
            /\ \A t \in Txns : books[t] # "none" => books'[t] # "none"
        <4>1. CASE Open(c)
          <5>1. \A t \in Txns : books'[t] \in {books[t], "created"}
            BY <4>1, GhostsKnown DEF Open
          <5> QED BY <4>1, <5>1 DEF Open, memory
        <4>2. CASE Schedule(c) \/ Fail(c)
          BY <4>2 DEF Schedule, Fail, tables, memory
        <4> QED BY <2>2, <4>1, <4>2
      <3> QED BY <2>1, <3>1, HoldAtEnd
    <2>3. CASE PayPerform(c) \/ Settle(c)
      <3>1. /\ UNCHANGED <<receipts, onHold>>
            /\ Ends(c) \/ UNCHANGED loc
            /\ UNCHANGED books \/ \E t : books' = [books EXCEPT ![t] = "performed"]
        BY <2>3 DEF PayPerform, Settle, memory
      <3>2. \A t \in Txns : books[t] # "none" => books'[t] # "none"
        BY <3>1, GhostsKnown
      <3> QED BY <2>1, <3>1, <3>2, HoldAtEnd, HoldStep
    <2>4. CASE RefundCard(c) \/ UpdateCard(c)
      <3>1. /\ UNCHANGED <<receipts, books, onHold>>
            /\ Ends(c) \/ (loc'[c].op = loc[c].op /\ loc'[c].row = loc[c].row)
        <4>1. CASE RefundCard(c)
          BY <4>1, CallKnows, GhostsKnown DEF RefundCard, tables, Call
        <4>2. CASE UpdateCard(c)
          BY <4>2 DEF UpdateCard
        <4> QED BY <2>4, <4>1, <4>2
      <3> QED BY <2>1, <3>1, HoldAtEnd, HoldCall
    <2> QED
      BY <1>2, <2>2, <2>3, <2>4, HoldAtCreate, HoldInMemory, HoldAtStore DEF Step
  <1>3. CASE SetBlocked \/ (\E r \in Receipts : LoseStep(r)) \/ UNCHANGED vars
    <2>1. UNCHANGED <<receipts, books, loc, onHold>>
      BY <1>3 DEF SetBlocked, LoseStep, tables, memory, vars
    <2> QED BY <2>1, HoldStep
  <1> QED BY <1>1, <1>2, <1>3, HoldAtRequest, HoldAtAdvance DEF Next

\* Under every schedule, whatever copies steps, cancellations and payments write back,
\* no receipt is paid by a payment begun with a hold before a confirmation of that hold
\* has been stored (ReceiptsConfirmHold).
THEOREM HoldSafety == Spec => []HoldIsKept
  <1>1. Init => Inv /\ HoldsKept
    BY InitKeeps, NothingTyped, ReceiptAssumption DEF Init, HoldsKept, Holds
  <1>2. Inv /\ HoldsKept /\ [Next]_vars => (Inv /\ HoldsKept)'
    BY NextKeeps, HoldNext
  <1>3. HoldsKept => HoldIsKept
    BY DEF HoldsKept, Holds, HoldIsKept
  <1> QED BY <1>1, <1>2, <1>3, PTL DEF Spec

-----------------------------------------------------------------------------
(* From here on calls and background steps about one receipt or one card do not *)
(* overlap (Overlap # "any").  The strengthening: nobody writes under a call.    *)

\* The receipt, and the card, of a call in flight is its own.
Exclusive ==
    /\ \A c \in Calls : pc[c] = "idle" => loc[c] = NoCall
    /\ \A c, d \in Calls : c # d =>
          /\ loc[c].id = loc[d].id => loc[c].id = NoReceiptId
          /\ loc[c].card = loc[d].card => loc[c].card = NoCard

\* A copy is what the operation makes of the row as it is stored.
Derived(call, at, row) ==
    /\ row.state # Absent
    /\ call.op = "Complete" => call.id \in Payouts
    /\ at \in {"card", "payee", "open", "schedule"} => call.row = row
    /\ at \in {"create", "perform", "update", "store"} /\ call.op = "Pay" =>
          /\ row.state = StateCreated /\ call.row.state = StateChecking
          /\ row.hold => call.row.hold
    /\ at = "create" => call.row.txn = row.txn
    /\ at \in {"settle", "update", "store"} /\ call.op = "Complete" =>
          row.state = StateCreated /\ call.row = Completed(row)
    /\ at \in {"refund", "update", "store"} /\ call.op = "Cancel" =>
          Cancellable(row) /\ call.row = Cancelled(row)
    /\ at = "update" /\ call.op = "Cancel" => Refunds(call.row)
    /\ at = "store" /\ call.op = "Confirm" =>
          row.state = StateHeld /\ call.row = HoldConfirmed(row)
    /\ at = "store" /\ call.op = "Advance" =>
          CanAdvance(row) /\ Left(row) /\ call.row = Advanced(row)
    /\ at = "store" => call.op \in {"Pay", "Complete", "Cancel", "Confirm", "Advance"}
Copies == \A c \in Calls : loc[c].id \in Receipts => Derived(loc[c], pc[c], receipts[loc[c].id])

\* A row nobody has charged says so.
Blank ==
    \A r \in Receipts :
        /\ receipts[r].state = Absent => receipts[r] = NoReceipt
        /\ receipts[r].state = StateCreated => ~receipts[r].charged

\* A payment id names one payment, on one receipt or in the hands of one call.
Paying(c) == loc[c].op = "Pay" /\ pc[c] \in {"perform", "update", "store"}
Tokens ==
    /\ \A r, q \in Receipts : r # q /\ receipts[r].txn = receipts[q].txn => receipts[r].txn = NoTxn
    /\ \A c \in Calls : Paying(c) =>
          /\ \A r \in Receipts : loc[c].row.txn # receipts[r].txn
          /\ \A d \in Calls \ {c} : Paying(d) => loc[c].row.txn # loc[d].row.txn
          /\ pc[c] = "perform" => loc[c].row.txn \notin Performed

Completing(r) ==
    \E c \in Calls : loc[c].id = r /\ loc[c].op = "Complete" /\ pc[c] \in {"update", "store"}

\* A payment performed for a receipt still in "created" is in the hands of its
\* call, or of a call that ended first.
Unclaimed ==
    \A r \in Receipts : receipts[r].state = StateCreated /\ receipts[r].txn \in Performed =>
        receipts[r].txn \in stray \/ Completing(r)

\* Until a call fails, what the register has paid is on its way to the row.
Counted ==
    failures = 0 => \A r \in Receipts :
        /\ settled[r] \in 0..1
        /\ ~Left(receipts[r]) /\ ~Completing(r) => settled[r] = 0

\* Every performed payment is on a receipt, in a call that will store it, or stray.
Agreed ==
    \A t \in Performed :
        \/ t \in stray
        \/ \E r \in Receipts : receipts[r].txn = t
        \/ \E c \in Calls : Paying(c) /\ loc[c].row.txn = t

Alone ==
    /\ Exclusive /\ Copies /\ Blank /\ Tokens /\ Unclaimed /\ Counted
    /\ MoneyFollowsReceipt /\ Agreed

LEMMA AloneMeans == ASSUME Inv, Alone PROVE MerchantAgrees /\ SettledOnce
  <1>1. MerchantAgrees
    BY DEF Alone, Agreed, MerchantAgrees, Performed, Paying
  <1>2. SettledOnce
    BY ServiceAssumption DEF Alone, Counted, SettledOnce, PayoutOnce
  <1> QED BY <1>1, <1>2

-----------------------------------------------------------------------------
(* What a step of one call leaves alone.                                       *)
LEMMA ExclusiveStep ==
    ASSUME Exclusive, NEW c \in Calls, Others(c), pc'[c] = "idle" => loc'[c] = NoCall,
           \A d \in Calls \ {c} : /\ loc[d].id = loc'[c].id => loc[d].id = NoReceiptId
                                  /\ loc[d].card = loc'[c].card => loc[d].card = NoCard
    PROVE  Exclusive'
  BY DEF Exclusive, Others

LEMMA ExclusiveEnd ==
    ASSUME Inv, Exclusive, NEW c \in Calls, Ends(c)
    PROVE  Exclusive' /\ Others(c) /\ loc'[c] = NoCall /\ pc'[c] = "idle"
  <1>1. Others(c) /\ loc'[c] = NoCall /\ pc'[c] = "idle"
    BY DEF Ends, Goto, Others, Inv, CallsKept
  <1>2. NoCall.id = NoReceiptId /\ NoCall.card = NoCard
    BY DEF NoCall
  <1> QED BY <1>1, <1>2, ExclusiveStep

LEMMA ExclusiveMove ==
    ASSUME Exclusive, NEW c \in Calls, Others(c), pc'[c] # "idle",
           loc'[c].id = loc[c].id, loc'[c].card = loc[c].card
    PROVE  Exclusive'
  BY ExclusiveStep DEF Exclusive

LEMMA ExclusiveBegin ==
    ASSUME Inv, Exclusive, Overlap # "any", NEW c \in Calls, NEW r, NEW k, MayBegin(c, r, k),
           Others(c), pc'[c] # "idle", loc'[c].id = r, loc'[c].card = k
    PROVE  Exclusive'
  <1>1. ASSUME NEW d \in Calls \ {c}
        PROVE  /\ loc[d].id = r => loc[d].id = NoReceiptId
               /\ loc[d].card = k => loc[d].card = NoCard
    <2>1. CASE InFlight(d)
      BY <2>1, ServiceAssumption DEF MayBegin
    <2>2. CASE ~InFlight(d)
      BY <2>2 DEF InFlight, Exclusive, NoCall
    <2> QED BY <2>1, <2>2
  <1> QED BY <1>1, ExclusiveStep

LEMMA CopiesStep ==
    ASSUME Copies, NEW c \in Calls, Others(c),
           \A d \in Calls \ {c} :
              loc[d].id \in Receipts => receipts'[loc[d].id] = receipts[loc[d].id],
           loc'[c].id \in Receipts => Derived(loc'[c], pc'[c], receipts'[loc'[c].id])
    PROVE  Copies'
  <1>1. ASSUME NEW d \in Calls, loc'[d].id \in Receipts
        PROVE  Derived(loc'[d], pc'[d], receipts'[loc'[d].id])
    <2>1. CASE d = c
      BY <1>1, <2>1
    <2>2. CASE d # c
      <3>1. loc'[d] = loc[d] /\ pc'[d] = pc[d]
        BY <2>2 DEF Others
      <3>2. receipts'[loc[d].id] = receipts[loc[d].id] /\ Derived(loc[d], pc[d], receipts[loc[d].id])
        BY <1>1, <2>2, <3>1 DEF Copies
      <3> QED BY <3>1, <3>2
    <2> QED BY <2>1, <2>2
  <1> QED BY <1>1 DEF Copies

\* Payment ids stay where they are while nobody gets a new one.
LEMMA TokensStep ==
    ASSUME Tokens, NEW c \in Calls, Others(c),
           \A r \in Receipts : receipts'[r].txn = receipts[r].txn,
           \A d \in Calls : Paying(d) /\ pc[d] = "perform" /\ d # c /\ loc[d].row.txn \in Performed' =>
              loc[d].row.txn \in Performed,
           Paying(c)' => Paying(c) /\ loc'[c].row.txn = loc[c].row.txn /\ pc'[c] # "perform"
    PROVE  Tokens'
  <1>1. \A d \in Calls : Paying(d)' => Paying(d) /\ loc'[d].row.txn = loc[d].row.txn
    BY DEF Others, Paying
  <1>2. \A d \in Calls : Paying(d)' /\ pc'[d] = "perform" => d # c /\ pc[d] = "perform"
    BY DEF Others
  <1>3. \A d \in Calls : Paying(d)' /\ pc'[d] = "perform" => loc'[d].row.txn \notin Performed'
    BY <1>1, <1>2 DEF Tokens
  <1>4. \A r, q \in Receipts :
           r # q /\ receipts'[r].txn = receipts'[q].txn => receipts'[r].txn = NoTxn
    BY DEF Tokens
  <1>5. \A d \in Calls : Paying(d)' => \A r \in Receipts : loc'[d].row.txn # receipts'[r].txn
    BY <1>1 DEF Tokens
  <1>6. \A d, e \in Calls : d # e /\ Paying(d)' /\ Paying(e)' => loc'[d].row.txn # loc'[e].row.txn
    BY <1>1 DEF Tokens
  <1> QED BY <1>3, <1>4, <1>5, <1>6 DEF Tokens

CompletesNow(c) == loc[c].op = "Complete" /\ pc[c] \in {"update", "store"}

LEMMA CompletingStep ==
    ASSUME NEW c \in Calls, Others(c), NEW r, Completing(r),
           CompletesNow(c) => (CompletesNow(c)' /\ loc'[c].id = loc[c].id)
    PROVE  Completing(r)'
  BY DEF Completing, CompletesNow, Others

\* No call stores another call's receipt, so the money of the others is as it was.
LEMMA MoneyStep ==
    ASSUME Exclusive', MoneyFollowsReceipt, NEW c \in Calls, Others(c),
           UNCHANGED <<receipts, taken, torn>>, pc[c] # "store",
           pc'[c] = "store" => Moved(loc'[c]) = 0,
           taken \in [Receipts -> Int], torn \in [Receipts -> Int]
    PROVE  MoneyFollowsReceipt'
  <1> SUFFICES ASSUME NEW r \in Receipts \ Payouts
               PROVE  LET storing == {d \in Calls : pc'[d] = "store" /\ loc'[d].id = r} IN
                      /\ storing = {} => taken[r] = Owes(receipts[r]) + torn[r]
                      /\ \A d \in storing : taken[r] = Owes(receipts[r]) + Moved(loc'[d]) + torn[r]
    BY DEF MoneyFollowsReceipt
  <1> DEFINE before == {d \in Calls : pc[d] = "store" /\ loc[d].id = r}
             after  == {d \in Calls : pc'[d] = "store" /\ loc'[d].id = r}
  <1>1. /\ before = {} => taken[r] = Owes(receipts[r]) + torn[r]
        /\ \A d \in before : taken[r] = Owes(receipts[r]) + Moved(loc[d]) + torn[r]
    BY DEF MoneyFollowsReceipt
  <1>2. after \ {c} = before /\ (\A d \in before : loc'[d] = loc[d])
    BY DEF Others
  <1>3. c \in after => before = {}
    BY <1>2, ServiceAssumption DEF Exclusive
  <1>4. Owes(receipts[r]) \in Int
    BY DEF Owes
  <1>5. after = {} => taken[r] = Owes(receipts[r]) + torn[r]
    BY <1>1, <1>2
  <1>6. ASSUME NEW d \in after PROVE taken[r] = Owes(receipts[r]) + Moved(loc'[d]) + torn[r]
    <2>1. CASE d = c
      BY <1>1, <1>3, <1>4, <2>1
    <2>2. CASE d # c
      BY <1>1, <1>2, <2>2
    <2> QED BY <2>1, <2>2
  <1> QED BY <1>5, <1>6

\* A step of a call that takes its receipt's money along.
LEMMA MoneyMoves ==
    ASSUME Inv, Exclusive', MoneyFollowsReceipt, NEW c \in Calls, Others(c), UNCHANGED receipts,
           pc[c] # "store", pc'[c] = "store", NEW q \in Receipts, loc[c].id = q, loc'[c].id = q,
           taken \in [Receipts -> Int], torn \in [Receipts -> Int],
           taken'[q] \in Int, torn'[q] \in Int, Moved(loc'[c]) \in Int,
           taken'[q] - torn'[q] = taken[q] - torn[q] + Moved(loc'[c]),
           \A r \in Receipts \ {q} : taken'[r] = taken[r] /\ torn'[r] = torn[r]
    PROVE  MoneyFollowsReceipt'
  <1> SUFFICES ASSUME NEW r \in Receipts \ Payouts
               PROVE  LET storing == {d \in Calls : pc'[d] = "store" /\ loc'[d].id = r} IN
                      /\ storing = {} => taken'[r] = Owes(receipts[r]) + torn'[r]
                      /\ \A d \in storing :
                            taken'[r] = Owes(receipts[r]) + Moved(loc'[d]) + torn'[r]
    BY DEF MoneyFollowsReceipt
  <1> DEFINE before == {d \in Calls : pc[d] = "store" /\ loc[d].id = r}
             after  == {d \in Calls : pc'[d] = "store" /\ loc'[d].id = r}
             owes   == Owes(receipts[r])
  <1>1. /\ before = {} => taken[r] = owes + torn[r]
        /\ \A d \in before : taken[r] = owes + Moved(loc[d]) + torn[r]
    BY DEF MoneyFollowsReceipt
  <1>2. owes \in Int /\ taken[r] \in Int /\ torn[r] \in Int
    BY DEF Owes
  <1> HIDE DEF owes
  <1>3. CASE r = q
    <2>1. after = {c} /\ before = {}
      BY <1>3, ServiceAssumption DEF Exclusive, Others
    <2>2. taken'[r] = owes + Moved(loc'[c]) + torn'[r]
      BY <1>1, <1>2, <1>3, <2>1
    <2> QED BY <2>1, <2>2 DEF owes
  <1>4. CASE r # q
    <2>1. after = before /\ \A d \in before : loc'[d] = loc[d]
      BY <1>4 DEF Others
    <2>2. taken'[r] = taken[r] /\ torn'[r] = torn[r]
      BY <1>4
    <2> QED BY <1>1, <2>1, <2>2 DEF owes
  <1> QED BY <1>3, <1>4

\* A step of a call that changes neither rows nor balances nor payments.
LEMMA QuietAlone ==
    ASSUME Inv, Alone, NEW c \in Calls, Others(c), Exclusive',
           UNCHANGED <<receipts, drawn, settled, stray, failures>>,
           Performed' = Performed, pc[c] # "store",
           pc[c] = "update" => ~Paying(c) /\ ~CompletesNow(c),
           ~Paying(c)', ~CompletesNow(c)', MoneyFollowsReceipt',
           loc'[c].id \in Receipts => Derived(loc'[c], pc'[c], receipts[loc'[c].id])
    PROVE  Alone'
  <1>1. Copies'
    BY CopiesStep DEF Alone
  <1>3. Tokens'
    BY TokensStep DEF Alone
  <1>4. ~CompletesNow(c)
    BY DEF CompletesNow
  <1>5. \A r \in Receipts : Completing(r) => Completing(r)'
    BY <1>4, CompletingStep
  <1>6. Unclaimed'
    BY <1>5 DEF Alone, Unclaimed
  <1>7. Counted'
    BY <1>5 DEF Alone, Counted, Left
  <1>8. Blank'
    BY DEF Alone, Blank
  <1>9. Agreed'
    <2>1. ASSUME NEW d \in Calls, Paying(d), loc[d].row.txn \in Performed PROVE d # c
      BY <2>1 DEF Alone, Tokens, Paying
    <2>2. ASSUME NEW d \in Calls, Paying(d), d # c
          PROVE  Paying(d)' /\ loc'[d].row.txn = loc[d].row.txn
      BY <2>2 DEF Others, Paying
    <2> QED BY <2>1, <2>2 DEF Alone, Agreed
  <1> QED BY <1>1, <1>3, <1>6, <1>7, <1>8, <1>9 DEF Alone

LEMMA CallAlone ==
    ASSUME Inv, Alone, NEW c \in Calls, Others(c), Exclusive',
           UNCHANGED <<receipts, cards, taken, drawn, settled, torn, stray, failures>>,
           Performed' = Performed, pc[c] \notin {"update", "store"},
           ~Paying(c)', ~CompletesNow(c)', pc'[c] = "store" => Moved(loc'[c]) = 0,
           loc'[c].id \in Receipts => Derived(loc'[c], pc'[c], receipts[loc'[c].id])
    PROVE  Alone'
  <1>1. MoneyFollowsReceipt'
    BY GhostsKnown, MoneyStep DEF Alone
  <1> QED BY <1>1, QuietAlone

LEMMA EndAlone ==
    ASSUME Inv, Alone, NEW c \in Calls, Ends(c), pc[c] \notin {"update", "store"},
           UNCHANGED <<receipts, cards, taken, drawn, settled, torn, stray, failures>>,
           Performed' = Performed
    PROVE  Alone'
  <1>1. Exclusive' /\ Others(c) /\ loc'[c] = NoCall /\ pc'[c] = "idle"
    BY ExclusiveEnd DEF Alone
  <1>2. loc'[c].id \notin Receipts /\ loc'[c].op = "none"
    BY <1>1, NothingTyped, ServiceAssumption
  <1> QED BY <1>1, <1>2, CallAlone DEF Paying, CompletesNow

-----------------------------------------------------------------------------
(* Requests and steps that begin.                                              *)
LEMMA AlonePayBegin ==
    ASSUME Inv, Alone, Overlap # "any", NEW c \in Requests, NEW r \in Receipts, NEW k \in Cards,
           PayBegin(c, r, k)
    PROVE  Alone'
  <1>1. /\ MayBegin(c, r, k) /\ receipts[r].state # Absent /\ c \in Calls /\ pc[c] = "idle"
        /\ UNCHANGED <<receipts, cards, books, taken, drawn, settled, torn, stray, failures>>
    BY CallSlots DEF PayBegin, tables, ghosts, MayBegin
  <1>2. /\ loc'[c].op = "Pay" /\ loc'[c].id = r /\ loc'[c].row = receipts[r] /\ loc'[c].card = k
        /\ pc'[c] = "card" /\ Others(c)
    BY <1>1, GhostsKnown DEF PayBegin, Begins, Goto, NoCall, Others
  <1>3. Exclusive'
    BY <1>1, <1>2, ExclusiveBegin DEF Alone
  <1>4. Performed' = Performed
    BY <1>1 DEF Performed
  <1>5. Derived(loc'[c], pc'[c], receipts[r])
    BY <1>1, <1>2 DEF Derived
  <1> QED BY <1>1, <1>2, <1>3, <1>4, <1>5, CallAlone DEF Paying, CompletesNow

LEMMA AloneCompleteBegin ==
    ASSUME Inv, Alone, Overlap # "any", NEW c \in Requests, NEW r \in Receipts, CompleteBegin(c, r)
    PROVE  Alone'
  <1>1. /\ MayBegin(c, r, receipts[r].card) /\ receipts[r].state # Absent /\ c \in Calls
        /\ r \in Payouts /\ pc[c] = "idle"
        /\ UNCHANGED <<receipts, cards, books, taken, drawn, settled, torn, stray, failures>>
    BY CallSlots DEF CompleteBegin, tables, ghosts, MayBegin
  <1>2. /\ loc'[c].op = "Complete" /\ loc'[c].id = r /\ loc'[c].row = receipts[r]
        /\ loc'[c].card = receipts[r].card /\ pc'[c] = "payee" /\ Others(c)
    BY <1>1, GhostsKnown DEF CompleteBegin, Begins, Goto, NoCall, Others
  <1>3. Exclusive'
    BY <1>1, <1>2, ExclusiveBegin DEF Alone
  <1>4. Performed' = Performed
    BY <1>1 DEF Performed
  <1>5. Derived(loc'[c], pc'[c], receipts[r])
    BY <1>1, <1>2 DEF Derived
  <1> QED BY <1>1, <1>2, <1>3, <1>4, <1>5, CallAlone DEF Paying, CompletesNow

LEMMA AloneConfirmBegin ==
    ASSUME Inv, Alone, Overlap # "any", NEW c \in Requests, NEW r \in Receipts, ConfirmBegin(c, r)
    PROVE  Alone'
  <1>1. /\ MayBegin(c, r, NoCard) /\ receipts[r].state = StateHeld /\ c \in Calls /\ pc[c] = "idle"
        /\ UNCHANGED <<receipts, cards, books, taken, drawn, settled, torn, stray, failures>>
    BY CallSlots DEF ConfirmBegin, tables, ghosts, MayBegin
  <1>2. /\ loc'[c].op = "Confirm" /\ loc'[c].id = r /\ loc'[c].row = HoldConfirmed(receipts[r])
        /\ loc'[c].card = NoCard /\ pc'[c] = "store" /\ Others(c)
    BY <1>1, GhostsKnown DEF ConfirmBegin, Begins, Goto, NoCall, Others
  <1>3. Exclusive'
    BY <1>1, <1>2, ExclusiveBegin DEF Alone
  <1>4. Performed' = Performed
    BY <1>1 DEF Performed
  <1>5. Derived(loc'[c], pc'[c], receipts[r]) /\ Moved(loc'[c]) = 0
    BY <1>1, <1>2 DEF Derived, Moved, Takes
  <1> QED BY <1>1, <1>2, <1>3, <1>4, <1>5, CallAlone DEF Paying, CompletesNow

LEMMA AloneCancelBegin ==
    ASSUME Inv, Alone, Overlap # "any", NEW c \in Requests, NEW r \in Receipts, CancelBegin(c, r)
    PROVE  Alone'
  <1> DEFINE row == Cancelled(receipts[r])
  <1>1. /\ MayBegin(c, r, receipts[r].card) /\ Cancellable(receipts[r]) /\ c \in Calls
        /\ pc[c] = "idle"
        /\ UNCHANGED <<receipts, cards, books, taken, drawn, settled, torn, stray, failures>>
    BY CallSlots DEF CancelBegin, tables, ghosts, MayBegin
  <1>2. /\ loc'[c].op = "Cancel" /\ loc'[c].id = r /\ loc'[c].row = row
        /\ loc'[c].card = receipts[r].card /\ Others(c)
        /\ pc'[c] = IF Refunds(row) THEN "refund" ELSE "store"
    BY <1>1, GhostsKnown DEF CancelBegin, Begins, Goto, NoCall, Others
  <1> HIDE DEF row
  <1>3. Exclusive'
    BY <1>1, <1>2, ExclusiveBegin DEF Alone
  <1>4. Performed' = Performed
    BY <1>1 DEF Performed
  <1>5. receipts[r].state # Absent
    BY <1>1 DEF Cancellable, InProgress
  <1>6. Derived(loc'[c], pc'[c], receipts[r])
    BY <1>1, <1>2, <1>5 DEF Derived, row
  <1>7. pc'[c] = "store" => Moved(loc'[c]) = 0
    BY <1>2 DEF Moved
  <1> QED BY <1>1, <1>2, <1>3, <1>4, <1>6, <1>7, CallAlone DEF Paying, CompletesNow

LEMMA AloneRemoveBegin ==
    ASSUME Inv, Alone, Overlap # "any", NEW c \in Requests, NEW k \in Cards, RemoveBegin(c, k)
    PROVE  Alone'
  <1>1. /\ MayBegin(c, NoReceiptId, k) /\ c \in Calls /\ pc[c] = "idle"
        /\ UNCHANGED <<receipts, cards, books, taken, drawn, settled, torn, stray, failures>>
    BY CallSlots DEF RemoveBegin, tables, ghosts, MayBegin
  <1>2. /\ loc'[c].op = "Remove" /\ loc'[c].id = NoReceiptId /\ loc'[c].card = k
        /\ pc'[c] = "update" /\ Others(c)
    BY <1>1, GhostsKnown DEF RemoveBegin, Goto, NoCall, Others
  <1>3. Exclusive'
    BY <1>1, <1>2, ExclusiveBegin DEF Alone
  <1>4. Performed' = Performed
    BY <1>1 DEF Performed
  <1> QED BY <1>1, <1>2, <1>3, <1>4, ServiceAssumption, CallAlone DEF Paying, CompletesNow

\* A step that changes neither calls nor rows nor money.
LEMMA StillAlone ==
    ASSUME Alone, UNCHANGED <<receipts, cards, books, pc, loc, taken, drawn, settled, torn, stray>>,
           UNCHANGED failures \/ failures' # 0
    PROVE  Alone'
  <1>1. Performed' = Performed
    BY DEF Performed
  <1>2. Exclusive' /\ Copies' /\ Blank' /\ MoneyFollowsReceipt'
    BY DEF Alone, Exclusive, Copies, Blank, MoneyFollowsReceipt
  <1>3. Tokens' /\ Agreed' /\ Unclaimed'
    BY <1>1 DEF Alone, Tokens, Agreed, Unclaimed, Completing, Paying
  <1>4. Counted'
    BY DEF Alone, Counted, Completing
  <1> QED BY <1>2, <1>3, <1>4 DEF Alone

LEMMA AloneAdvanceBegin ==
    ASSUME Inv, Alone, Overlap # "any", NEW c \in Timers, NEW r \in Receipts, AdvanceBegin(c, r)
    PROVE  Alone'
  <1>1. /\ MayBegin(c, r, NoCard) /\ pending[r] > 0 /\ c \in Calls /\ pc[c] = "idle"
        /\ UNCHANGED <<receipts, cards, books, taken, drawn, settled, torn, stray, failures>>
    BY CallSlots DEF AdvanceBegin, tables, ghosts, MayBegin
  <1>2. CASE UNCHANGED <<pc, loc>>
    BY <1>1, <1>2, StillAlone
  <1>3. CASE /\ CanAdvance(receipts[r])
             /\ Begins(c, "Advance", r, Advanced(receipts[r]), NoCard, "store")
    <2>1. /\ loc'[c].op = "Advance" /\ loc'[c].id = r /\ loc'[c].row = Advanced(receipts[r])
          /\ loc'[c].card = NoCard /\ pc'[c] = "store" /\ Others(c)
      BY <1>1, <1>3, GhostsKnown DEF Begins, Goto, NoCall, Others
    <2>2. Exclusive'
      BY <1>1, <2>1, ExclusiveBegin DEF Alone
    <2>3. Performed' = Performed
      BY <1>1 DEF Performed
    <2>4. Left(receipts[r])
      BY <1>1, RowKnows DEF Gone
    <2>5. Derived(loc'[c], pc'[c], receipts[r]) /\ Moved(loc'[c]) = 0
      BY <1>3, <2>1, <2>4 DEF Derived, Moved, Takes, Left
    <2> QED BY <1>1, <2>1, <2>2, <2>3, <2>5, CallAlone DEF Paying, CompletesNow
  <1> QED BY <1>2, <1>3 DEF AdvanceBegin

\* A new row, of an id no call is about.
LEMMA RowAlone ==
    ASSUME Inv, Alone, NEW r \in Receipts, NEW row \in ReceiptRow, receipts[r].state = Absent,
           receipts' = [receipts EXCEPT ![r] = row], row.state = StateCreated, ~row.charged,
           UNCHANGED <<cards, books, taken, drawn, settled, torn, stray, failures>>,
           \/ row.txn = NoTxn /\ UNCHANGED <<pc, loc>>
           \/ /\ Fresh(row.txn) /\ row.txn \in Txns /\ r \in Payouts
              /\ \E c \in Calls : /\ Others(c) /\ Exclusive' /\ pc[c] = "idle"
                                  /\ pc'[c] = "open" /\ loc'[c].op = "Open"
                                  /\ loc'[c].id = r /\ loc'[c].row = row
    PROVE  Alone'
  <1>1. /\ \A q \in Receipts \ {r} : receipts'[q] = receipts[q]
        /\ receipts'[r] = row /\ receipts[r] = NoReceipt
    BY GhostsKnown DEF Alone, Blank
  <1>2. Performed' = Performed /\ row.txn \notin Performed /\ NoTxn \notin Performed
    BY ReceiptAssumption DEF Performed, Fresh
  <1>3. \A d \in Calls : loc[d].id # r
    BY DEF Alone, Copies, Derived
  <1>4. Exclusive'
    BY DEF Alone, Exclusive
  <1>5. \A d \in Calls : Paying(d)' <=> Paying(d)
    BY DEF Paying, Others
  <1>6. \A d \in Calls : Paying(d) => loc'[d].row.txn = loc[d].row.txn /\ pc'[d] = pc[d]
    BY DEF Paying, Others
  <1>7. Copies'
    <2>1. CASE UNCHANGED <<pc, loc>>
      BY <1>1, <1>3, <2>1 DEF Alone, Copies
    <2>2. ASSUME NEW c \in Calls, Others(c), pc'[c] = "open", loc'[c].op = "Open", loc'[c].id = r,
                 loc'[c].row = row
          PROVE  Copies'
      <3>1. Derived(loc'[c], pc'[c], receipts'[r])
        BY <1>1, <2>2 DEF Derived
      <3> QED BY <1>1, <1>3, <2>2, <3>1, CopiesStep DEF Alone
    <2> QED BY <2>1, <2>2
  <1>9. Tokens'
    <2>1. NoReceipt.txn = NoTxn
      BY DEF NoReceipt
    <2>2. \A q \in Receipts \ {r} : receipts'[q].txn # row.txn \/ row.txn = NoTxn
      BY <1>1, ReceiptAssumption DEF Fresh
    <2>3. \A d \in Calls : Paying(d) => loc[d].row.txn # row.txn
      BY <1>1, <2>1 DEF Fresh, Alone, Tokens
    <2>4. \A q, p \in Receipts :
             q # p /\ receipts'[q].txn = receipts'[p].txn => receipts'[q].txn = NoTxn
      BY <1>1, <2>2 DEF Alone, Tokens
    <2> QED BY <1>1, <1>2, <1>5, <1>6, <2>3, <2>4 DEF Alone, Tokens
  <1>10. \A q : Completing(q)' <=> Completing(q)
    BY DEF Completing, Others
  <1>11. Unclaimed'
    BY <1>1, <1>2, <1>10 DEF Alone, Unclaimed
  <1>12. Counted'
    BY <1>1, <1>10 DEF Alone, Counted, Left
  <1>13. Blank'
    BY <1>1 DEF Alone, Blank
  <1>14. MoneyFollowsReceipt'
    <2>1. \A q \in Receipts : Owes(receipts'[q]) = Owes(receipts[q])
      BY <1>1 DEF Owes, Begun
    <2>2. \A q \in Receipts : {d \in Calls : pc'[d] = "store" /\ loc'[d].id = q}
                              = {d \in Calls : pc[d] = "store" /\ loc[d].id = q}
      BY DEF Others
    <2>3. \A d \in Calls : pc[d] = "store" => loc'[d] = loc[d]
      BY DEF Others
    <2> QED BY <2>1, <2>2, <2>3 DEF Alone, MoneyFollowsReceipt
  <1>15. Agreed'
    <2>1. NoReceipt.txn = NoTxn
      BY DEF NoReceipt
    <2> QED BY <1>1, <1>2, <1>5, <1>6, <2>1 DEF Alone, Agreed
  <1> QED BY <1>4, <1>7, <1>9, <1>11, <1>12, <1>13, <1>14, <1>15 DEF Alone

LEMMA AloneCreate == ASSUME Inv, Alone, NEW r \in Receipts, ReceiptsCreate(r) PROVE Alone'
  <1>1. PICK hold \in BOOLEAN : receipts' = [receipts EXCEPT ![r] = NewReceipt(hold)]
    BY DEF ReceiptsCreate
  <1>2. /\ receipts[r].state = Absent
        /\ UNCHANGED <<cards, books, pc, loc, taken, drawn, settled, torn, stray, failures>>
    BY DEF ReceiptsCreate, ghosts
  <1>3. /\ NewReceipt(hold) \in ReceiptRow /\ NewReceipt(hold).state = StateCreated
        /\ NewReceipt(hold).txn = NoTxn /\ ~NewReceipt(hold).charged
    BY DEF NewReceipt, NoReceipt, ReceiptRow, ReceiptState
  <1> QED BY <1>1, <1>2, <1>3, RowAlone

LEMMA AloneOpenBegin ==
    ASSUME Inv, Alone, Overlap # "any", NEW c \in Requests, NEW r \in Receipts, NEW k \in Cards,
           OpenBegin(c, r, k)
    PROVE  Alone'
  <1>1. PICK t \in Txns : /\ Fresh(t) /\ receipts' = [receipts EXCEPT ![r] = NewPayout(k, t)]
                          /\ Begins(c, "Open", r, NewPayout(k, t), k, "open")
    BY DEF OpenBegin
  <1>2. /\ r \in Payouts /\ receipts[r].state = Absent /\ MayBegin(c, r, k) /\ c \in Calls
        /\ pc[c] = "idle"
        /\ UNCHANGED <<cards, books, taken, drawn, settled, torn, stray, failures>>
    BY CallSlots DEF OpenBegin, ghosts, MayBegin
  <1> DEFINE row == NewPayout(k, t)
  <1>3. row \in ReceiptRow /\ row.state = StateCreated /\ row.txn = t /\ ~row.charged
    <2>1. row \in ReceiptRow
      BY PayoutTyped
    <2> QED BY <2>1 DEF NewPayout, NoReceipt
  <1>4. /\ loc'[c].op = "Open" /\ loc'[c].id = r /\ loc'[c].row = row /\ loc'[c].card = k
        /\ pc'[c] = "open" /\ Others(c) /\ receipts' = [receipts EXCEPT ![r] = row]
    BY <1>1, <1>2, GhostsKnown DEF Begins, Goto, NoCall, Others
  <1> HIDE DEF row
  <1>5. Exclusive'
    BY <1>2, <1>4, ExclusiveBegin DEF Alone
  <1>6. Fresh(row.txn) /\ row.txn \in Txns
    BY <1>1, <1>3
  <1> QED BY <1>2, <1>3, <1>4, <1>5, <1>6, RowAlone

-----------------------------------------------------------------------------
(* The statements of a call.                                                   *)

\* What a call in flight knows when nobody writes under it.
LEMMA CallIsAlone ==
    ASSUME Inv, Alone, NEW c \in Calls, loc[c].id \in Receipts
    PROVE  /\ Derived(loc[c], pc[c], receipts[loc[c].id])
           /\ \A d \in Calls \ {c} : loc[d].id # loc[c].id
  BY ServiceAssumption DEF Alone, Copies, Exclusive

LEMMA AlonePayCard == ASSUME Inv, Alone, NEW c \in Calls, PayCard(c) PROVE Alone'
  <1>1. /\ pc[c] = "card"
        /\ UNCHANGED <<receipts, cards, books, taken, drawn, settled, torn, stray, failures>>
    BY DEF PayCard, tables, ghosts
  <1>2. Performed' = Performed
    BY <1>1 DEF Performed
  <1>3. CASE Ends(c)
    BY <1>1, <1>2, <1>3, EndAlone
  <1>4. ASSUME NEW hold \in BOOLEAN, loc[c].row.hold => hold, AwaitsPayment(loc[c].row),
               Goto(c, "create"),
               loc' = [loc EXCEPT ![c].row = BeginPay(loc[c].row, loc[c].card, hold),
                                  ![c].purse = Charged(cards[loc[c].card], Amount[loc[c].id])]
        PROVE  Alone'
    <2>1. /\ loc[c] \in Call /\ loc[c].op = "Pay" /\ loc[c].id \in Receipts /\ loc[c].card \in Cards
          /\ loc[c].row \in ReceiptRow /\ loc[c].row.state = StateCreated
      BY <1>1, <1>4, CallKnows DEF CallWellFormed, AwaitsPayment, Call
    <2>2. Derived(loc[c], pc[c], receipts[loc[c].id])
      BY <2>1, CallIsAlone
    <2> DEFINE row == BeginPay(loc[c].row, loc[c].card, hold)
               purse == Charged(cards[loc[c].card], Amount[loc[c].id])
    <2>3. /\ row.state = StateChecking /\ row.hold = hold /\ row.txn = loc[c].row.txn
      BY <2>1 DEF BeginPay, ReceiptRow
    <2>5. Others(c) /\ pc'[c] = "create"
      BY <1>4, GhostsKnown DEF Goto, Others
    <2> HIDE DEF row, purse
    <2>6. /\ loc'[c].op = "Pay" /\ loc'[c].id = loc[c].id /\ loc'[c].row = row
          /\ loc'[c].card = loc[c].card /\ loc'[c].purse = purse
      BY <1>4, <2>1, GhostsKnown DEF row, purse, Call
    <2>7. Exclusive'
      BY <2>5, <2>6, ExclusiveMove DEF Alone
    <2>8. Derived(loc'[c], pc'[c], receipts[loc[c].id])
      BY <1>1, <1>4, <2>1, <2>2, <2>3, <2>5, <2>6 DEF Derived
    <2> QED BY <1>1, <1>2, <2>5, <2>6, <2>7, <2>8, CallAlone DEF Paying, CompletesNow
  <1> QED BY <1>3, <1>4 DEF PayCard

LEMMA AlonePayee == ASSUME Inv, Alone, NEW c \in Calls, Payee(c) PROVE Alone'
  <1>1. /\ pc[c] = "payee"
        /\ UNCHANGED <<receipts, cards, books, taken, drawn, settled, torn, stray, failures>>
    BY DEF Payee, tables, ghosts
  <1>2. Performed' = Performed
    BY <1>1 DEF Performed
  <1>3. CASE Ends(c)
    BY <1>1, <1>2, <1>3, EndAlone
  <1>4. CASE /\ AwaitsPayment(loc[c].row) /\ Goto(c, "settle")
             /\ loc' = [loc EXCEPT ![c].row = Completed(loc[c].row),
                                   ![c].purse = Credited(cards[loc[c].card], Amount[loc[c].id])]
    <2>1. /\ loc[c] \in Call /\ loc[c].op = "Complete" /\ loc[c].id \in Receipts
          /\ loc[c].card \in Cards /\ loc[c].row.state = StateCreated
      BY <1>1, <1>4, CallKnows DEF CallWellFormed, AwaitsPayment, Call
    <2>2. Derived(loc[c], pc[c], receipts[loc[c].id])
      BY <2>1, CallIsAlone
    <2> DEFINE purse == Credited(cards[loc[c].card], Amount[loc[c].id])
    <2>4. Others(c) /\ pc'[c] = "settle"
      BY <1>4, GhostsKnown DEF Goto, Others
    <2> HIDE DEF purse
    <2>5. /\ loc'[c].op = "Complete" /\ loc'[c].id = loc[c].id /\ loc'[c].row = Completed(loc[c].row)
          /\ loc'[c].card = loc[c].card /\ loc'[c].purse = purse
      BY <1>4, <2>1, GhostsKnown DEF purse, Call
    <2>6. Exclusive'
      BY <2>4, <2>5, ExclusiveMove DEF Alone
    <2>7. Derived(loc'[c], pc'[c], receipts[loc[c].id])
      BY <1>1, <2>1, <2>2, <2>4, <2>5 DEF Derived
    <2> QED BY <1>1, <1>2, <2>4, <2>5, <2>6, <2>7, CallAlone DEF Paying, CompletesNow
  <1> QED BY <1>3, <1>4 DEF Payee

LEMMA AloneOpen == ASSUME Inv, Alone, NEW c \in Calls, Open(c) PROVE Alone'
  <1>1. /\ pc[c] = "open" /\ Ends(c)
        /\ UNCHANGED <<receipts, cards, taken, drawn, settled, torn, stray, failures>>
    BY DEF Open, ghosts
  <1>2. \/ UNCHANGED books
        \/ books' = [books EXCEPT ![loc[c].row.txn] = IF @ = "none" THEN "created" ELSE @]
    BY DEF Open
  <1>3. Performed' = Performed
    BY <1>2, GhostsKnown DEF Performed
  <1> QED BY <1>1, <1>3, EndAlone

LEMMA AloneSchedule == ASSUME Inv, Alone, NEW c \in Calls, Schedule(c) PROVE Alone'
  <1>1. /\ pc[c] = "schedule" /\ Ends(c)
        /\ UNCHANGED <<receipts, cards, books, taken, drawn, settled, torn, stray, failures>>
    BY DEF Schedule, tables, ghosts
  <1>2. Performed' = Performed
    BY <1>1 DEF Performed
  <1> QED BY <1>1, <1>2, EndAlone

LEMMA AlonePayCreate == ASSUME Inv, Alone, NEW c \in Calls, PayCreate(c) PROVE Alone'
  <1>1. /\ pc[c] = "create"
        /\ UNCHANGED <<receipts, cards, taken, drawn, settled, torn, stray, failures>>
    BY DEF PayCreate, ghosts
  <1>2. CASE Ends(c) /\ UNCHANGED books
    <2>1. Performed' = Performed
      BY <1>2 DEF Performed
    <2> QED BY <1>1, <1>2, <2>1, EndAlone
  <1>3. ASSUME NEW t \in Txns, Fresh(t), books' = [books EXCEPT ![t] = "created"],
               \/ Ends(c)
               \/ loc' = [loc EXCEPT ![c].row.txn = t] /\ Goto(c, "perform")
        PROVE  Alone'
    <2>1. Performed' = Performed /\ t \notin Performed
      BY <1>3, GhostsKnown DEF Performed, Fresh
    <2>2. CASE Ends(c)
      BY <1>1, <2>1, <2>2, EndAlone
    <2>3. CASE loc' = [loc EXCEPT ![c].row.txn = t] /\ Goto(c, "perform")
      <3>1. /\ loc[c] \in Call /\ loc[c].op = "Pay" /\ loc[c].id \in Receipts
            /\ loc[c].row \in ReceiptRow /\ loc[c].card \in Cards
        BY <1>1, CallKnows DEF CallWellFormed, Call
      <3>2. Derived(loc[c], pc[c], receipts[loc[c].id])
        BY <3>1, CallIsAlone
      <3>3. Others(c) /\ pc'[c] = "perform"
        BY <2>3, GhostsKnown DEF Goto, Others
      <3>4. /\ loc'[c].op = "Pay" /\ loc'[c].id = loc[c].id /\ loc'[c].card = loc[c].card
            /\ loc'[c].purse = loc[c].purse /\ loc'[c].row.txn = t
            /\ loc'[c].row.state = loc[c].row.state /\ loc'[c].row.hold = loc[c].row.hold
        BY <2>3, <3>1, GhostsKnown DEF Call, ReceiptRow
      <3>5. Exclusive'
        BY <3>3, <3>4, ExclusiveMove DEF Alone
      <3>6. Copies'
        <4>1. Derived(loc'[c], pc'[c], receipts[loc[c].id])
          BY <1>1, <3>1, <3>2, <3>3, <3>4 DEF Derived
        <4> QED BY <1>1, <3>3, <3>4, <4>1, CopiesStep DEF Alone
      <3>8. \A d \in Calls \ {c} : (Paying(d)' <=> Paying(d)) /\ loc'[d] = loc[d] /\ pc'[d] = pc[d]
        BY <3>3 DEF Paying, Others
      <3>9. Tokens'
        <4>1. \A r \in Receipts : receipts[r].txn # t
          BY <1>3 DEF Fresh
        <4>2. \A d \in Calls \ {c} : loc'[d].row.txn # t
          BY <1>3, <3>8 DEF Fresh
        <4>3. \A d \in Calls : Paying(d)' /\ pc'[d] = "perform" => loc'[d].row.txn \notin Performed'
          BY <2>1, <3>4, <3>8 DEF Alone, Tokens
        <4>4. \A d \in Calls : Paying(d)' => \A r \in Receipts : loc'[d].row.txn # receipts'[r].txn
          BY <1>1, <3>4, <3>8, <4>1 DEF Alone, Tokens
        <4>5. \A d, e \in Calls :
                 d # e /\ Paying(d)' /\ Paying(e)' => loc'[d].row.txn # loc'[e].row.txn
          BY <3>4, <3>8, <4>2 DEF Alone, Tokens
        <4>6. \A r, q \in Receipts :
                 r # q /\ receipts'[r].txn = receipts'[q].txn => receipts'[r].txn = NoTxn
          BY <1>1 DEF Alone, Tokens
        <4> QED BY <4>3, <4>4, <4>5, <4>6 DEF Tokens
      <3>10. \A r : Completing(r) => Completing(r)'
        BY <1>1, <3>3, CompletingStep DEF CompletesNow
      <3>11. Unclaimed' /\ Counted' /\ Blank'
        BY <1>1, <2>1, <3>10 DEF Alone, Unclaimed, Counted, Blank
      <3>12. MoneyFollowsReceipt'
        BY <1>1, <3>3, <3>5, GhostsKnown, MoneyStep DEF Alone
      <3>13. Agreed'
        BY <1>1, <2>1, <3>8 DEF Alone, Agreed, Paying
      <3> QED BY <3>5, <3>6, <3>9, <3>11, <3>12, <3>13 DEF Alone
    <2> QED BY <1>3, <2>2, <2>3
  <1> QED BY <1>2, <1>3 DEF PayCreate

\* A payment is performed at the merchant: by its call, which goes on or ends.
LEMMA AlonePayPerform == ASSUME Inv, Alone, NEW c \in Calls, PayPerform(c) PROVE Alone'
  <1> DEFINE t == loc[c].row.txn
  <1>1. /\ pc[c] = "perform"
        /\ UNCHANGED <<receipts, cards, taken, drawn, settled, torn, failures>>
    BY DEF PayPerform
  <1>2. CASE Ends(c) /\ UNCHANGED <<books, stray>>
    <2>1. Performed' = Performed
      BY <1>2 DEF Performed
    <2> QED BY <1>1, <1>2, <2>1, EndAlone
  <1>3. CASE /\ books' = [books EXCEPT ![t] = "performed"]
             /\ \/ Ends(c) /\ stray' = stray \cup {t}
                \/ Goto(c, "update") /\ UNCHANGED <<loc, stray>>
    <2>1. /\ loc[c] \in Call /\ loc[c].op = "Pay" /\ loc[c].id \in Receipts /\ loc[c].card \in Cards
          /\ t \in Txns /\ Paying(c)
      BY <1>1, CallKnows DEF CallWellFormed, Call, ReceiptRow, Paying
    <2>2. Derived(loc[c], pc[c], receipts[loc[c].id])
      BY <2>1, CallIsAlone
    <2>3. Performed' = Performed \cup {t}
      BY <1>3, <2>1, GhostsKnown DEF Performed
    <2>4. Others(c) /\ Exclusive'
      <3>1. CASE Ends(c)
        BY <3>1, ExclusiveEnd DEF Alone
      <3>2. CASE Goto(c, "update") /\ UNCHANGED loc
        <4>1. Others(c) /\ pc'[c] = "update"
          BY <3>2, GhostsKnown DEF Goto, Others
        <4> QED BY <3>2, <4>1, ExclusiveMove DEF Alone
      <3> QED BY <1>3, <3>1, <3>2
    <2>5. \/ loc'[c] = NoCall /\ pc'[c] = "idle" /\ t \in stray'
          \/ loc'[c] = loc[c] /\ pc'[c] = "update" /\ Paying(c)'
      BY <1>3, <2>1, GhostsKnown DEF Ends, Goto, Paying
    <2>6. stray \subseteq stray'
      BY <1>3
    <2> HIDE DEF t
    <2>7. Copies'
      <3>1. loc'[c].id \in Receipts => Derived(loc'[c], pc'[c], receipts[loc'[c].id])
        BY <1>1, <2>1, <2>2, <2>5, NothingTyped, ServiceAssumption DEF Derived
      <3> QED BY <1>1, <2>4, <3>1, CopiesStep DEF Alone
    <2>9. \A r \in Receipts : receipts[r].txn # t
      BY <2>1 DEF Alone, Tokens, t
    <2>10. Tokens'
      <3>1. \A d \in Calls \ {c} : Paying(d) => loc[d].row.txn # t
        BY <2>1 DEF Alone, Tokens, t
      <3>2. Paying(c)' => Paying(c) /\ loc'[c].row.txn = loc[c].row.txn /\ pc'[c] # "perform"
        BY <2>1, <2>5 DEF Paying
      <3> QED BY <1>1, <2>3, <2>4, <3>1, <3>2, TokensStep DEF Alone
    <2>11. \A r : Completing(r) => Completing(r)'
      BY <1>1, <2>4, CompletingStep DEF CompletesNow
    <2>12. Unclaimed' /\ Counted' /\ Blank'
      BY <1>1, <2>3, <2>6, <2>9, <2>11 DEF Alone, Unclaimed, Counted, Blank
    <2>13. MoneyFollowsReceipt'
      BY <1>1, <2>4, <2>5, GhostsKnown, MoneyStep DEF Alone
    <2>14. Agreed'
      <3>1. ASSUME NEW d \in Calls \ {c}, Paying(d) PROVE Paying(d)' /\ loc'[d] = loc[d]
        BY <2>4, <3>1 DEF Others, Paying
      <3>2. t \in stray' \/ (Paying(c)' /\ loc'[c].row.txn = t)
        BY <2>5 DEF t
      <3> QED BY <1>1, <2>3, <2>6, <3>1, <3>2 DEF Alone, Agreed, t
    <2> QED BY <2>4, <2>7, <2>10, <2>12, <2>13, <2>14 DEF Alone
  <1> QED BY <1>2, <1>3 DEF PayPerform

\* The ledger pays a payout: once, as long as its row waits.
LEMMA AloneSettle == ASSUME Inv, Alone, NEW c \in Calls, Settle(c) PROVE Alone'
  <1> DEFINE t == loc[c].row.txn
             r == loc[c].id
  <1>1. /\ pc[c] = "settle"
        /\ UNCHANGED <<receipts, cards, taken, drawn, torn, stray, failures>>
    BY DEF Settle
  <1>2. CASE Ends(c) /\ UNCHANGED <<books, settled>>
    <2>1. Performed' = Performed
      BY <1>2 DEF Performed
    <2> QED BY <1>1, <1>2, <2>1, EndAlone
  <1>3. CASE /\ books' = [books EXCEPT ![t] = "performed"]
             /\ settled' = [settled EXCEPT ![r] = @ + 1] /\ Goto(c, "update") /\ UNCHANGED loc
    <2>1. /\ loc[c] \in Call /\ loc[c].op = "Complete" /\ r \in Receipts /\ loc[c].card \in Cards
          /\ t \in Txns
      BY <1>1, CallKnows DEF CallWellFormed, Call, ReceiptRow
    <2>2. /\ Derived(loc[c], pc[c], receipts[r])
          /\ \A d \in Calls \ {c} : loc[d].id # r
      BY <2>1, CallIsAlone
    <2>3. receipts[r].state = StateCreated /\ receipts[r].txn = t
      <3>1. receipts[r].state = StateCreated /\ loc[c].row = Completed(receipts[r])
            /\ receipts[r] \in ReceiptRow
        BY <1>1, <2>1, <2>2, GhostsKnown DEF Derived
      <3> QED BY <3>1 DEF Completed, ReceiptRow
    <2>4. Performed' = Performed \cup {t}
      BY <1>3, <2>1, GhostsKnown DEF Performed
    <2>5. Others(c) /\ pc'[c] = "update" /\ loc'[c] = loc[c] /\ CompletesNow(c)'
      BY <1>3, <2>1, GhostsKnown DEF Goto, Others, CompletesNow
    <2>6. Exclusive'
      BY <1>3, <2>5, ExclusiveMove DEF Alone
    <2>7. Copies'
      <3>1. Derived(loc[c], "update", receipts[r])
        BY <1>1, <2>1, <2>2 DEF Derived
      <3> QED BY <1>1, <2>5, <3>1, CopiesStep DEF Alone
    <2>9. Tokens'
      <3>1. ~Paying(c)'
        BY <2>1, <2>5 DEF Paying
      <3>2. \A d \in Calls : Paying(d) => loc[d].row.txn # t
        BY <2>1, <2>3 DEF Alone, Tokens
      <3> HIDE DEF t
      <3> QED BY <1>1, <2>4, <2>5, <3>1, <3>2, TokensStep DEF Alone
    <2>10. \A q : q = r => Completing(q)' /\ ~Completing(q)
      BY <1>1, <2>2, <2>5 DEF Completing, CompletesNow
    <2>11. \A q : Completing(q) => Completing(q)'
      BY <1>1, <2>5, CompletingStep DEF CompletesNow
    <2>12. Unclaimed'
      <3>1. \A q \in Receipts : receipts[q].txn = t => q = r
        BY <2>1, <2>3, ReceiptAssumption DEF Alone, Tokens
      <3> HIDE DEF t, r
      <3> QED BY <1>1, <2>4, <2>10, <2>11, <3>1 DEF Alone, Unclaimed
    <2>13. Counted'
      <3> SUFFICES ASSUME failures = 0, NEW q \in Receipts
                   PROVE  /\ settled'[q] \in 0..1
                          /\ ~Left(receipts[q]) /\ ~Completing(q)' => settled'[q] = 0
        BY <1>1 DEF Counted, Left
      <3>1. /\ settled[q] \in 0..1
            /\ ~Left(receipts[q]) /\ ~Completing(q) => settled[q] = 0
        BY DEF Alone, Counted
      <3>2. CASE q = r
        <4>1. settled[q] = 0
          BY <2>3, <2>10, <3>1, <3>2 DEF Left
        <4>2. settled'[q] = 1
          BY <1>3, <2>1, <3>2, <4>1, GhostsKnown
        <4> QED BY <2>10, <3>2, <4>2
      <3>3. CASE q # r
        <4>1. settled'[q] = settled[q]
          BY <1>3, <3>3, GhostsKnown
        <4> QED BY <2>11, <3>1, <4>1
      <3> QED BY <3>2, <3>3
    <2>14. MoneyFollowsReceipt'
      BY <1>1, <2>5, <2>6, GhostsKnown, MoneyStep DEF Alone
    <2>15. Blank'
      BY <1>1 DEF Alone, Blank
    <2>16. Agreed'
      <3>1. ASSUME NEW d \in Calls, Paying(d) PROVE Paying(d)' /\ loc'[d] = loc[d]
        BY <2>1, <2>5, <3>1 DEF Others, Paying
      <3> HIDE DEF t
      <3> QED BY <1>1, <2>1, <2>3, <2>4, <3>1 DEF Alone, Agreed
    <2> QED BY <2>6, <2>7, <2>9, <2>12, <2>13, <2>14, <2>15, <2>16 DEF Alone
  <1> QED BY <1>2, <1>3 DEF Settle

LEMMA AloneRefundCard == ASSUME Inv, Alone, NEW c \in Calls, RefundCard(c) PROVE Alone'
  <1>1. /\ pc[c] = "refund"
        /\ UNCHANGED <<receipts, cards, books, taken, drawn, settled, stray, failures>>
    BY DEF RefundCard, tables
  <1>2. Performed' = Performed
    BY <1>1 DEF Performed
  <1>3. /\ loc[c] \in Call /\ loc[c].op = "Cancel" /\ loc[c].id \in Receipts
        /\ loc[c].card \in Cards /\ Refunds(loc[c].row)
    BY <1>1, CallKnows DEF CallWellFormed, CallReached
  <1>4. Derived(loc[c], pc[c], receipts[loc[c].id])
    BY <1>3, CallIsAlone
  <1>5. CASE /\ loc' = [loc EXCEPT ![c].purse = Credited(cards[loc[c].card], Amount[loc[c].id])]
             /\ Goto(c, "update") /\ UNCHANGED torn
    <2> DEFINE purse == Credited(cards[loc[c].card], Amount[loc[c].id])
    <2>2. Others(c) /\ pc'[c] = "update"
      BY <1>5, GhostsKnown DEF Goto, Others
    <2> HIDE DEF purse
    <2>3. /\ loc'[c].op = "Cancel" /\ loc'[c].id = loc[c].id /\ loc'[c].row = loc[c].row
          /\ loc'[c].card = loc[c].card /\ loc'[c].purse = purse
      BY <1>3, <1>5, GhostsKnown DEF purse, Call
    <2>4. Exclusive'
      BY <2>2, <2>3, ExclusiveMove DEF Alone
    <2>5. Derived(loc'[c], pc'[c], receipts[loc[c].id])
      BY <1>1, <1>3, <1>4, <2>2, <2>3 DEF Derived
    <2> QED
      BY <1>1, <1>2, <1>5, <2>2, <2>3, <2>4, <2>5, CallAlone DEF Paying, CompletesNow
  <1>6. CASE torn' = [torn EXCEPT ![loc[c].id] = @ + 1] /\ Goto(c, "store") /\ UNCHANGED loc
    <2>1. Others(c) /\ pc'[c] = "store" /\ loc'[c] = loc[c]
      BY <1>6, GhostsKnown DEF Goto, Others
    <2>2. Exclusive'
      BY <2>1, ExclusiveMove DEF Alone
    <2>3. Derived(loc[c], "store", receipts[loc[c].id])
      BY <1>1, <1>3, <1>4 DEF Derived
    <2>4. MoneyFollowsReceipt'
      <3>1. Moved(loc'[c]) = -1
        BY <1>3, <2>1 DEF Moved, Takes
      <3>2. \A r \in Receipts : /\ taken'[r] = taken[r] /\ taken[r] \in Int /\ torn[r] \in Int
                                /\ torn'[r] = IF r = loc[c].id THEN torn[r] + 1 ELSE torn[r]
        BY <1>1, <1>6, GhostsKnown
      <3> QED BY <1>1, <1>3, <2>1, <2>2, <3>1, <3>2, GhostsKnown, MoneyMoves DEF Alone
    <2> QED BY <1>1, <1>2, <1>3, <2>1, <2>2, <2>3, <2>4, QuietAlone DEF Paying, CompletesNow
  <1> QED BY <1>1, <1>5, <1>6 DEF RefundCard

LEMMA AloneUpdateCard == ASSUME Inv, Alone, NEW c \in Calls, UpdateCard(c) PROVE Alone'
  <1> DEFINE k == loc[c].card
             r == loc[c].id
  <1>1. /\ pc[c] = "update" /\ cards' = [cards EXCEPT ![k] = loc[c].purse]
        /\ UNCHANGED <<receipts, books, settled, torn, stray, failures>>
    BY DEF UpdateCard
  <1>2. /\ loc[c] \in Call /\ k \in Cards /\ loc[c].op \in {"Pay", "Complete", "Cancel", "Remove"}
        /\ loc[c].op # "Remove" => r \in Receipts /\ Reached(loc[c].row, Performed)
        /\ loc[c].op \in {"Pay", "Complete"} => loc[c].row.txn \in Txns
    BY <1>1, CallKnows DEF CallWellFormed, CallReached
  <1>5. Performed' = Performed
    BY <1>1 DEF Performed
  <1>6. CASE loc[c].op = "Remove" /\ Ends(c) /\ UNCHANGED <<taken, drawn>>
    <2>1. Exclusive' /\ Others(c) /\ loc'[c] = NoCall /\ pc'[c] = "idle"
      BY <1>6, ExclusiveEnd DEF Alone
    <2>2. loc'[c].id \notin Receipts /\ loc'[c].op = "none"
      BY <2>1, NothingTyped, ServiceAssumption
    <2>4. MoneyFollowsReceipt'
      BY <1>1, <1>6, <2>1, GhostsKnown, MoneyStep DEF Alone
    <2> QED
      BY <1>1, <1>5, <1>6, <2>1, <2>2, <2>4, QuietAlone DEF Paying, CompletesNow
  <1>7. CASE /\ loc[c].op # "Remove" /\ Goto(c, "store") /\ UNCHANGED loc
             /\ taken' = [taken EXCEPT ![r] = @ + Takes(loc[c])]
             /\ drawn' = [drawn EXCEPT ![k] = @ + Takes(loc[c]) * Amount[r]]
    <2>1. r \in Receipts /\ Derived(loc[c], pc[c], receipts[r]) /\ Amount[r] \in Int
      BY <1>2, <1>7, CallIsAlone, ServiceAssumption
    <2>2. Others(c) /\ pc'[c] = "store" /\ loc'[c] = loc[c]
      BY <1>7, GhostsKnown DEF Goto, Others
    <2>3. Exclusive'
      BY <2>2, ExclusiveMove DEF Alone
    <2>4. Copies'
      <3>1. Derived(loc[c], "store", receipts[r])
        BY <1>1, <1>2, <1>7, <2>1 DEF Derived
      <3> QED BY <1>1, <2>2, <3>1, CopiesStep DEF Alone
    <2>6. Tokens'
      BY <1>1, <1>5, <2>2, TokensStep DEF Alone, Paying
    <2>7. \A q : Completing(q) => Completing(q)'
      BY <1>1, <2>2, CompletingStep DEF CompletesNow
    <2>8. Unclaimed' /\ Counted' /\ Blank'
      BY <1>1, <1>5, <2>7 DEF Alone, Unclaimed, Counted, Blank, Left
    <2>9. Agreed'
      <3>1. ASSUME NEW d \in Calls, Paying(d) PROVE Paying(d)' /\ loc'[d] = loc[d]
        BY <1>1, <2>2, <3>1 DEF Others, Paying
      <3> QED BY <1>1, <1>5, <3>1 DEF Alone, Agreed
    <2>10. MoneyFollowsReceipt'
      <3> DEFINE m == Takes(loc[c])
      <3>1. m \in Int /\ Moved(loc'[c]) = m
        BY <1>1, <2>1, <2>2 DEF Takes, Moved, Derived
      <3>2. taken' = [taken EXCEPT ![r] = @ + m]
        BY <1>7
      <3> HIDE DEF m
      <3>3. \A q \in Receipts : /\ torn'[q] = torn[q] /\ taken[q] \in Int /\ torn[q] \in Int
                                /\ taken'[q] = IF q = r THEN taken[q] + m ELSE taken[q]
        BY <1>1, <3>2, GhostsKnown
      <3> QED BY <1>1, <2>1, <2>2, <2>3, <3>1, <3>3, GhostsKnown, MoneyMoves DEF Alone
    <2> QED BY <2>3, <2>4, <2>6, <2>8, <2>9, <2>10 DEF Alone
  <1> QED BY <1>6, <1>7 DEF UpdateCard

\* What storing a row changes: its state, and with Pay its payment.
LEMMA RowStored ==
    ASSUME Inv, Alone, NEW c \in Calls, pc[c] = "store"
    PROVE  LET call == loc[c]
               old  == receipts[call.id]
               new  == call.row
           IN
           /\ call.op \in {"Pay", "Complete", "Cancel", "Confirm", "Advance"}
           /\ call.id \in Receipts /\ old \in ReceiptRow /\ new \in ReceiptRow /\ Left(new)
           /\ call.op = "Complete" => call.id \in Payouts
           /\ call.op = "Pay" => old.state = StateCreated /\ new.state = StateChecking
           /\ call.op # "Pay" => new.txn = old.txn
           /\ call.op # "Complete" => Owes(new) = Owes(old) + Moved(call)
           /\ Owes(old) \in Int /\ Moved(call) \in Int
  <1> DEFINE call == loc[c]
             old  == receipts[call.id]
             new  == call.row
  <1>1. /\ call \in Call /\ call.id \in Receipts /\ RowWellFormed(new) /\ Reached(new, Performed)
        /\ new \in ReceiptRow
    BY CallKnows DEF CallWellFormed, CallReached, Call
  <1>2. Derived(call, "store", old) /\ old \in ReceiptRow /\ RowWellFormed(old)
        /\ (old.state = StateCreated => ~old.charged)
    BY <1>1, CallIsAlone, RowKnows DEF Alone, Blank
  <1> HIDE DEF old
  <1>3. call.op \in {"Pay", "Complete", "Cancel", "Confirm", "Advance"}
        /\ (call.op = "Complete" => call.id \in Payouts)
    BY <1>2 DEF Derived
  <1>4. Left(new)
    BY <1>1 DEF Reached
  <1>5. Owes(old) \in Int /\ Moved(call) \in Int
    BY DEF Owes, Moved, Takes
  <1>6. CASE call.op = "Pay"
    <2>1. old.state = StateCreated /\ new.state = StateChecking
      BY <1>2, <1>6 DEF Derived
    <2>2. Owes(new) = 1 /\ Owes(old) = 0 /\ Moved(call) = 1
      BY <1>6, <2>1 DEF Owes, Begun, Moved, Takes
    <2> QED BY <1>1, <1>2, <1>3, <1>4, <1>5, <1>6, <2>1, <2>2 DEF old
  <1>7. CASE call.op = "Complete"
    <2>1. new.txn = old.txn
      BY <1>2, <1>7 DEF Derived, Completed, ReceiptRow
    <2> QED BY <1>1, <1>2, <1>3, <1>4, <1>5, <1>7, <2>1 DEF old
  <1>8. CASE call.op = "Confirm"
    <2>1. new.txn = old.txn /\ old.state = StateHeld /\ new.state = StatePaid
      BY <1>2, <1>8 DEF Derived, HoldConfirmed, ReceiptRow
    <2>2. Owes(new) = 1 /\ Owes(old) = 1 /\ Moved(call) = 0
      BY <1>8, <2>1 DEF Owes, Begun, Moved, Takes
    <2> QED BY <1>1, <1>2, <1>3, <1>4, <1>5, <1>8, <2>1, <2>2 DEF old
  <1>9. CASE call.op = "Advance"
    <2>1. CanAdvance(old) /\ Left(old) /\ new = Advanced(old)
      BY <1>2, <1>9 DEF Derived
    <2>2. old.state \in {StateChecking, StateWithdrawn, StateClosing, StateCancelQueued}
      BY <2>1 DEF CanAdvance, Progression, Left
    <2>3. /\ new.txn = old.txn
          /\ new.state = IF old.state = StateCancelQueued THEN StateCancelled
                         ELSE IF old.state = StateChecking THEN StateWithdrawn
                         ELSE IF old.state = StateWithdrawn THEN StateClosing
                         ELSE IF old.hold THEN StateHeld ELSE StatePaid
      BY <1>2, <2>1, <2>2, AdvancedTyped
    <2>4. Owes(new) = Owes(old) /\ Moved(call) = 0
      BY <1>9, <2>2, <2>3 DEF Owes, Begun, Moved, Takes
    <2> QED BY <1>1, <1>2, <1>3, <1>4, <1>5, <1>9, <2>3, <2>4 DEF old
  <1>10. CASE call.op = "Cancel"
    <2>1. Cancellable(old) /\ new = Cancelled(old)
      BY <1>2, <1>10 DEF Derived
    <2>2. /\ new.txn = old.txn /\ new.card = old.card /\ new.charged = old.charged
          /\ new.state = IF old.state = StateCreated THEN StateCancelled ELSE StateCancelQueued
          /\ old.state \in Begun \cup {StateCreated}
      BY <1>2, <2>1 DEF Cancelled, ReceiptRow, Cancellable, InProgress, Begun
    <2>3. CASE old.state = StateCreated
      <3>1. Owes(new) = 0 /\ Owes(old) = 0 /\ Moved(call) = 0
        BY <1>2, <1>10, <2>2, <2>3 DEF Owes, Begun, Moved, Refunds
      <3> QED BY <1>1, <1>2, <1>3, <1>4, <1>5, <1>10, <2>2, <3>1 DEF old
    <2>4. CASE old.state \in Begun
      <3>1. Refunds(new) /\ new.state = StateCancelQueued
        BY <1>2, <2>2, <2>4 DEF RowWellFormed, Refunds, Begun
      <3>2. Owes(new) = 0 /\ Owes(old) = 1 /\ Moved(call) = -1
        BY <1>10, <2>4, <3>1 DEF Owes, Begun, Moved, Takes
      <3> QED BY <1>1, <1>2, <1>3, <1>4, <1>5, <1>10, <2>2, <3>2 DEF old
    <2> QED BY <2>2, <2>3, <2>4
  <1> QED BY <1>3, <1>6, <1>7, <1>8, <1>9, <1>10

LEMMA AloneStore == ASSUME Inv, Alone, NEW c \in Calls, Store(c) PROVE Alone'
  <1> SUFFICES ASSUME NEW r \in Receipts, r = loc[c].id, NEW row \in ReceiptRow, row = loc[c].row
               PROVE  Alone'
    BY RowStored DEF Store
  <1>1. /\ pc[c] = "store" /\ receipts' = [receipts EXCEPT ![r] = row]
        /\ \/ Schedules(loc[c]) /\ Goto(c, "schedule") /\ UNCHANGED loc
           \/ Ends(c)
        /\ UNCHANGED <<cards, books, taken, drawn, settled, torn, stray, failures>>
    BY DEF Store, ghosts
  <1>2. /\ loc[c].op \in {"Pay", "Complete", "Cancel", "Confirm", "Advance"}
        /\ Left(row) /\ (loc[c].op = "Complete" => r \in Payouts)
        /\ loc[c].op = "Pay" => receipts[r].state = StateCreated
        /\ loc[c].op # "Pay" => row.txn = receipts[r].txn
        /\ loc[c].op # "Complete" => Owes(row) = Owes(receipts[r]) + Moved(loc[c])
        /\ Owes(receipts[r]) \in Int /\ Moved(loc[c]) \in Int
    BY <1>1, RowStored
  <1>3. receipts'[r] = row /\ \A q \in Receipts \ {r} : receipts'[q] = receipts[q]
    BY <1>1, GhostsKnown
  <1>4. Performed' = Performed
    BY <1>1 DEF Performed
  <1>5. \A d \in Calls \ {c} : loc[d].id # r
    BY CallIsAlone
  <1>6. /\ Others(c) /\ Exclusive'
        /\ \/ loc'[c] = loc[c] /\ pc'[c] = "schedule" /\ Schedules(loc[c])
           \/ loc'[c] = NoCall /\ pc'[c] = "idle"
    <2>1. CASE Ends(c)
      BY <2>1, ExclusiveEnd DEF Alone
    <2>2. CASE Schedules(loc[c]) /\ Goto(c, "schedule") /\ UNCHANGED loc
      <3>1. Others(c) /\ pc'[c] = "schedule" /\ loc'[c] = loc[c]
        BY <2>2, GhostsKnown DEF Goto, Others
      <3> QED BY <2>2, <3>1, ExclusiveMove DEF Alone
    <2> QED BY <1>1, <2>1, <2>2
  <1>7. Copies'
    <2>1. ASSUME loc'[c].id \in Receipts PROVE Derived(loc'[c], pc'[c], receipts'[loc'[c].id])
      <3>1. loc'[c] = loc[c] /\ pc'[c] = "schedule"
        BY <1>6, <2>1, NothingTyped, ServiceAssumption
      <3>2. Derived(loc[c], "schedule", row)
        BY <1>2 DEF Derived, Left
      <3> QED BY <1>3, <3>1, <3>2
    <2>2. \A d \in Calls \ {c} :
             loc[d].id \in Receipts => receipts'[loc[d].id] = receipts[loc[d].id]
      BY <1>3, <1>5
    <2> QED BY <1>6, <2>1, <2>2, CopiesStep DEF Alone
  <1>9. \A d \in Calls : Paying(d)' => d # c /\ Paying(d) /\ loc'[d] = loc[d] /\ pc'[d] = pc[d]
    BY <1>6 DEF Others, Paying
  <1>10. \A d \in Calls \ {c} : Paying(d) => Paying(d)' /\ loc'[d] = loc[d]
    BY <1>6 DEF Others, Paying
  <1>11. Tokens'
    <2>1. CASE loc[c].op = "Pay"
      <3>1. Paying(c)
        BY <1>1, <2>1 DEF Paying
      <3>2. \A q \in Receipts : row.txn # receipts[q].txn
        BY <3>1 DEF Alone, Tokens
      <3>3. \A d \in Calls \ {c} : Paying(d) => loc[d].row.txn # row.txn
        BY <3>1 DEF Alone, Tokens
      <3> QED BY <1>3, <1>4, <1>9, <3>2, <3>3 DEF Alone, Tokens
    <2>2. CASE loc[c].op # "Pay"
      <3>1. \A q \in Receipts : receipts'[q].txn = receipts[q].txn
        BY <1>2, <1>3, <2>2
      <3> QED BY <1>4, <1>9, <3>1 DEF Alone, Tokens
    <2> QED BY <2>1, <2>2
  <1>12. \A q \in Receipts \ {r} : Completing(q) => Completing(q)'
    BY <1>6 DEF Completing, Others
  <1>13. Unclaimed'
    BY <1>1, <1>2, <1>3, <1>4, <1>12 DEF Alone, Unclaimed, Left
  <1>14. Counted'
    BY <1>1, <1>2, <1>3, <1>12 DEF Alone, Counted, Left
  <1>15. Blank'
    BY <1>1, <1>2, <1>3 DEF Alone, Blank, Left
  <1>16. Agreed'
    <2>1. ASSUME NEW t \in Performed, receipts[r].txn = t
          PROVE  t \in stray \/ receipts'[r].txn = t
      <3>1. CASE loc[c].op = "Pay"
        <4>1. ~Completing(r)
          BY <1>5, <3>1 DEF Completing
        <4> QED BY <1>2, <2>1, <3>1, <4>1 DEF Alone, Unclaimed
      <3>2. CASE loc[c].op # "Pay"
        BY <1>2, <1>3, <2>1, <3>2
      <3> QED BY <3>1, <3>2
    <2> QED BY <1>1, <1>3, <1>4, <1>10, <2>1 DEF Alone, Agreed
  <1>17. MoneyFollowsReceipt'
    <2> SUFFICES ASSUME NEW q \in Receipts \ Payouts
                 PROVE  LET storing == {d \in Calls : pc'[d] = "store" /\ loc'[d].id = q} IN
                        /\ storing = {} => taken[q] = Owes(receipts'[q]) + torn[q]
                        /\ \A d \in storing :
                              taken[q] = Owes(receipts'[q]) + Moved(loc'[d]) + torn[q]
      BY <1>1 DEF MoneyFollowsReceipt
    <2> DEFINE before == {d \in Calls : pc[d] = "store" /\ loc[d].id = q}
               after  == {d \in Calls : pc'[d] = "store" /\ loc'[d].id = q}
    <2>1. /\ before = {} => taken[q] = Owes(receipts[q]) + torn[q]
          /\ \A d \in before : taken[q] = Owes(receipts[q]) + Moved(loc[d]) + torn[q]
      BY DEF Alone, MoneyFollowsReceipt
    <2>2. CASE q = r
      <3>1. c \in before /\ after = {}
        BY <1>1, <1>5, <1>6, <2>2 DEF Others
      <3>2. taken[q] \in Int /\ torn[q] \in Int
        BY GhostsKnown
      <3>3. taken[q] = Owes(receipts'[q]) + torn[q]
        BY <1>2, <1>3, <2>1, <2>2, <3>1, <3>2
      <3> QED BY <3>1, <3>3
    <2>3. CASE q # r
      <3>1. after = before /\ (\A d \in before : loc'[d] = loc[d]) /\ receipts'[q] = receipts[q]
        BY <1>1, <1>3, <1>6, <2>3 DEF Others
      <3> QED BY <2>1, <3>1
    <2> QED BY <2>2, <2>3
  <1> QED
    BY <1>6, <1>7, <1>11, <1>13, <1>14, <1>15, <1>16, <1>17 DEF Alone

\* A call that fails leaves what it has done to the ghosts.
LEMMA AloneFail == ASSUME Inv, Alone, NEW c \in Calls, Fail(c) PROVE Alone'
  <1>1. /\ Ends(c) /\ Leaves(c) /\ InFlight(c) /\ failures' # 0
        /\ UNCHANGED <<receipts, cards, books, taken, drawn, settled>>
    BY GhostsKnown DEF Fail, tables
  <1>2. Exclusive' /\ Others(c) /\ loc'[c] = NoCall /\ pc'[c] = "idle"
    BY <1>1, ExclusiveEnd DEF Alone
  <1>3. loc'[c].id \notin Receipts /\ loc'[c].op = "none"
    BY <1>2, NothingTyped, ServiceAssumption
  <1>4. Performed' = Performed
    BY <1>1 DEF Performed
  <1>5. /\ stray \subseteq stray'
        /\ pc[c] \in {"update", "store"} /\ loc[c].op \in {"Pay", "Complete"} =>
              loc[c].row.txn \in stray'
    BY <1>1 DEF Leaves
  <1>6. Copies'
    BY <1>1, <1>2, <1>3, CopiesStep DEF Alone
  <1>7. Tokens'
    BY <1>1, <1>2, <1>3, <1>4, TokensStep DEF Alone, Paying
  <1>8. Unclaimed'
    <2> SUFFICES ASSUME NEW q \in Receipts, receipts[q].state = StateCreated,
                        receipts[q].txn \in Performed
                 PROVE  receipts[q].txn \in stray' \/ Completing(q)'
      BY <1>1, <1>4 DEF Unclaimed
    <2>1. receipts[q].txn \in stray \/ Completing(q)
      BY DEF Alone, Unclaimed
    <2>2. CASE CompletesNow(c) /\ loc[c].id = q
      <3>1. Derived(loc[c], pc[c], receipts[q]) /\ receipts[q] \in ReceiptRow
        BY <2>2, CallIsAlone, GhostsKnown
      <3>2. loc[c].row = Completed(receipts[q])
        BY <2>2, <3>1 DEF Derived, CompletesNow
      <3>3. loc[c].row.txn = receipts[q].txn
        BY <3>1, <3>2 DEF Completed, ReceiptRow
      <3> QED BY <1>5, <2>2, <3>3 DEF CompletesNow
    <2>3. CASE ~(CompletesNow(c) /\ loc[c].id = q)
      BY <1>2, <1>5, <2>1, <2>3 DEF Completing, CompletesNow, Others
    <2> QED BY <2>2, <2>3
  <1>9. Counted'
    BY <1>1 DEF Counted
  <1>10. Blank'
    BY <1>1 DEF Alone, Blank
  <1>11. Agreed'
    <2>1. ASSUME NEW d \in Calls, Paying(d), loc[d].row.txn \in Performed
          PROVE  loc[d].row.txn \in stray' \/ (Paying(d)' /\ loc'[d] = loc[d])
      <3>1. CASE d = c
        BY <1>5, <2>1, <3>1 DEF Paying, Alone, Tokens
      <3>2. CASE d # c
        BY <1>2, <2>1, <3>2 DEF Paying, Others
      <3> QED BY <3>1, <3>2
    <2> QED BY <1>1, <1>4, <1>5, <2>1 DEF Alone, Agreed
  <1>12. MoneyFollowsReceipt'
    <2>1. CASE pc[c] # "store"
      <3>1. UNCHANGED torn
        BY <1>1, <2>1 DEF Leaves
      <3> QED BY <1>1, <1>2, <2>1, <3>1, GhostsKnown, MoneyStep DEF Alone
    <2>2. CASE pc[c] = "store"
      <3> DEFINE m == Moved(loc[c])
      <3>1. loc[c].id \in Receipts /\ m \in Int
        BY <2>2, RowStored
      <3>2. torn' = [torn EXCEPT ![loc[c].id] = @ + m]
        BY <1>1, <2>2 DEF Leaves
      <3> SUFFICES ASSUME NEW q \in Receipts \ Payouts
                   PROVE  LET storing == {d \in Calls : pc'[d] = "store" /\ loc'[d].id = q} IN
                          /\ storing = {} => taken[q] = Owes(receipts[q]) + torn'[q]
                          /\ \A d \in storing :
                                taken[q] = Owes(receipts[q]) + Moved(loc'[d]) + torn'[q]
        BY <1>1 DEF MoneyFollowsReceipt
      <3> DEFINE before == {d \in Calls : pc[d] = "store" /\ loc[d].id = q}
                 after  == {d \in Calls : pc'[d] = "store" /\ loc'[d].id = q}
                 owes   == Owes(receipts[q])
      <3>3. /\ before = {} => taken[q] = owes + torn[q]
            /\ \A d \in before : taken[q] = owes + Moved(loc[d]) + torn[q]
        BY DEF Alone, MoneyFollowsReceipt
      <3>4. owes \in Int /\ taken[q] \in Int /\ torn[q] \in Int
        BY GhostsKnown DEF Owes
      <3> HIDE DEF owes
      <3>5. CASE q = loc[c].id
        <4>1. c \in before /\ after = {}
          BY <1>2, <2>2, <3>5, CallIsAlone DEF Others
        <4>2. taken[q] = owes + m + torn[q]
          BY <3>3, <4>1
        <4> HIDE DEF m
        <4>3. torn'[q] = torn[q] + m
          BY <3>2, <3>5, GhostsKnown
        <4>4. taken[q] = owes + torn'[q]
          BY <3>1, <3>4, <4>2, <4>3
        <4> QED BY <4>1, <4>4 DEF owes
      <3>6. CASE q # loc[c].id
        <4>1. after = before /\ \A d \in before : loc'[d] = loc[d]
          BY <1>2, <2>2, <3>6 DEF Others
        <4>2. torn'[q] = torn[q]
          <5> HIDE DEF m
          <5> QED BY <3>2, <3>6, GhostsKnown
        <4> QED BY <3>3, <4>1, <4>2 DEF owes
      <3> QED BY <3>5, <3>6
    <2> QED BY <2>1, <2>2
  <1> QED BY <1>2, <1>6, <1>7, <1>8, <1>9, <1>10, <1>11, <1>12 DEF Alone

-----------------------------------------------------------------------------
LEMMA InitAlone == ASSUME Init PROVE Alone
  <1>1. \A c \in Calls : pc[c] = "idle" /\ loc[c] = NoCall
    BY DEF Init
  <1>2. \A c \in Calls : loc[c].id \notin Receipts /\ loc[c].op = "none" /\ loc[c].id = NoReceiptId
                         /\ loc[c].card = NoCard
    BY <1>1, NothingTyped, ServiceAssumption DEF NoCall
  <1>3. \A r \in Receipts : receipts[r] = NoReceipt /\ settled[r] = 0 /\ taken[r] = 0 /\ torn[r] = 0
    BY DEF Init
  <1>4. NoReceipt.state = Absent /\ NoReceipt.txn = NoTxn
    BY DEF NoReceipt
  <1>5. Performed = {}
    BY DEF Init, Performed
  <1>6. Exclusive /\ Copies
    BY <1>1, <1>2 DEF Exclusive, Copies
  <1>7. Blank /\ Tokens /\ Unclaimed /\ Agreed
    BY <1>1, <1>3, <1>4, <1>5 DEF Blank, Tokens, Paying, Unclaimed, Agreed
  <1>8. Counted
    BY <1>3 DEF Counted
  <1>9. MoneyFollowsReceipt
    <2>1. Owes(NoReceipt) = 0
      BY <1>4 DEF Owes, Begun
    <2>2. ASSUME NEW r \in Receipts PROVE taken[r] = Owes(receipts[r]) + torn[r]
      BY <1>3, <2>1
    <2> QED BY <1>1, <2>2 DEF MoneyFollowsReceipt
  <1> QED BY <1>6, <1>7, <1>8, <1>9 DEF Alone

LEMMA AloneNext == ASSUME Inv, Alone, Overlap # "any", [Next]_vars PROVE Alone'
  <1>1. ASSUME NEW r \in Receipts, ReceiptsCreate(r) PROVE Alone'
    BY <1>1, AloneCreate
  <1>2. ASSUME NEW c \in Requests, Request(c) PROVE Alone'
    BY <1>2, AlonePayBegin, AloneOpenBegin, AloneCompleteBegin, AloneConfirmBegin,
       AloneCancelBegin, AloneRemoveBegin DEF Request
  <1>3. ASSUME NEW c \in Timers, NEW r \in Receipts, AdvanceBegin(c, r) PROVE Alone'
    BY <1>3, AloneAdvanceBegin
  <1>4. ASSUME NEW c \in Calls, Step(c) \/ Fail(c) PROVE Alone'
    BY <1>4, AloneOpen, AlonePayCard, AlonePayCreate, AlonePayPerform, AlonePayee, AloneSettle,
       AloneRefundCard, AloneUpdateCard, AloneStore, AloneSchedule, AloneFail DEF Step
  <1>5. CASE SetBlocked \/ (\E r \in Receipts : LoseStep(r)) \/ UNCHANGED vars
    <2>1. /\ UNCHANGED <<receipts, cards, books, pc, loc, taken, drawn, settled, torn, stray>>
          /\ UNCHANGED failures \/ failures' # 0
      BY <1>5, GhostsKnown DEF SetBlocked, LoseStep, tables, ghosts, vars
    <2> QED BY <2>1, StillAlone
  <1> QED BY <1>1, <1>2, <1>3, <1>4, <1>5 DEF Next

LEMMA AloneSafety == ASSUME Overlap # "any" PROVE Spec => [](Inv /\ Alone)
  <1>1. Init => Inv /\ Alone
    BY InitKeeps, InitAlone
  <1>2. Inv /\ Alone /\ [Next]_vars => (Inv /\ Alone)'
    BY NextKeeps, AloneNext
  <1> QED BY <1>1, <1>2, PTL DEF Spec

\* While calls about one receipt or card keep apart, whatever fails in between, a
\* receipt has taken its amount from the card exactly while its row says so
\* (ReceiptsPay, ReceiptsCancel: the card is written before the receipt).
THEOREM MoneySafety == ASSUME Overlap # "any" PROVE Spec => []MoneyFollowsReceipt
  <1>1. Inv /\ Alone => MoneyFollowsReceipt
    BY DEF Alone
  <1> QED BY <1>1, AloneSafety, PTL

\* While calls about one receipt keep apart, the merchant performs no payment that
\* is not on a receipt, in its call, or answered to a call that had ended.
THEOREM MerchantSafety == ASSUME Overlap # "any" PROVE Spec => []MerchantAgrees
  <1>1. Inv /\ Alone => MerchantAgrees
    BY AloneMeans
  <1> QED BY <1>1, AloneSafety, PTL

\* While calls about one receipt keep apart and none fails, the register pays a
\* payout once (TransactionsComplete settles before it stores).
THEOREM SettleSafety == ASSUME Overlap # "any" PROVE Spec => []SettledOnce
  <1>1. Inv /\ Alone => SettledOnce
    BY AloneMeans
  <1> QED BY <1>1, AloneSafety, PTL

-----------------------------------------------------------------------------
(* The stored rows live the life ReceiptLife prescribes.                       *)
LEMMA LifeNames ==
    /\ LifeState[Absent] = "absent" /\ LifeState[StateCreated] = "created"
    /\ LifeState[StateChecking] = "checking" /\ LifeState[StateWithdrawn] = "withdrawn"
    /\ LifeState[StateClosing] = "closing" /\ LifeState[StatePaid] = "paid"
    /\ LifeState[StateHeld] = "held" /\ LifeState[StateCancelQueued] = "cancelling"
    /\ LifeState[StateCancelled] = "cancelled"
  BY DEF LifeState, ReceiptState

\* What a row becomes when it is stored.
Lives(old, new) ==
    \/ /\ old.state = StateCreated /\ new.state = StateChecking
       /\ new.txn \in Txns /\ (old.hold => new.hold)
    \/ /\ new.txn = old.txn
       /\ \/ /\ new.hold = old.hold
             /\ \/ old.state = StateCreated /\ old.txn # NoTxn /\ new.state = StatePaid
                \/ old.state = StateChecking /\ new.state = StateWithdrawn
                \/ old.state = StateWithdrawn /\ new.state = StateClosing
                \/ old.state = StateClosing /\ old.hold /\ new.state = StateHeld
                \/ old.state = StateClosing /\ ~old.hold /\ new.state = StatePaid
                \/ old.state \in {StateCreated, StateCancelQueued} /\ new.state = StateCancelled
                \/ old.state \in Begun /\ new.state = StateCancelQueued
          \/ old.state = StateHeld /\ new.state = StatePaid /\ new.hold = FALSE

LEMMA StoredLives ==
    ASSUME Inv, Alone, NEW c \in Calls, pc[c] = "store"
    PROVE  loc[c].id \in Receipts /\ Lives(receipts[loc[c].id], loc[c].row)
  <1> SUFFICES ASSUME NEW call, call = loc[c], NEW old, old = receipts[call.id], NEW new, new = call.row
               PROVE  call.id \in Receipts /\ Lives(old, new)
    OBVIOUS
  <1>1. /\ call.id \in Receipts /\ old \in ReceiptRow /\ new \in ReceiptRow
        /\ call.op \in {"Pay", "Complete", "Cancel", "Confirm", "Advance"}
        /\ call.op = "Complete" => call.id \in Payouts
    BY RowStored
  <1>2. /\ Derived(call, "store", old) /\ PayoutNamed(call.id, old)
        /\ (call.op = "Pay" => new.txn \in Txns)
    BY <1>1, CallIsAlone, CallKnows, RowKnows DEF CallReached
  <1>3. CASE call.op = "Pay"
    BY <1>1, <1>2, <1>3 DEF Derived, Lives
  <1>4. CASE call.op = "Complete"
    <2>1. old.state = StateCreated /\ new = Completed(old)
      BY <1>2, <1>4 DEF Derived
    <2>2. new.state = StatePaid /\ new.hold = old.hold /\ new.txn = old.txn
      BY <1>1, <2>1 DEF Completed, ReceiptRow
    <2>3. old.txn # NoTxn
      BY <1>1, <1>2, <1>4, <2>1, ReceiptAssumption DEF PayoutNamed
    <2> QED BY <1>1, <2>1, <2>2, <2>3 DEF Lives
  <1>5. CASE call.op = "Confirm"
    <2>1. old.state = StateHeld /\ new = HoldConfirmed(old)
      BY <1>2, <1>5 DEF Derived
    <2>2. new.state = StatePaid /\ new.hold = FALSE /\ new.txn = old.txn
      BY <1>1, <2>1 DEF HoldConfirmed, ReceiptRow
    <2> QED BY <1>1, <2>1, <2>2 DEF Lives
  <1>6. CASE call.op = "Advance"
    <2>1. CanAdvance(old) /\ Left(old) /\ new = Advanced(old)
      BY <1>2, <1>6 DEF Derived
    <2>2. old.state \in {StateChecking, StateWithdrawn, StateClosing, StateCancelQueued}
      BY <2>1 DEF CanAdvance, Progression, Left
    <2>3. /\ new.txn = old.txn /\ new.hold = old.hold
          /\ new.state = IF old.state = StateCancelQueued THEN StateCancelled
                         ELSE IF old.state = StateChecking THEN StateWithdrawn
                         ELSE IF old.state = StateWithdrawn THEN StateClosing
                         ELSE IF old.hold THEN StateHeld ELSE StatePaid
      BY <1>1, <2>1, <2>2, AdvancedTyped
    <2> QED BY <1>1, <2>2, <2>3 DEF Lives
  <1>7. CASE call.op = "Cancel"
    <2>1. Cancellable(old) /\ new = Cancelled(old)
      BY <1>2, <1>7 DEF Derived
    <2>2. /\ new.txn = old.txn /\ new.hold = old.hold
          /\ new.state = IF old.state = StateCreated THEN StateCancelled ELSE StateCancelQueued
          /\ old.state \in Begun \cup {StateCreated}
      BY <1>1, <2>1 DEF Cancelled, ReceiptRow, Cancellable, InProgress, Begun
    <2> QED BY <1>1, <2>2 DEF Lives
  <1> QED BY <1>1, <1>3, <1>4, <1>5, <1>6, <1>7

\* A step that opens a row or stores one.
RowMoves(r, row) ==
    /\ receipts' = [receipts EXCEPT ![r] = row]
    /\ \/ Lives(receipts[r], row)
       \/ /\ receipts[r] = NoReceipt /\ row.state = StateCreated
          /\ \/ row.txn = NoTxn
             \/ row.txn \in Txns /\ row.hold = FALSE

LEMMA RowsMove ==
    ASSUME Inv, Alone, [Next]_vars, receipts' # receipts
    PROVE  \E r \in Receipts, row \in ReceiptRow : RowMoves(r, row)
  <1>1. \/ \E r \in Receipts : ReceiptsCreate(r)
        \/ \E c \in Requests, r \in Receipts, k \in Cards : OpenBegin(c, r, k)
        \/ \E c \in Calls : Store(c)
    BY DEF Next, Request, Step, LoseStep, CompleteBegin, ConfirmBegin, CancelBegin, RemoveBegin,
           PayBegin, AdvanceBegin, Open, PayCard, PayCreate, PayPerform, Payee, Settle, RefundCard,
           UpdateCard, Schedule, Fail, SetBlocked, vars, tables
  <1>2. ASSUME NEW r \in Receipts, ReceiptsCreate(r)
        PROVE  \E row \in ReceiptRow : RowMoves(r, row)
    <2>1. PICK hold \in BOOLEAN : receipts' = [receipts EXCEPT ![r] = NewReceipt(hold)]
      BY <1>2 DEF ReceiptsCreate
    <2>2. /\ NewReceipt(hold) \in ReceiptRow /\ NewReceipt(hold).state = StateCreated
          /\ NewReceipt(hold).txn = NoTxn
      BY DEF NewReceipt, NoReceipt, ReceiptRow, ReceiptState
    <2>3. receipts[r] = NoReceipt
      BY <1>2 DEF ReceiptsCreate, Alone, Blank
    <2>4. RowMoves(r, NewReceipt(hold))
      BY <2>1, <2>2, <2>3 DEF RowMoves
    <2> QED BY <2>2, <2>4
  <1>3. ASSUME NEW c \in Requests, NEW r \in Receipts, NEW k \in Cards, OpenBegin(c, r, k)
        PROVE  \E row \in ReceiptRow : RowMoves(r, row)
    <2>1. PICK t \in Txns : receipts' = [receipts EXCEPT ![r] = NewPayout(k, t)]
      BY <1>3 DEF OpenBegin
    <2>2. NewPayout(k, t) \in ReceiptRow
      BY PayoutTyped
    <2>3. NewPayout(k, t).state = StateCreated /\ NewPayout(k, t).txn = t
          /\ NewPayout(k, t).hold = FALSE
      BY DEF NewPayout, NoReceipt
    <2>4. receipts[r] = NoReceipt
      BY <1>3 DEF OpenBegin, Alone, Blank
    <2>5. RowMoves(r, NewPayout(k, t))
      BY <2>1, <2>3, <2>4 DEF RowMoves
    <2> QED BY <2>2, <2>5
  <1>4. ASSUME NEW c \in Calls, Store(c)
        PROVE  \E r \in Receipts, row \in ReceiptRow : RowMoves(r, row)
    <2>1. /\ loc[c].id \in Receipts /\ loc[c].row \in ReceiptRow
          /\ Lives(receipts[loc[c].id], loc[c].row)
      BY <1>4, StoredLives, RowStored DEF Store
    <2>2. RowMoves(loc[c].id, loc[c].row)
      BY <1>4, <2>1 DEF Store, RowMoves
    <2> QED BY <2>1, <2>2
  <1> QED BY <1>1, <1>2, <1>3, <1>4

\* While calls about one receipt keep apart the stored rows live the life the
\* protocol prescribes: the service implements ReceiptLife.
THEOREM ReceiptLifeImplemented == ASSUME Overlap # "any" PROVE Spec => ImplementsLife
  <1> DEFINE status == [r \in Receipts |-> LifeState[receipts[r].state]]
             payment == [r \in Receipts |-> receipts[r].txn]
             held == [r \in Receipts |-> receipts[r].hold]
  <1>1. Init => Life!Init
    BY LifeNames DEF Init, Life!Init, NoReceipt
  <1>2. Inv /\ Alone /\ [Next]_vars => [Life!Next]_<<status, payment, held>>
    <2> SUFFICES ASSUME Inv, Alone, [Next]_vars, receipts' # receipts PROVE Life!Next
      OBVIOUS
    <2>1. PICK r \in Receipts, row \in ReceiptRow : RowMoves(r, row)
      BY RowsMove
    <2>2. receipts[r] \in ReceiptRow
          /\ \A q \in Receipts : receipts'[q] = IF q = r THEN row ELSE receipts[q]
      BY <2>1, GhostsKnown DEF RowMoves
    <2>3. /\ status' = [status EXCEPT ![r] = LifeState[row.state]]
          /\ payment' = [payment EXCEPT ![r] = row.txn]
          /\ held' = [held EXCEPT ![r] = row.hold]
      BY <2>2
    <2>4. /\ status[r] = LifeState[receipts[r].state] /\ payment[r] = receipts[r].txn
          /\ held[r] = receipts[r].hold
          /\ row.hold \in BOOLEAN
      BY DEF ReceiptRow
    <2>5. row.txn = receipts[r].txn => payment' = payment
      BY <2>2
    <2>6. row.hold = receipts[r].hold => held' = held
      BY <2>2
    <2>7. CASE /\ receipts[r] = NoReceipt /\ row.state = StateCreated
               /\ row.txn = NoTxn \/ (row.txn \in Txns /\ row.hold = FALSE)
      <3>1. /\ status[r] = "absent" /\ LifeState[row.state] = "created"
            /\ receipts[r].txn = NoTxn /\ receipts[r].hold = FALSE
        BY <2>7, LifeNames DEF NoReceipt
      <3>2. Life!Open(r)
        BY <2>3, <2>4, <2>5, <2>6, <2>7, <3>1 DEF Life!Open, Life!Moves
      <3> QED BY <3>2 DEF Life!Next
    <2>8. CASE /\ receipts[r].state = StateCreated /\ row.state = StateChecking
               /\ row.txn \in Txns /\ (receipts[r].hold => row.hold)
      <3>1. status[r] = "created" /\ LifeState[row.state] = Life!Walk[1]
        BY <2>8, LifeNames DEF Life!Walk
      <3>2. Life!Begin(r)
        BY <2>3, <2>4, <2>8, <3>1 DEF Life!Begin, Life!Moves
      <3> QED BY <3>2 DEF Life!Next
    <2>9. CASE /\ receipts[r].state = StateCreated /\ row.state = StatePaid
               /\ receipts[r].txn # NoTxn /\ row.txn = receipts[r].txn
               /\ row.hold = receipts[r].hold
      <3>1. status[r] = "created" /\ LifeState[row.state] = "paid"
        BY <2>9, LifeNames
      <3>2. Life!Complete(r)
        BY <2>3, <2>4, <2>5, <2>6, <2>9, <3>1 DEF Life!Complete, Life!Moves
      <3> QED BY <3>2 DEF Life!Next
    <2>10. CASE /\ row.txn = receipts[r].txn /\ row.hold = receipts[r].hold
                /\ \/ receipts[r].state = StateChecking /\ row.state = StateWithdrawn
                   \/ receipts[r].state = StateWithdrawn /\ row.state = StateClosing
                   \/ receipts[r].state = StateClosing /\ receipts[r].hold /\ row.state = StateHeld
                   \/ receipts[r].state = StateClosing /\ ~receipts[r].hold /\ row.state = StatePaid
      <3>1. Life!Walk[1] = "checking" /\ Life!Walk[2] = "withdrawn" /\ Life!Walk[3] = "closing"
            /\ Life!Walk[4] = "paid"
        BY DEF Life!Walk
      <3>2. \E i \in 1..3 : /\ status[r] = Life!Walk[i]
                            /\ LifeState[row.state] =
                                  IF i = 3 /\ held[r] THEN "held" ELSE Life!Walk[i + 1]
        BY <2>4, <2>10, <3>1, LifeNames
      <3>3. Life!Step(r)
        BY <2>3, <2>5, <2>6, <2>10, <3>2 DEF Life!Step, Life!Moves
      <3> QED BY <3>3 DEF Life!Next
    <2>11. CASE /\ row.txn = receipts[r].txn /\ row.hold = FALSE
                /\ receipts[r].state = StateHeld /\ row.state = StatePaid
      <3>1. status[r] = "held" /\ LifeState[row.state] = "paid"
        BY <2>11, LifeNames
      <3>2. Life!Confirm(r)
        BY <2>3, <2>4, <2>5, <2>11, <3>1 DEF Life!Confirm, Life!Moves
      <3> QED BY <3>2 DEF Life!Next
    <2>12. CASE /\ row.txn = receipts[r].txn /\ row.hold = receipts[r].hold
                /\ \/ /\ receipts[r].state \in {StateCreated, StateCancelQueued}
                      /\ row.state = StateCancelled
                   \/ receipts[r].state \in Begun /\ row.state = StateCancelQueued
      <3>1. \/ status[r] = "created" /\ LifeState[row.state] = "cancelled"
            \/ /\ status[r] \in {"checking", "withdrawn", "closing", "held", "paid"}
               /\ LifeState[row.state] = "cancelling"
            \/ status[r] = "cancelling" /\ LifeState[row.state] = "cancelled"
        BY <2>4, <2>12, LifeNames DEF Begun
      <3>2. Life!Cancel(r)
        BY <2>3, <2>5, <2>6, <2>12, <3>1 DEF Life!Cancel, Life!Moves
      <3> QED BY <3>2 DEF Life!Next
    <2> QED BY <2>1, <2>7, <2>8, <2>9, <2>10, <2>11, <2>12 DEF RowMoves, Lives
  <1> QED BY <1>1, <1>2, AloneSafety, PTL DEF ImplementsLife, Life!Spec, Spec
===============================================================================
