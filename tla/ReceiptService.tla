--------------------------- MODULE ReceiptService ---------------------------
(***************************************************************************)
(* The receipts and payouts of the Subscribe API                            *)
(* (subscribe/application/service.go): paying a receipt through the         *)
(* merchant, the background walk of its state, holds, cancellation and      *)
(* refund, and payouts through the cashbox ledger.                          *)
(*                                                                          *)
(* As in MerchantService every statement commits on its own and a call      *)
(* keeps in loc[c] the rows it has read; receipts.Update and cards.Update   *)
(* write the whole row from that copy.  The cashbox ledger alone runs in a  *)
(* database transaction with the register's row locked, so settling a       *)
(* payout is one step.                                                      *)
(*                                                                          *)
(* The merchant is any Merchant API endpoint: each of its calls may be      *)
(* refused or not arrive, be done and answered, or be done and its answer   *)
(* lost (merchantclient.go), which the client reports like a refusal.       *)
(*                                                                          *)
(* Overlap: "serial" one call or background step at a time; "receipt" calls *)
(* and steps touching one receipt or one card do not overlap; "any" every   *)
(* interleaving, which is what the server accepts.                          *)
(***************************************************************************)
EXTENDS Receipt, Cashbox, FiniteSets

CONSTANTS
    Receipts,         \* receipt ids
    Payouts,          \* those that transactions.create opens
    NoReceiptId,      \* a call about no receipt
    Requests,         \* slots for requests in flight
    Timers,           \* slots for background steps in flight
    Amount,           \* receipts.amount
    CardBalance,      \* what a card holds at first
    RegisterBalance,  \* what the register holds at first
    Overlap,
    MaxFailures,      \* bound on failed calls and restarts
    CanRemove,        \* bound: whether cards.remove is called
    CanBlock          \* bound: whether the console stops the register

Calls == Requests \cup Timers

ASSUME ServiceAssumption ==
    /\ Payouts \subseteq Receipts
    /\ NoReceiptId \notin Receipts
    /\ Requests \cap Timers = {}
    /\ Amount \in [Receipts -> Nat \ {0}]
    /\ CardBalance \in Nat
    /\ RegisterBalance \in Nat
    /\ Overlap \in {"serial", "receipt", "any"}
    /\ MaxFailures \in Nat
    /\ {CanRemove, CanBlock} \subseteq BOOLEAN

VARIABLES
    receipts,  \* mock.receipts
    cards,     \* mock.cards
    books,     \* the merchant's transactions: of payments, and of payouts
    register,  \* the register's merchant.accounts.balance
    blocked,   \* the register's merchant.accounts.blocked
    pending,   \* per receipt: background steps scheduled and not begun
    pc,        \* per call: the statement it runs next
    loc,       \* per call: its parameters and the rows it has read
    taken,     \* ghost: what a receipt took from a card, in amounts
    drawn,     \* ghost: what was taken from a card, in tiyin
    settled,   \* ghost: how often the register paid a payout
    torn,      \* ghost: the part of taken no row accounts for: calls that ended before
               \*        storing it, and refunds whose card was not found
    stray,     \* ghost: payments the merchant made whose answer nobody stored
    overtaken, \* ghost: calls whose copy of a card is older than its last write
    crossed,   \* ghost: cards written from such a copy
    onHold,    \* ghost: payments begun with a hold that no confirmation has been stored for
    failures   \* ghost: failed calls and restarts so far

tables == <<receipts, cards, books, register, blocked>>
ghosts == <<taken, drawn, settled, torn, stray>>
memory == <<overtaken, crossed, onHold>>
vars == <<receipts, cards, books, register, blocked, pending, pc, loc,
          taken, drawn, settled, torn, stray, overtaken, crossed, onHold, failures>>

Statements ==
    {"idle", "open", "card", "create", "perform", "payee", "settle",
     "refund", "update", "store", "schedule"}

Call ==
    [op : {"none", "Open", "Pay", "Complete", "Confirm", "Cancel", "Remove", "Advance"},
     id : Receipts \cup {NoReceiptId}, row : ReceiptRow,
     card : Cards \cup {NoCard}, purse : CardRow]

NoPurse == [balance |-> 0, removed |-> FALSE]

NoCall ==
    [op |-> "none", id |-> NoReceiptId, row |-> NoReceipt, card |-> NoCard, purse |-> NoPurse]

InFlight(c) == pc[c] # "idle"

\* The environment's choice, see Overlap above.
MayBegin(c, r, k) ==
    /\ pc[c] = "idle"
    /\ Overlap = "serial" => \A d \in Calls : ~InFlight(d)
    /\ Overlap = "receipt" =>
          \A d \in Calls : InFlight(d) =>
              /\ loc[d].id = r => r = NoReceiptId
              /\ loc[d].card = k => k = NoCard

Goto(c, s) == pc' = [pc EXCEPT ![c] = s]

Ends(c) == /\ Goto(c, "idle")
           /\ loc' = [loc EXCEPT ![c] = NoCall]

\* A request begins with what it was asked and the receipt it has read.
Begins(c, op, r, row, k, s) ==
    /\ loc' = [loc EXCEPT ![c] = [NoCall EXCEPT !.op = op, !.id = r, !.row = row, !.card = k]]
    /\ Goto(c, s)

\* tokens.TransactionID never repeats itself.
Fresh(t) ==
    /\ books[t] = "none"
    /\ \A r \in Receipts : receipts[r].txn # t
    /\ \A c \in Calls : loc[c].row.txn # t

Init ==
    /\ receipts = [r \in Receipts |-> NoReceipt]
    /\ cards = [k \in Cards |-> [balance |-> CardBalance, removed |-> FALSE]]
    /\ books = [t \in Txns |-> "none"]
    /\ register = RegisterBalance
    /\ blocked = FALSE
    /\ pending = [r \in Receipts |-> 0]
    /\ pc = [c \in Calls |-> "idle"]
    /\ loc = [c \in Calls |-> NoCall]
    /\ taken = [r \in Receipts |-> 0]
    /\ drawn = [k \in Cards |-> 0]
    /\ settled = [r \in Receipts |-> 0]
    /\ torn = [r \in Receipts |-> 0]
    /\ stray = {}
    /\ overtaken = {} /\ crossed = {}
    /\ onHold = {}
    /\ failures = 0
-----------------------------------------------------------------------------
(* ReceiptsCreate and ReceiptsPay *)

\* The merchant agreed to a check, and a row under a new id is inserted.
ReceiptsCreate(r) ==
    /\ r \in Receipts \ Payouts
    /\ receipts[r].state = Absent
    /\ \E hold \in BOOLEAN : receipts' = [receipts EXCEPT ![r] = NewReceipt(hold)]
    /\ UNCHANGED <<cards, books, register, blocked, pending, pc, loc, ghosts, failures, memory>>

PayBegin(c, r, k) ==
    /\ MayBegin(c, r, k)
    /\ receipts[r].state # Absent
    /\ Begins(c, "Pay", r, receipts[r], k, "card")
    /\ UNCHANGED <<tables, pending, ghosts, failures, memory>>

\* The card is read and cleared, the payment begun in memory, and the merchant
\* asked; a refusal of any of them ends the call.
PayCard(c) ==
    LET call == loc[c]
        amount == Amount[call.id]
    IN
    /\ pc[c] = "card"
    /\ \/ Ends(c)
       \/ /\ Usable(cards[call.card], amount)
          /\ AwaitsPayment(call.row)
          /\ \E hold \in BOOLEAN :
               /\ call.row.hold => hold
               /\ loc' = [loc EXCEPT ![c].row = BeginPay(call.row, call.card, hold),
                                     ![c].purse = Charged(cards[call.card], amount)]
          /\ Goto(c, "create")
    /\ overtaken' = overtaken \ {c}
    /\ UNCHANGED <<tables, pending, ghosts, failures, crossed, onHold>>

\* CreateTransaction at the merchant: refused, done, or done and unanswered.
PayCreate(c) ==
    /\ pc[c] = "create"
    /\ \/ Ends(c) /\ UNCHANGED <<books, onHold>>
       \/ \E t \in Txns :
             /\ Fresh(t)                                 \* bound: an id is left
             /\ books' = [books EXCEPT ![t] = "created"]
             /\ onHold' = IF loc[c].row.hold THEN onHold \cup {t} ELSE onHold
             /\ \/ Ends(c)
                \/ loc' = [loc EXCEPT ![c].row.txn = t] /\ Goto(c, "perform")
    /\ UNCHANGED <<receipts, cards, register, blocked, pending, ghosts, overtaken, crossed,
                   failures>>

\* A mistake: an unanswered call is taken for a performed one.
PayPerformAssumed(c) ==
    /\ pc[c] = "perform"
    /\ \/ books' = [books EXCEPT ![loc[c].row.txn] = "performed"]
       \/ UNCHANGED books
    /\ Goto(c, "update")
    /\ UNCHANGED <<receipts, cards, register, blocked, pending, loc, ghosts, failures, memory>>

\* PerformTransaction at the merchant, likewise.
PayPerform(c) ==
    LET t == loc[c].row.txn IN
    /\ pc[c] = "perform"
    /\ \/ Ends(c) /\ UNCHANGED <<books, stray>>
       \/ /\ books' = [books EXCEPT ![t] = "performed"]
          /\ \/ Ends(c) /\ stray' = stray \cup {t}
             \/ Goto(c, "update") /\ UNCHANGED <<loc, stray>>
    /\ UNCHANGED <<receipts, cards, register, blocked, pending, taken, drawn, settled, torn,
                   failures, memory>>
-----------------------------------------------------------------------------
(* TransactionsCreate and TransactionsComplete *)

\* The receipt is stored with its card and its payment before the ledger hears of it.
OpenBegin(c, r, k) ==
    /\ MayBegin(c, r, k)
    /\ r \in Payouts
    /\ receipts[r].state = Absent
    /\ ~cards[k].removed
    /\ \E t \in Txns :
          /\ Fresh(t)                                    \* bound: an id is left
          /\ receipts' = [receipts EXCEPT ![r] = NewPayout(k, t)]
          /\ Begins(c, "Open", r, NewPayout(k, t), k, "open")
    /\ UNCHANGED <<cards, books, register, blocked, pending, ghosts, failures, memory>>

\* OpenPayout: a stopped register refuses, a repeat leaves what is there.
Open(c) ==
    LET t == loc[c].row.txn IN
    /\ pc[c] = "open"
    /\ \/ blocked /\ UNCHANGED books
       \/ ~blocked /\ books' = [books EXCEPT ![t] = IF @ = "none" THEN "created" ELSE @]
    /\ Ends(c)
    /\ UNCHANGED <<receipts, cards, register, blocked, pending, ghosts, failures, memory>>

CompleteBegin(c, r) ==
    /\ MayBegin(c, r, receipts[r].card)
    /\ r \in Payouts
    /\ receipts[r].state # Absent
    /\ Begins(c, "Complete", r, receipts[r], receipts[r].card, "payee")
    /\ UNCHANGED <<tables, pending, ghosts, failures, memory>>

\* A mistake: the stored state is not looked at.
PayeeUnchecked(c) ==
    /\ pc[c] = "payee"
    /\ loc' = [loc EXCEPT ![c].row = Completed(loc[c].row),
                          ![c].purse = Credited(cards[loc[c].card], Amount[loc[c].id])]
    /\ Goto(c, "settle")
    /\ overtaken' = overtaken \ {c}
    /\ UNCHANGED <<tables, pending, ghosts, failures, crossed, onHold>>

\* payoutCard; a paid payout is answered as it stands, one that does not wait, a
\* card this register no longer sees and a wrong amount are refused.
Payee(c) ==
    LET call == loc[c] IN
    /\ pc[c] = "payee"
    /\ \/ Ends(c)
       \/ /\ AwaitsPayment(call.row)
          /\ loc' = [loc EXCEPT ![c].row = Completed(call.row),
                                ![c].purse = Credited(cards[call.card], Amount[call.id])]
          /\ Goto(c, "settle")
    /\ overtaken' = overtaken \ {c}
    /\ UNCHANGED <<tables, pending, ghosts, failures, crossed, onHold>>

\* SettlePayout: the register's row is locked, so this is one step.
Settle(c) ==
    LET call == loc[c]
        amount == Amount[call.id]
    IN
    /\ pc[c] = "settle"
    /\ \/ /\ Refuses(blocked, register, amount)
          /\ Ends(c)
          /\ UNCHANGED <<books, register, settled>>
       \/ /\ ~Refuses(blocked, register, amount)
          /\ register' = Apply(register, amount)
          /\ books' = [books EXCEPT ![call.row.txn] = "performed"]
          /\ settled' = [settled EXCEPT ![call.id] = @ + 1]
          /\ Goto(c, "update")
          /\ UNCHANGED loc
    /\ UNCHANGED <<receipts, cards, blocked, pending, taken, drawn, torn, stray, failures, memory>>
-----------------------------------------------------------------------------
(* ReceiptsConfirmHold, ReceiptsCancel and CardsRemove *)

ConfirmBegin(c, r) ==
    /\ MayBegin(c, r, NoCard)
    /\ receipts[r].state = StateHeld
    /\ Begins(c, "Confirm", r, HoldConfirmed(receipts[r]), NoCard, "store")
    /\ UNCHANGED <<tables, pending, ghosts, failures, memory>>

\* A repeat of a cancellation changes nothing and is left out.
CancelBegin(c, r) ==
    LET row == Cancelled(receipts[r]) IN
    /\ MayBegin(c, r, receipts[r].card)
    /\ Cancellable(receipts[r])
    /\ Begins(c, "Cancel", r, row, receipts[r].card, IF Refunds(row) THEN "refund" ELSE "store")
    /\ UNCHANGED <<tables, pending, ghosts, failures, memory>>

\* A card this register no longer sees (the console blocked or deleted it) leaves
\* nothing to refund, and the cancellation goes on.
RefundCard(c) ==
    LET call == loc[c] IN
    /\ pc[c] = "refund"
    /\ \/ /\ loc' = [loc EXCEPT ![c].purse = Credited(cards[call.card], Amount[call.id])]
          /\ Goto(c, "update")
          /\ UNCHANGED torn
       \/ /\ torn' = [torn EXCEPT ![call.id] = @ + 1]
          /\ Goto(c, "store")
          /\ UNCHANGED loc
    /\ overtaken' = overtaken \ {c}
    /\ UNCHANGED <<tables, pending, taken, drawn, settled, stray, failures, crossed, onHold>>

\* CardsRemove reads the card and writes it back removed.
RemoveBegin(c, k) ==
    /\ CanRemove
    /\ MayBegin(c, NoReceiptId, k)
    /\ loc' = [loc EXCEPT ![c] = [NoCall EXCEPT !.op = "Remove", !.card = k,
                                                !.purse = [cards[k] EXCEPT !.removed = TRUE]]]
    /\ Goto(c, "update")
    /\ overtaken' = overtaken \ {c}
    /\ UNCHANGED <<tables, pending, ghosts, failures, crossed, onHold>>
-----------------------------------------------------------------------------
(* The statements the operations share *)

\* What a call takes from its card: the amount, less what it gives back.
Takes(call) ==
    IF call.op = "Pay" THEN 1 ELSE IF call.op \in {"Complete", "Cancel"} THEN -1 ELSE 0

\* What a call that is about to store its receipt has already taken.
Moved(call) ==
    IF call.op = "Cancel" /\ ~Refunds(call.row) THEN 0 ELSE Takes(call)

\* A call that has a copy of the card it is going to write.
Carries(c, k) ==
    loc[c].card = k /\ pc[c] \in {"create", "perform", "settle", "update"}

\* cards.Update: the whole row, from the copy.
UpdateCard(c) ==
    LET call == loc[c] IN
    /\ pc[c] = "update"
    /\ cards' = [cards EXCEPT ![call.card] = call.purse]
    /\ \/ call.op = "Remove" /\ Ends(c) /\ UNCHANGED <<taken, drawn>>
       \/ /\ call.op # "Remove"
          /\ taken' = [taken EXCEPT ![call.id] = @ + Takes(call)]
          /\ drawn' = [drawn EXCEPT ![call.card] = @ + Takes(call) * Amount[call.id]]
          /\ Goto(c, "store")
          /\ UNCHANGED loc
    /\ overtaken' = (overtaken \ {c}) \cup {d \in Calls \ {c} : Carries(d, call.card)}
    /\ crossed' = IF c \in overtaken THEN crossed \cup {call.card} ELSE crossed
    /\ UNCHANGED <<receipts, books, register, blocked, pending, settled, torn, stray, onHold,
                   failures>>

\* A mistake: a cancellation waits for somebody else's step.
SchedulesOwn(call) ==
    \/ call.op = "Pay"
    \/ call.op = "Advance" /\ ~Terminal(call.row.state) /\ call.row.state # StateHeld

\* Who queues a background step after storing this row.
Schedules(call) ==
    \/ call.op = "Pay"
    \/ call.op = "Cancel" /\ call.row.state = StateCancelQueued
    \/ call.op = "Advance" /\ ~Terminal(call.row.state) /\ call.row.state # StateHeld

\* A mistake: the payment's id is not among the columns written.
StoreWithoutTxn(c) ==
    LET call == loc[c] IN
    /\ pc[c] = "store"
    /\ receipts' = [receipts EXCEPT ![call.id] = [call.row EXCEPT !.txn = receipts[call.id].txn]]
    /\ \/ Schedules(call) /\ Goto(c, "schedule") /\ UNCHANGED loc
       \/ ~Schedules(call) /\ Ends(c)
    /\ onHold' = IF call.op = "Confirm" THEN onHold \ {call.row.txn} ELSE onHold
    /\ UNCHANGED <<cards, books, register, blocked, pending, ghosts, failures, overtaken, crossed>>

\* receipts.Update: the whole row, from the copy.
Store(c) ==
    LET call == loc[c] IN
    /\ pc[c] = "store"
    /\ receipts' = [receipts EXCEPT ![call.id] = call.row]
    /\ \/ Schedules(call) /\ Goto(c, "schedule") /\ UNCHANGED loc
       \/ ~Schedules(call) /\ Ends(c)
    /\ onHold' = IF call.op = "Confirm" THEN onHold \ {call.row.txn} ELSE onHold
    /\ UNCHANGED <<cards, books, register, blocked, pending, ghosts, failures, overtaken, crossed>>

Schedule(c) ==
    /\ pc[c] = "schedule"
    /\ pending' = [pending EXCEPT ![loc[c].id] = @ + 1]
    /\ Ends(c)
    /\ UNCHANGED <<tables, ghosts, failures, memory>>

\* AdvanceReceipt in a goroutine of the scheduler, once its delay is over.
AdvanceBegin(c, r) ==
    /\ pending[r] > 0
    /\ MayBegin(c, r, NoCard)
    /\ pending' = [pending EXCEPT ![r] = @ - 1]
    /\ \/ ~CanAdvance(receipts[r]) /\ UNCHANGED <<pc, loc>>
       \/ /\ CanAdvance(receipts[r])
          /\ Begins(c, "Advance", r, Advanced(receipts[r]), NoCard, "store")
    /\ UNCHANGED <<tables, ghosts, failures, memory>>
-----------------------------------------------------------------------------
(* Failure and the operator *)

\* A call ends with what it has done so far: a performed payment nobody will
\* store, and money moved on a card that no receipt accounts for.
Leaves(c) ==
    LET call == loc[c] IN
    /\ stray' = IF call.op \in {"Pay", "Complete"} /\ pc[c] \in {"update", "store"}
                THEN stray \cup {call.row.txn} ELSE stray
    /\ torn' = IF pc[c] = "store" THEN [torn EXCEPT ![call.id] = @ + Moved(call)] ELSE torn

\* A statement fails, or the request is cancelled.
Fail(c) ==
    /\ InFlight(c)
    /\ failures < MaxFailures                            \* bound
    /\ failures' = failures + 1
    /\ Leaves(c)
    /\ Ends(c)
    /\ UNCHANGED <<tables, pending, taken, drawn, settled, memory>>

\* The process dies with a step it had scheduled: nothing queues it again.
LoseStep(r) ==
    /\ pending[r] > 0
    /\ failures < MaxFailures                            \* bound
    /\ failures' = failures + 1
    /\ pending' = [pending EXCEPT ![r] = @ - 1]
    /\ UNCHANGED <<tables, pc, loc, ghosts, memory>>

\* The console's switch on the register.
SetBlocked ==
    /\ CanBlock
    /\ blocked' = ~blocked
    /\ UNCHANGED <<receipts, cards, books, register, pending, pc, loc, ghosts, failures, memory>>
-----------------------------------------------------------------------------
Request(c) ==
    \/ \E r \in Receipts : CompleteBegin(c, r) \/ ConfirmBegin(c, r) \/ CancelBegin(c, r)
    \/ \E k \in Cards : \/ RemoveBegin(c, k)
                        \/ \E r \in Receipts : PayBegin(c, r, k) \/ OpenBegin(c, r, k)

Step(c) ==
    \/ Open(c) \/ PayCard(c) \/ PayCreate(c) \/ PayPerform(c)
    \/ Payee(c) \/ Settle(c) \/ RefundCard(c)
    \/ UpdateCard(c) \/ Store(c) \/ Schedule(c)

Next ==
    \/ \E r \in Receipts : ReceiptsCreate(r) \/ LoseStep(r)
    \/ \E c \in Requests : Request(c)
    \/ \E c \in Timers, r \in Receipts : AdvanceBegin(c, r)
    \/ \E c \in Calls : Step(c) \/ Fail(c)
    \/ SetBlocked

Spec == Init /\ [][Next]_vars

\* A handler runs to its end, and a timer that has been set fires.
Fairness ==
    /\ \A c \in Calls : WF_vars(Step(c))
    /\ \A r \in Receipts : WF_vars(\E c \in Timers : AdvanceBegin(c, r))

FairSpec == Spec /\ Fairness
-----------------------------------------------------------------------------
(* Properties *)

TablesTyped ==
    /\ receipts \in [Receipts -> ReceiptRow]
    /\ cards \in [Cards -> CardRow]
    /\ books \in [Txns -> {"none", "created", "performed"}]
    /\ register \in Int
    /\ blocked \in BOOLEAN

CallsTyped ==
    /\ pc \in [Calls -> Statements]
    /\ loc \in [Calls -> Call]
    /\ pending \in [Receipts -> Nat]

GhostsTyped ==
    /\ taken \in [Receipts -> Int]
    /\ drawn \in [Cards -> Int]
    /\ settled \in [Receipts -> Nat]
    /\ torn \in [Receipts -> Int]
    /\ stray \subseteq Txns
    /\ failures \in Nat

\* What is remembered of copies and of holds.
MemoryTyped ==
    /\ overtaken \subseteq Calls
    /\ crossed \subseteq Cards
    /\ onHold \subseteq Txns

\* The states of a receipt that has been paid, or is being paid.
Begun == {StateChecking, StateWithdrawn, StateClosing, StateHeld, StatePaid}

\* A row that was begun or completed names its card and its payment.
RowWellFormed(row) ==
    row.state \in Begun \cup {StateCancelQueued} =>
        row.card # NoCard /\ row.txn # NoTxn /\ row.charged

\* The call a statement serves, and the rows it needs.
CallWellFormed(call, at) ==
    /\ at = "idle" <=> call.op = "none"
    /\ at \notin {"idle", "update"} => call.id \in Receipts
    /\ at \in {"card", "create", "perform"} => call.op = "Pay"
    /\ at \in {"payee", "settle"} => call.op = "Complete"
    /\ at = "refund" => call.op = "Cancel"
    /\ at = "open" => call.op = "Open"
    /\ at = "update" => call.op \in {"Pay", "Complete", "Cancel", "Remove"}
    /\ call.op \in {"Pay", "Complete", "Remove"} \/ at \in {"refund", "update"} =>
          call.card \in Cards
    /\ at = "update" /\ call.op # "Remove" => call.id \in Receipts
    /\ at \in {"perform", "settle", "open"} => call.row.txn # NoTxn
    /\ at \in {"update", "store", "schedule"} => RowWellFormed(call.row)
    /\ at = "schedule" => Schedules(call)

Typed ==
    /\ TablesTyped /\ CallsTyped /\ GhostsTyped
    /\ \A r \in Receipts : RowWellFormed(receipts[r])
    /\ \A c \in Calls : CallWellFormed(loc[c], pc[c])

\* The type invariant: values in range, rows that name what they were paid with,
\* and calls that hold what their next statement needs.
TypeOK == Typed /\ MemoryTyped

\* What a receipt in this state owes: its amount was taken from a card once, and
\* given back once its cancellation is queued.
Owes(row) == IF row.state \in Begun THEN 1 ELSE 0

\* Money follows state: a receipt has taken its amount from the card exactly
\* while its row says it is being paid or paid, but for a call that has moved
\* the money and not stored the row yet, and for calls that ended right there.
MoneyFollowsReceipt ==
    \A r \in Receipts \ Payouts :
        LET storing == {c \in Calls : pc[c] = "store" /\ loc[c].id = r} IN
        /\ storing = {} => taken[r] = Owes(receipts[r]) + torn[r]
        /\ \A c \in storing : taken[r] = Owes(receipts[r]) + Moved(loc[c]) + torn[r]

\* A card's balance is what it held less everything taken from it, in every
\* interleaving of charges, refunds, payouts and removals, as long as none of them
\* writes the card from a copy (cards.Update writes whole rows) that another one has
\* overtaken: nothing else charges, refunds or credits a card without its knowing.
CardsAddUp == \A k \in Cards \ crossed : cards[k].balance = CardBalance - drawn[k]

\* Every payment the merchant performed is on a receipt, in the hands of the call
\* that made it, or one whose answer was lost (the receipt's record is "the only
\* record tying a card to a payment on the merchant's books", service.go:344).
MerchantAgrees ==
    \A t \in Txns : books[t] = "performed" =>
        \/ t \in stray
        \/ \E r \in Receipts : receipts[r].txn = t
        \/ \E c \in Calls : loc[c].op = "Pay" /\ loc[c].row.txn = t

\* No receipt walks, is paid or is refunded on a payment the merchant did not
\* perform, whatever interleaves: the row is first stored after PerformTransaction.
BegunWasPerformed ==
    \A r \in Receipts : receipts[r].state \in Begun \cup {StateCancelQueued} =>
        receipts[r].txn \in Txns /\ books[receipts[r].txn] = "performed"

\* "By the time money moves the card has already been cleared" (card.go:233): no more
\* is drawn from a card than it held, although Usable is asked statements before the
\* charge and nothing checks again.  That promise is broken where two payments clear
\* one card before either has charged it: both store the same remainder.  It is kept,
\* in every interleaving, until a card has been written from such an overtaken copy.
CardsNeverOverdrawn == \A k \in Cards \ crossed : drawn[k] <= CardBalance

\* Money on hold is captured by a confirmation and by nothing else: no receipt is paid
\* by a payment begun with a hold before a confirmation of that hold has been stored,
\* whatever copies steps, cancellations and payments write back.  A payment without a
\* hold that overwrites a held receipt is paid as itself: the hold is then on no receipt.
HoldIsKept == \A r \in Receipts : receipts[r].state = StatePaid => receipts[r].txn \notin onHold

\* While no call fails, a receipt in progress has a background step coming: one
\* scheduled, or a call that has yet to schedule it.  No interleaving of pay,
\* cancel and steps strands a receipt or lets a chain of steps die early.
WalkHasAStep ==
    failures = 0 =>
    \A r \in Receipts : InProgress(receipts[r].state) =>
        \/ pending[r] > 0
        \/ \E c \in Calls : /\ loc[c].id = r
                            /\ \/ pc[c] = "schedule"
                               \/ pc[c] = "store" /\ loc[c].op = "Advance"

\* A receipt in progress settles: it is paid, held or cancelled in the end.
Settles ==
    \A r \in Receipts : InProgress(receipts[r].state) ~> ~InProgress(receipts[r].state)

\* "A retry must not move money again" (service.go:423): the register pays a
\* payout at most once.
PayoutOnce == \A r \in Payouts : settled[r] <= 1

\* While no call fails, no sequence of completions, payments, cancellations and
\* refusals makes the register pay a payout twice.
SettledOnce == failures = 0 => PayoutOnce

LifeState ==
    [s \in ReceiptState |->
        CASE s = Absent -> "absent"
          [] s = StateCreated -> "created"
          [] s = StateChecking -> "checking"
          [] s = StateWithdrawn -> "withdrawn"
          [] s = StateClosing -> "closing"
          [] s = StatePaid -> "paid"
          [] s = StateHeld -> "held"
          [] s = StateCancelQueued -> "cancelling"
          [] s = StateCancelled -> "cancelled"]

Life == INSTANCE ReceiptLife WITH
            Payments <- Txns, None <- NoTxn,
            status <- [r \in Receipts |-> LifeState[receipts[r].state]],
            payment <- [r \in Receipts |-> receipts[r].txn],
            onHold <- [r \in Receipts |-> receipts[r].hold]

\* The stored rows only ever move as the documented life of a receipt does.
ImplementsLife == Life!Spec
=============================================================================
