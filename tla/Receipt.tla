------------------------------ MODULE Receipt ------------------------------
(***************************************************************************)
(* The receipt aggregate of the Subscribe API (subscribe/domain/receipt.go) *)
(* and the part of a card a payment touches (subscribe/domain/card.go): the *)
(* states a receipt walks through, and what each operation does to a row.   *)
(***************************************************************************)
EXTENDS Integers

CONSTANTS
    Cards, NoCard,    \* cards, and a receipt's card before it has one
    Txns, NoTxn       \* Merchant API transaction ids, and none

ASSUME ReceiptAssumption == NoCard \notin Cards /\ NoTxn \notin Txns

\* Not a state of the protocol: the receipt has not been created.
Absent == -1

StateCreated      == 0
StateChecking     == 1
StateWithdrawn    == 2
StateClosing      == 3
StatePaid         == 4
StateHeld         == 5
StateCancelQueued == 21
StateCancelled    == 50

\* The states some operation of the service puts a receipt in; 6, 20 and 30
\* are documented by the protocol and never entered.
ReceiptState ==
    {Absent, StateCreated, StateChecking, StateWithdrawn, StateClosing,
     StatePaid, StateHeld, StateCancelQueued, StateCancelled}

Terminal(s) == s \in {StatePaid, StateCancelled}

\* A background step is still expected.
InProgress(s) == s \in {StateChecking, StateWithdrawn, StateClosing, StateCancelQueued}

\* charged stands for pay_time # 0.
ReceiptRow ==
    [state : ReceiptState, card : Cards \cup {NoCard}, charged : BOOLEAN,
     hold : BOOLEAN, txn : Txns \cup {NoTxn}]

NoReceipt ==
    [state |-> Absent, card |-> NoCard, charged |-> FALSE, hold |-> FALSE, txn |-> NoTxn]

CardRow == [balance : Int, removed : BOOLEAN]
-----------------------------------------------------------------------------
(* Mistakes the properties of the service have to catch. *)

BeginPayNoCard(r, k, hold) ==
    [r EXCEPT !.hold = hold, !.state = StateChecking, !.charged = TRUE]

CancelledAtOnce(r) == [r EXCEPT !.state = StateCancelled]

RefundsHeldOnly(r) == r.card # NoCard /\ r.charged /\ r.hold

UsableUnfunded(card, amount) == ~card.removed

CreditedBackwards(card, amount) == [card EXCEPT !.balance = @ - amount]
-----------------------------------------------------------------------------
(* The card *)

\* Operable, verified, not rigged, and the balance covers the amount.
Usable(card, amount) == ~card.removed /\ card.balance >= amount

Charged(card, amount) == [card EXCEPT !.balance = @ - amount]

\* Refund and Receive.
Credited(card, amount) == [card EXCEPT !.balance = @ + amount]
-----------------------------------------------------------------------------
(* The receipt *)

NewReceipt(hold) == [NoReceipt EXCEPT !.state = StateCreated, !.hold = hold]

\* NewPayout and the fields TransactionsCreate sets on it.
NewPayout(k, t) ==
    [NoReceipt EXCEPT !.state = StateCreated, !.card = k, !.txn = t]

\* BeginPay refuses a receipt in any other state.
AwaitsPayment(r) == r.state = StateCreated
BeginPay(r, k, hold) ==
    [r EXCEPT !.card = k, !.hold = hold, !.state = StateChecking, !.charged = TRUE]

Completed(r) == [r EXCEPT !.state = StatePaid, !.charged = TRUE]

\* The walk a paying receipt makes; NextPayState has no answer anywhere else.
Progression ==
    [s \in {StateCreated, StateChecking, StateWithdrawn, StateClosing} |->
        CASE s = StateCreated   -> StateChecking
          [] s = StateChecking  -> StateWithdrawn
          [] s = StateWithdrawn -> StateClosing
          [] s = StateClosing   -> StatePaid]

CanAdvance(r) == r.state \in DOMAIN Progression \cup {StateCancelQueued}

\* A mistake: the hold is forgotten.
AdvancedUnheld(r) ==
    [r EXCEPT !.state = IF @ = StateCancelQueued THEN StateCancelled ELSE Progression[@]]

\* A queued cancellation completes; a held receipt stops short of paid.
Advanced(r) ==
    [r EXCEPT !.state = IF @ = StateCancelQueued THEN StateCancelled
                        ELSE IF r.hold /\ Progression[@] = StatePaid THEN StateHeld
                        ELSE Progression[@]]

HoldConfirmed(r) == [r EXCEPT !.state = StatePaid, !.charged = TRUE, !.hold = FALSE]

\* Cancel changes a receipt that is waiting, walking, held or paid; in the two
\* cancelled states a repeat returns what is stored.
Cancellable(r) ==
    \/ r.state \in {StateCreated, StatePaid, StateHeld}
    \/ InProgress(r.state) /\ r.state # StateCancelQueued

Cancelled(r) ==
    [r EXCEPT !.state = IF @ = StateCreated THEN StateCancelled ELSE StateCancelQueued]

\* The row refund looks at is the one Cancel has already changed.
Refunds(r) == r.card # NoCard /\ r.charged
=============================================================================
