---------------------------- MODULE ReceiptLife ----------------------------
(***************************************************************************)
(* What the Subscribe API promises about a receipt: it is paid through      *)
(* every step of the walk or, for a payout, in one; it carries the payment  *)
(* it was begun with to the end; money on hold is captured by a             *)
(* confirmation only; and a cancellation is never undone.                   *)
(***************************************************************************)
EXTENDS Integers, Sequences

CONSTANTS Receipts, Payments, None

VARIABLES
    status,    \* the state of each receipt
    payment,   \* the payment it was begun with
    onHold     \* whether paying it needs a confirmation

Walk == <<"checking", "withdrawn", "closing", "paid">>

Init ==
    /\ status = [r \in Receipts |-> "absent"]
    /\ payment = [r \in Receipts |-> None]
    /\ onHold = [r \in Receipts |-> FALSE]

Moves(r, s) == status' = [status EXCEPT ![r] = s]

\* A payment is opened, perhaps on hold; a payout is opened with its payment.
Open(r) ==
    /\ status[r] = "absent"
    /\ Moves(r, "created")
    /\ \/ \E h \in BOOLEAN : onHold' = [onHold EXCEPT ![r] = h] /\ UNCHANGED payment
       \/ \E p \in Payments : payment' = [payment EXCEPT ![r] = p] /\ UNCHANGED onHold

Begin(r) ==
    /\ status[r] = "created"
    /\ Moves(r, Walk[1])
    /\ \E p \in Payments : payment' = [payment EXCEPT ![r] = p]
    /\ \E h \in BOOLEAN : /\ onHold[r] => h
                          /\ onHold' = [onHold EXCEPT ![r] = h]

\* A payout completes in one step.
Complete(r) ==
    /\ status[r] = "created" /\ payment[r] # None
    /\ Moves(r, "paid")
    /\ UNCHANGED <<payment, onHold>>

Step(r) ==
    /\ \E i \in 1..3 : /\ status[r] = Walk[i]
                       /\ Moves(r, IF i = 3 /\ onHold[r] THEN "held" ELSE Walk[i + 1])
    /\ UNCHANGED <<payment, onHold>>

Confirm(r) ==
    /\ status[r] = "held"
    /\ Moves(r, "paid")
    /\ onHold' = [onHold EXCEPT ![r] = FALSE]
    /\ UNCHANGED payment

Cancel(r) ==
    /\ \/ status[r] = "created" /\ Moves(r, "cancelled")
       \/ status[r] \in {"checking", "withdrawn", "closing", "held", "paid"} /\ Moves(r, "cancelling")
       \/ status[r] = "cancelling" /\ Moves(r, "cancelled")
    /\ UNCHANGED <<payment, onHold>>

Next == \E r \in Receipts :
            Open(r) \/ Begin(r) \/ Complete(r) \/ Step(r) \/ Confirm(r) \/ Cancel(r)

Spec == Init /\ [][Next]_<<status, payment, onHold>>
=============================================================================
