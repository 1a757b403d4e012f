-------------------------- MODULE TransactionLife --------------------------
(***************************************************************************)
(* What the Merchant API promises about a transaction, whatever order its   *)
(* requests arrive in: it is created once, on an order no other live        *)
(* transaction holds, is performed at most once, and is cancelled at most   *)
(* once - before or after it was performed - and stays cancelled.           *)
(***************************************************************************)
EXTENDS Integers

CONSTANTS Payments, Orders

VARIABLES
    status,   \* the state of each payment
    holds     \* the order each payment was created on, 0 before that

Live(p) == status[p] \in {"created", "performed"}

Init ==
    /\ status = [p \in Payments |-> "unknown"]
    /\ holds = [p \in Payments |-> 0]

Create(p, o) ==
    /\ status[p] = "unknown"
    /\ \A q \in Payments : Live(q) => holds[q] # o
    /\ status' = [status EXCEPT ![p] = "created"]
    /\ holds' = [holds EXCEPT ![p] = o]

Perform(p) ==
    /\ status[p] = "created"
    /\ status' = [status EXCEPT ![p] = "performed"]
    /\ UNCHANGED holds

Cancel(p) ==
    /\ Live(p)
    /\ status' = [status EXCEPT ![p] = IF @ = "created" THEN "cancelled" ELSE "refunded"]
    /\ UNCHANGED holds

Next == \E p \in Payments : \/ \E o \in Orders : Create(p, o)
                            \/ Perform(p)
                            \/ Cancel(p)

Spec == Init /\ [][Next]_<<status, holds>>
=============================================================================
