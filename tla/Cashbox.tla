------------------------------ MODULE Cashbox ------------------------------
(***************************************************************************)
(* The billing domain (billing/domain/billing.go, cashbox.go): which way a  *)
(* register moves money for a performed payment, when it refuses to, and    *)
(* the life of an order.                                                    *)
(***************************************************************************)
EXTENDS Integers

CONSTANT Kind        \* Settings.RegisterKind; an unknown one counts as "topup"

Kinds == {"topup", "dividend", "deposit"}

\* registerAccount replaces a kind nobody knows by topup.
RegisterKind == IF Kind \in Kinds THEN Kind ELSE "topup"

Inbound == RegisterKind = "topup"

\* The order lifecycle; "absent" is an id whose row has not been inserted.
OrderStatus == {"absent", "new", "processing", "paid", "cancelled"}

Payable(status) == status \in {"new", "processing"}

\* Two mistakes the properties of the service have to catch: a refusal that forgets
\* the funds, and a reversal that moves the money the same way again.
RefusesBlockedOnly(isBlocked, bal, amount) == isBlocked

ReverseForward(bal, amount) == IF Inbound THEN bal + amount ELSE bal - amount

\* Apply refuses a blocked register, and a payout it cannot cover.
Refuses(isBlocked, bal, amount) ==
    \/ isBlocked
    \/ ~Inbound /\ bal < amount

Apply(bal, amount) == IF Inbound THEN bal + amount ELSE bal - amount

\* Reverse looks at neither the block nor the funds: it is never refused.
Reverse(bal, amount) == IF Inbound THEN bal - amount ELSE bal + amount
=============================================================================
