----------------------------- MODULE MCReceipts -----------------------------
(* Small stands for TLC: a payment, a payout and the card they share. *)
EXTENDS ReceiptService, TLC

CONSTANTS r1, q1, k1, t1, t2, c1, c2, a1

\* Every receipt is of 5.
Flat == [r \in Receipts |-> 5]

\* Requests and payment ids are interchangeable.
Symmetric == Permutations({c1, c2}) \cup Permutations({t1, t2})

\* What the actions read: the history variables decide nothing, so a run tells states
\* apart by the rest and by those its properties mention.
Observable == <<tables, pending, pc, loc, failures>>

\* A copy that no call carries any longer, and what was drawn from a card that has been
\* written from an overtaken one, decide nothing either.
Charges == <<Observable, {c \in overtaken : Carries(c, loc[c].card)}, crossed, onHold,
             {<<k, drawn[k]>> : k \in Cards \ crossed}>>
=============================================================================
