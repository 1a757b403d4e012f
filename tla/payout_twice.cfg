\* A payout is settled, its card not credited, and the call repeated.
CONSTANTS
    r1 = r1  q1 = q1  k1 = k1  t1 = t1  t2 = t2  c1 = c1  c2 = c2  a1 = a1
    NoCard = NoCard  NoTxn = NoTxn  NoReceiptId = NoReceiptId
    Receipts = {r1, q1}
    Payouts = {q1}
    Cards = {k1}
    Txns = {t1, t2}
    Requests = {c1, c2}
    Timers = {a1}
    Amount <- Flat
    CardBalance = 6
    RegisterBalance = 20
    Kind = "dividend"
    Overlap = "serial"
    MaxFailures = 1
    CanRemove = FALSE
    CanBlock = FALSE
SPECIFICATION Spec
INVARIANTS PayoutOnce
SYMMETRY Symmetric
