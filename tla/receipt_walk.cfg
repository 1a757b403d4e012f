\* Calls and steps about one receipt or one card do not overlap; one of them fails.
CONSTANTS
    r1 = r1  q1 = q1  k1 = k1  t1 = t1  t2 = t2  c1 = c1  c2 = c2  a1 = a1
    NoCard = NoCard  NoTxn = NoTxn  NoReceiptId = NoReceiptId
    Receipts = {r1, q1}
    Payouts = {q1}
    Cards = {k1}
    Txns = {t1, t2}
    Requests = {c1, c2}
    Timers = {a1}
    Amount <- Flat
    CardBalance = 6
    RegisterBalance = 11
    Kind = "dividend"
    Overlap = "receipt"
    MaxFailures = 1
    CanRemove = TRUE
    CanBlock = TRUE
SPECIFICATION Spec
INVARIANTS TypeOK MoneyFollowsReceipt MerchantAgrees SettledOnce
PROPERTY ImplementsLife
SYMMETRY Symmetric
