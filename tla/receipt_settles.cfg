\* Every interleaving on one receipt; handlers finish and timers fire.
CONSTANTS
    r1 = r1  q1 = q1  k1 = k1  t1 = t1  t2 = t2  c1 = c1  c2 = c2  a1 = a1
    NoCard = NoCard  NoTxn = NoTxn  NoReceiptId = NoReceiptId
    Receipts = {r1}
    Payouts = {}
    Cards = {k1}
    Txns = {t1}
    Requests = {c1, c2}
    Timers = {a1}
    Amount <- Flat
    CardBalance = 6
    RegisterBalance = 6
    Kind = "dividend"
    Overlap = "any"
    MaxFailures = 0
    CanRemove = FALSE
    CanBlock = FALSE
SPECIFICATION FairSpec
VIEW Observable
PROPERTY Settles
