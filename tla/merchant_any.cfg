\* Every interleaving, on a register that pays out and can cover one payment.
CONSTANTS
    p1 = p1  p2 = p2  c1 = c1  c2 = c2
    NoId = NoId
    Ids = {p1, p2}
    Calls = {c1, c2}
    Orders = {1, 2}
    Reasons = {5}
    TransactionTimeout = 0
    Kind = "dividend"
    Owner <- EachOwns
    Amount <- FlatAmount
    Existing = {1, 2}
    Values = {1, 2}
    Amounts = {5}
    ByName = FALSE
    AutoRegister = FALSE
    InitialBalance = 6
    Overlap = "any"
    MaxTime = 1
    MaxFailures = 0
SPECIFICATION Spec
INVARIANTS OneActivePerOrder NoMoveLost BalanceExplained
SYMMETRY Symmetric
VIEW Settlements
