\* Calls about one payment never overlap, calls about different payments may;
\* statements fail; a payment naming an unknown or a taken order is registered on arrival.
CONSTANTS
    p1 = p1  p2 = p2  c1 = c1  c2 = c2
    NoId = NoId
    Ids = {p1, p2}
    Calls = {c1, c2}
    Orders = {1, 2, 3, 4}
    Reasons = {5}
    TransactionTimeout = 0
    Kind = "topup"
    Owner <- NamedOwns
    Amount <- NamedAmount
    Existing = {4}
    Values = {1, 4}
    Amounts = {3}
    ByName = TRUE
    AutoRegister = TRUE
    InitialBalance = 0
    Overlap = "payment"
    MaxTime = 1
    MaxFailures = 1
SPECIFICATION Spec
INVARIANTS TypeOK MoneyFollowsState AnswersStand PaidOrderWasPerformed NoDuplicateWalkIns PaidIffPerformed
PROPERTY ImplementsLife
SYMMETRY Symmetric
VIEW Payments
