\* Two calls at a time while stands are made, edited and deleted, two consoles seed
\* and a process ends.
CONSTANTS
    c1 = c1  c2 = c2  k1 = k1  k2 = k2
    NoRow = NoRow  NoHandler = NoHandler
    Slugs = {"east", "west"}
    Kinds = {"topup", "dividend"}
    Shipped <- TwoShipped
    Callers = {c1, c2}
    Consoles = {k1, k2}
    Forms <- Filled
    MaxStands = 2
    MaxCalls = 3
    MaxEdits = 3
    MaxFailures = 1
SPECIFICATION Spec
INVARIANTS ServedAsResolved StepsFindARunner RulesComeWithProfiles
SYMMETRY Symmetric
CHECK_DEADLOCK FALSE
