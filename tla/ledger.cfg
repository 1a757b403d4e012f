\* Two console edits, a payout opened and settled up to twice, a settlement, a reset.
CONSTANTS
    e1 = e1  e2 = e2  o1 = o1  m1 = m1
    NoEvent = NoEvent  NoPayout = NoPayout
    Kind = "dividend"
    Edits = {e1, e2}
    Deltas <- UpOrDown
    Payouts = {o1}
    Settlements = {m1}
    Sum <- SmallSums
    InitialBalance = 2
    Overlap = "apart"
    MaxEvents = 6
    MaxAsked = 3
    MaxResets = 1
    MaxFailures = 1
SPECIFICATION Spec
INVARIANTS TypeOK EveryMoveCounts NegativeOnlyByUndo HistoryExplains NamesPerformed
SYMMETRY Symmetric
CHECK_DEADLOCK FALSE
