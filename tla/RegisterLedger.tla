--------------------------- MODULE RegisterLedger ---------------------------
(* The money of one register, and the history that explains it.  Three things  *)
(* move it: the console's relative edits, which undo themselves when they would *)
(* leave less than nothing; payouts, each one transaction on a locked row; and  *)
(* the Merchant API's settlements, which read the balance and write a figure.   *)
(* A statement that reads and writes takes its snapshot in one step and its row *)
(* lock in the next, as READ COMMITTED lets it.                                *)
EXTENDS Cashbox, FiniteSetsExt

CONSTANTS
    Edits,          \* console requests that change the balance, each made once
    Deltas,         \* what they add, or subtract as a negative figure
    Payouts,        \* payouts of the provider
    Settlements,    \* payments of the Merchant API, settled and then refunded
    Sum,            \* what each payout and settlement is for
    InitialBalance,
    Overlap,        \* "apart": nothing lands between a settlement's read and its write; "any"
    NoEvent,        \* no row
    NoPayout,       \* a row that names no payout
    MaxEvents,      \* rows of history
    MaxAsked,       \* payouts opened and settled, repeats included
    MaxResets, MaxFailures

Movers == Edits \union Settlements

Rows == [delta : Int, before : Int, after : Int, payout : Payouts \union {NoPayout}]

ASSUME LedgerAssumption ==
    /\ InitialBalance \in Nat
    /\ Deltas \subseteq Int /\ Overlap \in {"apart", "any"}
    /\ Sum \in [Payouts \union Settlements -> Nat \ {0}]
    /\ NoPayout \notin Payouts /\ NoEvent \notin Rows /\ Edits \intersect Settlements = {}
    /\ {MaxEvents, MaxAsked, MaxResets, MaxFailures} \subseteq Nat

VARIABLES
    balance, blocked,  \* merchant.accounts, the register's payer
    payouts,           \* merchant.transactions: none, created or performed
    events, serial,    \* merchant.balance_events by id, and the last id given out
    at, held,          \* the statement a mover runs next and what it read
    meant,             \* history: what the moves since the last reset add up to
    opening,           \* history: what the register held before its first event
    owed,              \* history: subtracted by refused edits, not yet given back
    crossed,           \* history: a statement landed while another was under way
    resets, asked, failures

vars == <<balance, blocked, payouts, events, serial, at, held, meant, opening, owed, crossed,
          resets, asked, failures>>

EventIds == 1..MaxEvents
Written  == {i \in EventIds : events[i] # NoEvent}
Newest   == IF Written = {} THEN 0 ELSE Max(Written)
DeltaOf(row) == IF row = NoEvent THEN 0 ELSE row.delta
Explained(rows) == SumFunction([i \in EventIds |-> DeltaOf(rows[i])])

Nothing == [delta |-> 0, pre |-> 0, newest |-> 0, target |-> 0, refused |-> FALSE]

Magnitude(d) == IF d < 0 THEN -d ELSE d

Init ==
    /\ balance = InitialBalance /\ blocked = FALSE
    /\ payouts = [p \in Payouts |-> "none"]
    /\ events = [i \in EventIds |-> NoEvent] /\ serial = 0
    /\ at = [m \in Movers |-> "new"] /\ held = [m \in Movers |-> Nothing]
    /\ meant = InitialBalance /\ opening = InitialBalance /\ owed = 0 /\ crossed = FALSE
    /\ resets = 0 /\ asked = 0 /\ failures = 0

UnderWay(m) == at[m] \notin {"new", "settled", "done"}

\* A mistake: the move recorded the wrong way round.
EventBackwards(delta, before, payout) ==
    [delta |-> delta, before |-> before, after |-> before - delta, payout |-> payout]

\* A row of the history; an id is given out once, whatever becomes of its row.
Event(delta, before, payout) ==
    [delta |-> delta, before |-> before, after |-> before + delta, payout |-> payout]
Record(delta, before, payout) ==
    /\ serial < MaxEvents /\ serial' = serial + 1         \* bound
    /\ events' = [events EXCEPT ![serial'] = Event(delta, before, payout)]

Lands(m) == crossed' = (crossed \/ \E n \in Movers \ {m} : UnderWay(n))
Reads    == UNCHANGED <<balance, blocked, payouts, events, serial, meant, opening, owed, crossed,
                        resets, asked, failures>>

-----------------------------------------------------------------------------
(* ChangeBalance: the statement's snapshot, then the row as it is by then.     *)
EditBegin(e) ==
    /\ at[e] = "new"
    /\ \E d \in Deltas : held' = [held EXCEPT ![e] = [Nothing EXCEPT !.delta = d, !.pre = balance]]
    /\ at' = [at EXCEPT ![e] = "edit"]
    /\ Reads

Edited(e, new) ==
    /\ at[e] = "edit"
    /\ balance' = new /\ Record(new - held[e].pre, held[e].pre, NoPayout)
    /\ at' = [at EXCEPT ![e] = IF new < 0 THEN "refused" ELSE "done"]
    /\ held' = [held EXCEPT ![e].refused = new < 0]
    /\ owed' = owed + (IF new < 0 /\ held[e].delta < 0 THEN -held[e].delta ELSE 0)
    /\ meant' = meant + (IF new < 0 THEN 0 ELSE held[e].delta)
    /\ Lands(e) /\ UNCHANGED <<blocked, payouts, opening, resets, asked, failures>>

\* A mistake: the figure that was read decides what is written.
EditFromSnapshot(e) == Edited(e, held[e].pre + held[e].delta)

EditCommit(e) == Edited(e, balance + held[e].delta)

\* The undo of a refused edit: the newest row of its snapshot goes.
UndoBegin(e) ==
    /\ at[e] = "refused"
    /\ held' = [held EXCEPT ![e].newest = Newest]
    /\ at' = [at EXCEPT ![e] = "undo"]
    /\ Reads

Undone(e, rows) ==
    /\ at[e] = "undo"
    /\ balance' = balance + Magnitude(held[e].delta)
    /\ owed' = owed + (IF held[e].delta < 0 THEN held[e].delta ELSE 0)
    /\ events' = rows
    /\ at' = [at EXCEPT ![e] = "done"]
    /\ Lands(e) /\ UNCHANGED <<blocked, payouts, serial, held, meant, opening, resets, asked,
                                failures>>

\* A mistake: an undo that leaves its row.
UndoKeepsRow(e) == Undone(e, events)

\* The amount is given back, whether it was subtracted or added.
UndoCommit(e) == Undone(e, [events EXCEPT ![held[e].newest] = NoEvent])

-----------------------------------------------------------------------------
(* CashboxLedger: each payout in two transactions of its own, on a locked row. *)

\* A mistake: opening a payout again writes it created.
Reopened(p) == "created"

\* OpenPayout, ON CONFLICT DO NOTHING.
Opened(p) == IF payouts[p] = "none" THEN "created" ELSE payouts[p]

OpenPayout(p) ==
    /\ ~blocked
    /\ asked < MaxAsked /\ asked' = asked + 1             \* bound
    /\ payouts' = [payouts EXCEPT ![p] = Opened(p)]
    /\ UNCHANGED <<balance, blocked, events, serial, at, held, meant, opening, owed, crossed,
                   resets, failures>>

\* SettlePayout: the balance, the transaction - opened or not - and the row of
\* history that names it.  A repeat moves the money again.
SettlePayout(p) ==
    LET new == Apply(balance, Sum[p])
    IN  /\ ~Refuses(blocked, balance, Sum[p])
        /\ asked < MaxAsked /\ asked' = asked + 1         \* bound
        /\ balance' = new /\ Record(new - balance, balance, p)
        /\ payouts' = [payouts EXCEPT ![p] = "performed"]
        /\ meant' = meant + new - balance
        /\ crossed' = (crossed \/ \E n \in Movers : UnderWay(n))
        /\ UNCHANGED <<blocked, at, held, opening, owed, resets, failures>>

-----------------------------------------------------------------------------
(* The Merchant API's settle and unsettle: the register is read, the figure is *)
(* computed, and UpdateBalance writes it: one statement, whose snapshot and    *)
(* row lock MerchantService keeps apart and this module takes together.        *)
Alone(s) == Overlap = "any" \/ \A m \in Movers \ {s} : ~UnderWay(m)
Exclusive == Overlap = "any" \/ \A s \in Settlements : ~UnderWay(s)

Reading(s, from, to, target) ==
    /\ at[s] = from /\ Alone(s)
    /\ held' = [held EXCEPT ![s].target = target, ![s].pre = balance]
    /\ at' = [at EXCEPT ![s] = to]
    /\ Reads

Settle(s) ==
    /\ ~Refuses(blocked, balance, Sum[s])
    /\ Reading(s, "new", "update", Apply(balance, Sum[s]))

Unsettle(s) == Reading(s, "settled", "refund", Reverse(balance, Sum[s]))

UpdateBalance(s) ==
    /\ at[s] \in {"update", "refund"}
    /\ balance' = held[s].target
    /\ Record(held[s].target - balance, balance, NoPayout)
    /\ meant' = meant + held[s].target - held[s].pre
    /\ at' = [at EXCEPT ![s] = IF @ = "update" THEN "settled" ELSE "done"]
    /\ Lands(s) /\ UNCHANGED <<blocked, payouts, held, opening, owed, resets, asked, failures>>

-----------------------------------------------------------------------------
(* The rest of the console, and failures.                                     *)

\* ResetSandbox zeroes the payer and deletes the transactions; the history stays,
\* its rows naming no payout any more (ON DELETE SET NULL).
ResetSandbox ==
    /\ resets < MaxResets /\ resets' = resets + 1         \* bound
    /\ balance' = 0 /\ blocked' = FALSE
    /\ payouts' = [p \in Payouts |-> "none"]
    /\ events' = [i \in EventIds |-> IF events[i] = NoEvent THEN NoEvent
                                      ELSE [events[i] EXCEPT !.payout = NoPayout]]
    /\ meant' = owed /\ opening' = 0 - Explained(events)
    /\ crossed' = (crossed \/ \E n \in Movers : UnderWay(n))
    /\ UNCHANGED <<serial, at, held, owed, asked, failures>>

DeleteTransaction(p) ==
    /\ payouts[p] # "none"
    /\ payouts' = [payouts EXCEPT ![p] = "none"]
    /\ events' = [i \in EventIds |-> IF events[i] # NoEvent /\ events[i].payout = p
                                      THEN [events[i] EXCEPT !.payout = NoPayout] ELSE events[i]]
    /\ UNCHANGED <<balance, blocked, serial, at, held, meant, opening, owed, crossed, resets,
                   asked, failures>>

SetBlocked ==
    /\ blocked' = ~blocked
    /\ UNCHANGED <<balance, payouts, events, serial, at, held, meant, opening, owed, crossed,
                   resets, asked, failures>>

\* The request is cancelled or the process ends between two statements: a
\* refused edit is not undone.
Fail(m) ==
    /\ UnderWay(m) /\ failures < MaxFailures             \* bound
    /\ failures' = failures + 1
    /\ at' = [at EXCEPT ![m] = "done"]
    /\ UNCHANGED <<balance, blocked, payouts, events, serial, held, meant, opening, owed, crossed,
                   resets, asked>>

Next ==
    \/ \E s \in Settlements : Settle(s) \/ Unsettle(s) \/ UpdateBalance(s)
    \/ /\ Exclusive
       /\ \/ \E e \in Edits : EditBegin(e) \/ EditCommit(e) \/ UndoBegin(e) \/ UndoCommit(e)
          \/ \E p \in Payouts : OpenPayout(p) \/ SettlePayout(p) \/ DeleteTransaction(p)
          \/ ResetSandbox \/ SetBlocked
    \/ \E m \in Movers : Fail(m)

Spec == Init /\ [][Next]_vars

-----------------------------------------------------------------------------
(* Values in range; every row of history adds up, and none is newer than the     *)
(* sequence that gave it its id.                                               *)
TypeOK ==
    /\ balance \in Int /\ blocked \in BOOLEAN
    /\ payouts \in [Payouts -> {"none", "created", "performed"}]
    /\ \A i \in EventIds : events[i] # NoEvent =>
          /\ events[i].payout \in Payouts \union {NoPayout}
          /\ events[i].before + events[i].delta = events[i].after
    /\ serial \in 0..MaxEvents /\ \A i \in Written : i <= serial
    /\ at \in [Movers -> {"new", "edit", "refused", "undo", "update", "settled",
                      "refund", "done"}]
    /\ {meant, opening, owed} \subseteq Int

(* Nothing that moves the register is lost: it holds what the edits that stood,  *)
(* the payouts and the settlements add up to, less what refused edits have yet   *)
(* to give back, in every interleaving of relative edits, undos, locked payouts  *)
(* and resets (views.go:379, ledger.go:100).  A refused addition is another      *)
(* matter: its undo adds it a second time (views.go:420).                       *)
OnlySubtractionsRefused == \A e \in Edits : held[e].refused => held[e].delta < 0
EveryMoveCounts == OnlySubtractionsRefused => balance + owed = meant

(* A register that pays out holds less than nothing only by what refused edits   *)
(* have not given back yet: nothing is paid out on the strength of it, and a     *)
(* refusal that is never undone is all that can leave it there (views.go:372,   *)
(* "a cash register cannot hold less than nothing").                          *)
NegativeOnlyByUndo == ~Inbound => balance + owed >= 0

(* Between movers, and as long as none got in the way of another, the balance is *)
(* what its history explains (ledger.go:149).                                  *)
HistoryExplains ==
    ~crossed /\ failures = 0 /\ (\A m \in Movers : ~UnderWay(m)) =>
        balance = opening + Explained(events)

(* A row of history that names a payout names one that is performed, however    *)
(* often the payout is opened again (ledger.go:58).                            *)
NamesPerformed ==
    \A i \in Written : events[i].payout # NoPayout => payouts[events[i].payout] = "performed"
=============================================================================
