# A verification project for payme-mock

TLA+ models of the stand's own logic, checked with TLC on small instances and,
where it matters most, proved with TLAPS for every instance.  Paths below are
relative to the repository; `merchant/`, `billing/` and `subscribe/` stand for
`internal/context/payment/...`, `fault/` for `internal/context/simulation/fault`.

## 1. Inventory

| Component | State it keeps | Operations | Interacts with | Modules |
|---|---|---|---|---|
| Merchant API service (`merchant/application/service.go`) | `merchant.transactions`, order statuses, the register's balance | Check/Create/Perform/CancelTransaction, CheckTransaction, GetStatement | called by the provider's client over HTTP; reads and writes the billing tables | `MerchantService` |
| Billing (`billing/`) | `merchant.accounts`, `orders`, `balance_events` | Apply, Reverse, Register, UpdateBalance, walk-in registration; the ledger's OpenPayout, SettlePayout, Balance | shared by the merchant service, the payouts of the Subscribe API and the console | `Cashbox`, `RegisterLedger` |
| Subscribe receipts and payouts (`subscribe/application/service.go`) | `mock.receipts`, timers in memory | ReceiptsCreate/Pay/Cancel/ConfirmHold/Send, TransactionsCreate/Complete, AdvanceReceipt | calls the merchant over HTTP, moves cards and the register, schedules its own background steps | `ReceiptService` |
| Scheduler (`subscribe/infrastructure/support.go`) | goroutines, lost with the process | ScheduleAdvance, SetAdvance, Wait | AdvanceReceipt, the handler caches | `ReceiptService`, `Stands` |
| Subscribe cards (`subscribe/domain/card.go`) | `mock.cards`, `card_tokens`, `card_cashbox_blocks` | CardsCreate, GetVerifyCode, Verify, Check, Remove; the console's edits of a card | the SMS outbox, the stands | `StandCards` |
| Fault rules (`fault/`, `cmd/console/rules.go`) | `control.fault_rules` | Evaluate, Consume, Hit; create, update, toggle, delete | in front of both APIs | `FaultRule`, `RequestPipeline` |
| Idempotent calls (`kernel/httpx/idempotency.go`) | `control.idempotent_calls` | Recall, Remember | in front of the Subscribe API | `RequestPipeline` |
| IP allowlist (`kernel/httpx/allowlist.go`) | `control.ip_rules` | Allows, ClientAddr, ParsePrefix; the console's edits | in front of both APIs | `Access` |
| Traffic log | `control.request_log` | the entry of each call, the rule it names | what the console shows | `RequestPipeline` |
| Handler caches, stands, profiles (`cmd/*/handler.go`, `cmd/console/store.go`) | one service per key; `control.sandboxes`, `control.configs` | lookup, build, publish; create, update, delete a stand; SeedProfiles | settings, scheduler, rules | `Stands` |
| Console's money edits (`cmd/console/views.go`) | the register's balance and history | ChangeBalance and its undo, SetBlocked, ResetSandbox, DeleteTransaction | the billing tables | `RegisterLedger` |
| Console screens | - | paging, links, rendering, live updates | read-only queries | `Paging` (paging and links only) |
| Checkout emulator domain | - | EncodeGET, ParseGET, ParsePOST | nothing: no binary serves it | `Checkout` |
| Console sessions, browser playground, outbox, kernel | sessions in memory; demo state | sign-in; decoding, clock, errors | middleware | not modelled, see section 10 |

What is hard here is almost always the same thing: the handlers are sequences
of statements against PostgreSQL **without a database transaction**.
`postgres.From` returns the pool unless `postgres.WithTx` put a transaction in
the context, and only the cashbox ledger and a few edits of the console do that.
So the `FOR UPDATE` reads, whose comments promise that they serialise the callers,
hold their lock for one statement only; everything between two statements may
interleave with another request, the console, a background step or a crash.

The conventions of all modules: `pc[c]` (or `at[c]`) is the statement call `c`
runs next and `loc[c]` what it has read, so a copy that goes stale is a value in
the state.  A first read and what is computed from it is one step, because
nothing else can see the difference; after that every statement is a step.
History variables are named as such where they are declared; no action's guard
reads them.  Bounds are constants whose names start with `Max`.  A definition
marked as a mistake is used by no action: it is the altered form under which a
property has to fail.

`Overlap`, where a module has it, says which calls may be in flight together.
`"any"` is what the server accepts.  Each property is checked, and proved, under
the weakest schedule it holds for.  Where one step of the code is what breaks a
property, the schedule is not narrowed: a history variable remembers that the step
has happened, and the property says what holds until then, under every schedule.
These variables are `crossed` (a balance, or a card, has been written from a figure
or a copy that another write had overtaken), `raced` (a history row has been
written from a pre-image another update had changed) and `overlapped` (a call has
begun while another was in flight).

| Proof module | About |
|---|---|
| `MerchantService_proofs` | `MerchantService` and its refinement of `TransactionLife` |
| `ReceiptService_proofs` | `ReceiptService` under every schedule, then while calls keep apart, and its refinement of `ReceiptLife` |
| `RequestPipeline_proofs` | `RequestPipeline` with `FaultRule` and `Access` |
| `RegisterLedger_proofs` | `RegisterLedger` |
| `StandCards_proofs` | `StandCards` |
| `Stands_proofs` | `Stands` |
| `Texts_proofs` | the pure operators of `Paging` and `Checkout` |
| `Sums` | sums over finite sets, for the proofs about money |

The library's induction theorems take an operator as a parameter, which the
installed provers cannot instantiate.  Induction over naturals and over finite
sets is done here through a least counterexample instead: `LeastExists` in
`StandCards_proofs` and `RequestPipeline_proofs`, and `SmallestExists` in `Sums`
(from well-foundedness, which is a statement about sets). `Sums` so derives what a
proof about a balance needs of `SumFunction` of the community modules: the order of
summing does not matter
(`TakeAny`), a change of one value changes the sum by as much (`SumChanges`), no part
of a sum of naturals exceeds it (`SumCovers`).

## 2. The merchant service

| Module | What it is |
|---|---|
| `Transaction` | the aggregate of `merchant/domain/transaction.go`: states, window, what Perform and Cancel do to it |
| `Cashbox` | `billing/domain`: which way a register moves money, when it refuses, the order life cycle |
| `MerchantService` | the handlers of `merchant/application/service.go`, one action per SQL statement |
| `TransactionLife` | the abstract promise: created once on a free order, performed at most once, cancelled at most once, final stays final |
| `MCMerchant` | instances for TLC |

### State and actions

`txs`, `orders`, `balance`, `history`, `blocked` and `known` (the payers there is a
login for) are the tables; `loc[c]` holds a call's parameters, the order it
resolved, its copy of the transaction, the balance it computed and the pre-image
its balance update took.  The other variables are history variables: `applied`, `torn`
and `acked` count what was moved and answered; `stale` and `late` are the calls whose
figure, or whose pre-image, another update has overtaken, and `crossed` and `raced`
remember that one of them has written it.

After the first read of a handler (`PerformBegin`, `CancelBegin`,
`CreateBegin`...) come `Settle` (read the register), `UpdateBegin` and
`UpdateCommit` (the snapshot of the update statement and its commit, apart
because the pre-image comes from the snapshot while the row lock is taken
later), `Store` (the transaction row), `Mark` (the order).  `Mark` reads and
writes the order in one step because what it writes does not depend on what it
reads.  `Process` writes the order read at the start of CreateTransaction.
resolveOrder is `FindAccount` (the payer), `FindOrder` (the order named or the payer's
first payable one, and its amount), and for a payment registered on arrival
`RegisterPayer`, `Reuse` and `WalkIn`: the payer's upsert, then the find-or-create
statement with its snapshot and its commit apart, since nothing locks what the
snapshot did not find.  The two unique indexes of `merchant.transactions` are `InsertRefused` and
`StoreRefused`.  `Fail` ends a call anywhere: a failing statement, a cancelled
request and a crash look the same to the tables.

Left out: CheckTransaction and GetStatement (they only read), the audit trail
(its errors are ignored), a stand without any payer (the register row is
created with the sandbox), and the console's edits other than blocking.
The account field is either the order id or the payer's login; both are
covered by `ByName`.

Schedules: `"payment"` is what a provider does that never repeats a call before
it has its answer: two calls about one Payme id do not overlap, calls about
different payments do.

### Properties and runs

* `TypeOK` - values in range; every call in flight holds what its next statement needs.
* `MoneyFollowsState` - the settlements written for a payment, less its reversals, are what its stored state says, except for calls that ended between the two writes (`torn`).
* `AnswersStand` - a successful answer stays true.
* `PaidOrderWasPerformed` - no order is paid without a performed transaction on it.
* `ImplementsLife` - the rows refine `TransactionLife`.
* `OneActivePerOrder` - the partial index does it, not `ActiveByOrder`.
* `NoMoveLost` - the balance is the sum of the settlements and reversals, until one writes a figure made of a balance another has changed since.
* `BalanceExplained` - the balance is what its history explains, until an update waits behind another that changed the row its pre-image was read from.
* `RegisterCovered` - a register hands out no more than it held, counted over the settlements.  Counting the stored balance would show nothing: two payouts that read one balance store one figure.
* `NoDuplicateWalkIns` - until calls overlap, a payer nobody knew gets one order per amount.
* `PaidIffPerformed` - until calls overlap or one fails, an order is paid exactly when a performed transaction holds it.

| Run | Schedule and bounds | Checks |
|---|---|---|
| `merchant_payment` | payment; a topup register, 2 payments, 2 calls, one order and three free ids for orders registered on arrival, 1 failure, clock to 1 with timeout 0 | `TypeOK`, `MoneyFollowsState`, `AnswersStand`, `PaidOrderWasPerformed`, `NoDuplicateWalkIns`, `PaidIffPerformed`, `ImplementsLife` |
| `merchant_any` | any; a dividend register that can cover one payment of two, 2 orders of a payer each, named by login | `OneActivePerOrder`, `NoMoveLost`, `BalanceExplained` |
| `register_crossed` | payment; 2 payouts of 5 on a register that holds 6 | `RegisterCovered` is violated |

Two payments and two orders give every conflict the code has: two calls of one
payment, two payments of one order, two payments of two orders on one register.
A timeout of 0 and a clock that ticks once cover both sides of the expiry
boundary (`now - create_time > timeout`).  Ids and calls are interchangeable, so
the runs use symmetry; their `VIEW`s leave out history variables that the properties
of the run do not tell apart, in `merchant_any` also what was counted before settlements
crossed or raced.

`register_crossed` is the shortest way to the row lock that is not there: both
payouts read 6, both pass the check of `cashbox.go:97`, both write 1, and 10 is
handed out of 6.  The comments of `billing.go:69`, `:86` and `:107` say that the lock of
the read serialises two settlements; it would in a database transaction, and no
handler opens one.

### Proofs

`MerchantService_proofs` proves, for every number of payments, calls, orders,
amounts, clock and failure bounds:

* under every schedule `TypeSafety`, `OneActive`, `BalanceIsExplained`, and for finitely many payments `NoMoveIsLost` and, on a register that pays out, `PayoutCovered`: `RegisterCovered` until a settlement is `crossed`;
* when calls about one payment do not overlap (`Overlap # "any"`) `MoneySafety`, `AnswersSafety`, `FinalSafety`, `PaidSafety`, the refinement `LifeImplemented`, `WalkInsAreReused` and `PaidIffPerformedSafety`.

The inductive invariant is `Inv` = `TypeOK` /\ `OneActivePerOrder` /\
`Isolated` /\ `MoneyFollowsState` /\ `AnswersStand`.  `Isolated` - every call
writes over exactly the row it read - is what makes it inductive: a `Store`
writes the call's copy over the row, so nothing can be said about the row
afterwards unless the copy was of that row.

The properties about the balance need none of this.  `Current` says that a figure a
call carries and nobody has overtaken is the balance moved by its amount, and that
its pre-image is the balance; `Placed` that a copy names the order its row names;
`Unmoved` that an id without a row has moved nothing.  With them a commit moves the
balance and the sum of `Moves` by the same amount.  `PayoutCovered` adds `Funded`: every
target a call carries towards its update is non-negative, since it was checked when
it was computed; as long as nothing crossed the balance is the sum, and so covers it.

`NoDuplicateWalkIns` and `PaidIffPerformed` end at the first overlap, so their
strengthenings are `~overlapped => ...`: `Turns` (at most one call in flight) and
`ReadsStand` (a walk-in that found nothing to reuse still finds nothing, the order it
resolved is still payable, an order about to be released has no active transaction
left, which needs `OneActivePerOrder`), with `OneOpenOrder` (at most one payable order
per payer and amount) and `PaidWhileHeld` (`PaidIffPerformed` but for the order a call
is about to mark).  `WalkInsAreReused` assumes that no payer was seeded with two orders
of one amount, without which the property is false at the start.  Failures are
allowed in all but `PaidIffPerformed`, which says so itself.

The assumptions are `TransactionAssumption` and `ServiceAssumption`, which TLC
evaluates on every run.

## 3. Receipts and payouts

| Module | What it is |
|---|---|
| `Receipt` | `subscribe/domain/receipt.go` and the part of `card.go` a payment touches: the walk, holds, cancellation, when a card is usable and what moves on it |
| `ReceiptService` | the handlers of `subscribe/application/service.go`, the scheduler's steps, the cashbox ledger and the merchant's answers |
| `ReceiptLife` | the abstract promise: through every step of the walk or, for a payout, in one; on the payment it was begun with; captured by a confirmation; a cancellation is never undone |
| `MCReceipts` | instances for TLC |

### State and actions

`receipts` and `cards` are `mock.receipts` and `mock.cards`, `register` and
`blocked` the register's row, `books` the transactions the merchant (or, for a
payout, the ledger) holds, `pending[r]` the goroutines that wait to run
`AdvanceReceipt`.  `Requests` and `Timers` are slots: how many requests and how
many background steps may be in flight together.

ReceiptsPay is `PayBegin` (read the receipt), `PayCard` (read and clear the
card, begin the payment in memory, ask the merchant to check), `PayCreate` and
`PayPerform` (the merchant's two calls), `UpdateCard`, `Store`, `Schedule`.
TransactionsCreate is `OpenBegin`, `Open`; TransactionsComplete `CompleteBegin`,
`Payee`, `Settle`, `UpdateCard`, `Store`.  ReceiptsCancel is `CancelBegin`,
`RefundCard`, `UpdateCard`, `Store`, `Schedule`; the others read and store.
`UpdateCard` and `Store` write whole rows from the copy, which is what
`cards.Update` and `receipts.Update` do.  `Open` and `Settle` are single steps
because the ledger runs them in a database transaction with the row locked.

The merchant is any Merchant API endpoint: a call is refused or does not
arrive, is done, or is done and its answer lost - the client reports the first
and the last alike.  A refusal for a reason outside the model (a rigged or
unverified card, a wrong amount) is a call that may always end.  A card the
console blocked on the register is not found, and a refund then gives nothing
back.  `Fail` ends a call anywhere; `LoseStep` is a restart of the process, seen
by one scheduled step.

Left out: reads, ReceiptsSend, frozen cards (their balance never moves), the
console's edits of a card's balance, hold expiry (nothing in the repository
calls `HoldExpired`), and ReceiptsCancel's missing call to the merchant (there
is no step to model; it is listed as a hazard).

Schedule `"receipt"`: calls and steps about one receipt, or about one card, do
not overlap.

### Properties and runs

* `TypeOK` - values in range; a begun row names its card and its payment.
* `MoneyFollowsReceipt` - a receipt has taken its amount from the card exactly while its row says so, except for what `torn` accounts for: calls that died between the two writes, refunds whose card was not found.
* `CardsAddUp` - a card holds what it began with less every charge, refund and payout, until it is written from a copy that another write has overtaken (`crossed`).
* `MerchantAgrees` - every performed payment is on a receipt, in the hands of its call, or one whose call ended first (`stray`).
* `SettledOnce` - until a call fails, the register pays a payout once; `PayoutOnce` says the same without the condition.
* `ImplementsLife` - the rows refine `ReceiptLife`.
* `BegunWasPerformed` - no receipt walks on an unperformed payment.
* `HoldIsKept` - no receipt is paid by a payment begun with a hold before a confirmation of it has been stored (`onHold`), whatever copy is written over the row.
* `CardsNeverOverdrawn` - no more is drawn from a card than it held, with the exception of `CardsAddUp`.
* `WalkHasAStep` - while nothing fails: chains of steps that overlap, double or die early never leave a receipt in progress without a step to come.
* `Settles` - under fairness, such a receipt leaves the walk.

| Run | Schedule and bounds | Checks |
|---|---|---|
| `receipt_walk` | receipt; a payment, a payout, one card, 2 requests, 1 step, 1 failure, blocking, removal | `TypeOK`, `MoneyFollowsReceipt`, `MerchantAgrees`, `SettledOnce`, `ImplementsLife` |
| `receipt_any` | any; one receipt, 2 payments, 2 requests, 1 step | `CardsAddUp`, `BegunWasPerformed`, `CardsNeverOverdrawn`, `HoldIsKept`, `WalkHasAStep` |
| `receipt_settles` | any, fair; one receipt, 2 requests, 1 step | `Settles` |
| `payout_twice` | serial, 1 failure | `PayoutOnce` is violated: the retry of a half-done completion pays again |

Two requests and one step in flight give every pair of overlapping writers a
receipt can have, with a third between them; two payments give a receipt that
is paid twice.  Receipts that do not share a card do not meet at all, which is
why one receipt is enough for the runs about its walk.  Every amount is 5 and a
card holds 6, so one payment is covered and two are not; the register of
`receipt_walk` can pay the payout twice, so that only the code can stop it.
`receipt_settles` uses a `VIEW` without the history variables, and `receipt_any` one with
those its properties mention: no guard reads any of them.  `CanRemove` and `CanBlock` bound the state space of the runs they
make no difference to.

Fairness is stated here only (`FairSpec`): every call in flight runs on (a
handler runs to its end or fails), and every scheduled step of a receipt is
taken up in the end (a timer that is set fires).  Nothing is assumed of the
callers.  `receipt_settles` excludes failures, since a restart does lose steps
and nothing in the code queues them again; `WalkHasAStep` says so with
`failures = 0`.

### Proofs

Every safety property of `ReceiptService` is proved; only `Settles`, a liveness
property, is left to TLC.

The first half of `ReceiptService_proofs` holds for every schedule.  `Inv` is the type invariant
with `RowsKept` (a row that left "created" names a payment that was performed, or
a settled payout), `CallsKept` (what each call carries is either a row as it may
still stand or one it is allowed to write) and `NoDebt` (no card is written below
zero).  `CardSafety` follows every copy of a card with `Purses`: one that was not
overtaken is the card, or the card moved by its call.  `NoOverdraft` is that and
`NoDebt`.  `HoldSafety` needs `HoldsKept`: the row, and every copy but a confirmation's, of a
payment begun with a hold nobody has confirmed still says so and is not paid.
`WalkHasAStep`
is not a consequence of `Inv` alone: every action hands the step a receipt waits
for to a call in flight, to `pending`, or back, and the proof follows it.

The second half assumes `Overlap # "any"`.  Its strengthening `Alone` adds
`Exclusive` (a call's receipt and card are its own), `Copies` (a copy is what the
operation makes of the stored row), `Tokens` (a payment id is in one pair of hands),
`Unclaimed`, `Counted` and `Agreed` (where a performed payment, or a payout's
settlement, is accounted for).  Each is needed for the same reason `Isolated` is
above: the writes are of whole rows.  The refinement shows that a stored row moves
by a step of `ReceiptLife` or not at all (`Lives`, `RowMoves`).

## 4. The way of a call through the stand

| Module | What it is |
|---|---|
| `Access` | networks, the client address behind a proxy, the allowlist, authorization |
| `FaultRule` | which rule fires for a call, how its chance and its uses are decided, how the console writes one |
| `RequestPipeline` | the middleware of both binaries in its order, one action per statement |
| `MCPipeline` | an instance for TLC |

A call is admitted or turned away (`Admit`, `TurnAway`); the rules are read and
one is chosen (`Evaluate`); its use is taken and its hit counted (`Consume`,
`FaultAnswer`, `Apply`); a listed call may be answered from the store (`Recall`);
it is refused or does its work (`Refuse`, `Work`); its answer is remembered
(`Remember`) and logged (`Record`).  Each statement can fail in the way the code
takes: a rule that cannot be read lets the call pass, a store that cannot be
read does too, and a crash ends the call.  Between any two of them the console
creates, edits, toggles or deletes a rule or a network and the clock ticks.

* `TypeOK` - values in range; a limited rule never has fewer than no uses left.
* `ReplayIsTheFirstAnswer` - whoever did the work behind a result asked the same stand for the same method under the same id with the same parameters, and the result is that answer.  A replay has been through a `jsonb` column (`Jsonb`, `calls.go:62`), which keeps the value and not its layout: "byte for byte" (`idempotency.go:81`) is not what a caller gets.
* `OncePerIntention` - a listed call repeated within the window, after the first was answered and with nothing lost, does not do its work again.
* `UsesBounded` - a limited rule fires as often as it was given, plus once for every other call in flight when it was spent.
* `LogTellsTheTruth` - the log has an entry of every answer behind the allowlist, and tells a deliberate failure from a real one while the rule's row is there.
* `AdmittedWasListed` - whoever got in past a list that is not empty has an address in a listed network, bit for bit: the peer's, or behind a trusted proxy the last entry of the first `X-Forwarded-For` line that reads as an address, and the peer's again when none does.

Run `pipeline`: 3 calls of two kinds (same id, other body), 2 in flight
together, 1 console edit or failure between any two statements, a window of 1 on
a clock of 2 values, addresses of 2 bits, a rule with one use and one with a chance.
Two calls in flight are what a lost count and a doubled work need, and the
third repeats either after it was answered; a window of 1 has an inside and an
end.  Among the calls are one whose last forwarded entry does not read, and one with
a second header line.  Its `VIEW` drops the hit counters, which decide nothing.  Calls end, so
deadlock is not checked.

### Proofs

`RequestPipeline_proofs` proves all six for any number of calls, kinds of calls,
rules, console edits and failures, any window, and addresses of any width.  All
of them rest on `Base`: the shapes of the tables, rules with ids below the
sequence, stored answers with no time to come, and for each call what it must
hold at its step (`Placed`).  On top of it:

* `ReplayInv` (`Backed`, `RowBacked`): whoever is behind an answer that is held or stored worked on the same key with the same body.  Rows are replaced and expire, so a stored answer alone says nothing of who gave it.
* `OnceInv`: while nothing was lost, a finished call that can be repeated has its row (`Stored`), rows were asked for when they say (`RowsAsked`), and a second piece of work was asked for after the window (`AskedLate`).
* `UsesInv`: while a rule has uses left, the calls it fired for and the uses left are at most what it was given; once it has none, those fired and those about to find out are at most that and one per other call in flight.  Bounding only the fired ones is not inductive.
* `LogInv`: what `LogTellsTheTruth` says with the rule a call has in hand.
* `ListIsKept` is about bits: `SameNetworkSameBits` says that comparing masked addresses is comparing their leading bits, `NetworkIsPrefix` that a network is such a prefix, `DecidingIsSeen` that the client address is the entry the property names.  Powers of two are a recursive function (`Pow2`), because the provers know too little of `^`; `PowIs` shows it is that.

Assumed of the constants: finitely many calls; `NoCall` and `NoEntry` are not
values of their types; the seeded rules are a sequence of rows.

## 5. The money of a register

`RegisterLedger` has every writer of `merchant.accounts.balance` and of its
history: the console's relative edit, which undoes itself when it would leave
less than nothing (`EditBegin`, `EditCommit`, `UndoBegin`, `UndoCommit`), a
payout opened and settled in a database transaction (`OpenPayout`,
`SettlePayout`), a settlement of the Merchant API and its refund (`Settle`,
`Unsettle`, `UpdateBalance`), `ResetSandbox`, `DeleteTransaction`, `SetBlocked`, and
`Fail` at any statement.  A statement that reads and writes takes its snapshot
in one step and its row lock in the next.

Schedule `"apart"`: nothing lands between a settlement's read and its write.
Under `"any"` a settlement loses whatever landed there, which is what the merchant
service's `NoMoveLost` is about.

* `EveryMoveCounts` - the balance is what the edits that stood, the payouts and the settlements add up to, less what refused edits have yet to give back.
* `NegativeOnlyByUndo` - a register that pays out is below zero only by that.
* `HistoryExplains` - between movers, and while none got in the way of another, the balance is what its history explains.
* `NamesPerformed` - a history row that names a payout names a performed one.
* `TypeOK` - values in range, every history row adds up.

Run `ledger`: 2 edits, each up or down, a payout opened and settled repeatedly,
a settlement with its refund, 1 reset, 1 failure, 6 rows of history.  Two edits
are what an undo that meets another's history row needs; a starting balance of
2 with edits of 2 and -3 makes both accepted and refused edits happen.

### Proofs

`RegisterLedger_proofs` proves all five for any number of edits, payouts and
settlements.  `EveryMoveCounts` and `NamesPerformed` hold under `"apart"`;
`Undisturbed` (the register is still what a settlement under way has read) and
`RefusedWhenLanded` (what an edit was refused for has landed) are the
strengthenings.

`HistoryExplains` and `TypeOK` hold under every schedule.  `HistoryInv` says, while no
statement has landed under another mover and none was lost (`Clean`), that what a
mover read still stands (`ReadsStand`), that a settlement's target is its sum away
from it (`Targets`), that only a refused edit can have taken a paying register
below nothing (`BelowForUndo`), and that the newest row of the history is the
refused edit's own (`Accounted`, `OwnRow`) - the row its undo is going to delete.
The last part is why `Clean` is in the property: with another mover's row on top
the undo deletes that one.  `BelowForUndo` is what makes every refused edit on a
register that pays out a subtraction.  On a register that takes in, an addition
can be refused too, the undo adds it again (`views.go:420`), and the history no
longer explains the balance; so `HistoryExplainsSafety` assumes `~Inbound`, and
`HistoryExplainsUnlessAdded` states for both directions what is left: the
property holds as long as no refused edit was an addition.

`NegativeOnlyByUndo` holds under `"apart"` for finitely many edits.  It needs the sum
of what the edits under way have yet to give back (`OwedCovers`): that one of them
is covered does not survive the undo of another.  TLC checked `HistoryInv` and
`OwedCovers` on this instance, and on a topup register, before they were proved.
`NoEvent \notin Rows` is the only assumption on a model value.

## 6. Cards and tokens

`StandCards` has one row per number and merchant, a token per register, the code
that verifies a card, and every edit of them: CardsCreate is `CreateBegin` (or
`AddBegin`, the console's form), `Insert` or `InsertRefused`, `Issue`; Verify,
GetVerifyCode and Remove are `Load`, then `Verify`, `GetVerifyCode`, `Remove` or
`Refuse` on the copy after the stall of a slow card, then `Store` of the whole row.
The console has `UpdateCard`, `SetCardBlocked`, `DeleteCard`, `SetCardCashbox`;
stands have `SeedPaymeCards`, `UpdateSandbox` (with the trigger that moves cards
to the new merchant) and `DeleteSandbox`.

* `VerifiedWasProved` - a card counts as verified only if the console said so or a code issued for it came back in its window.
* `HandedOutIsHonoured` - the token a register was answered stands for a card of the number it asked for, as long as both exist.  A row carries the token it was inserted with (`own`, `mock.cards.token`), and a register keeps one token per row.  One answered token stands for nothing, and the property names it: when another call tokenizes the row first, TokenFor keeps that call's token, and the call that made the row still answers its own (`cards.go:162` drops the result).  The comment of `cards.go:160` ("The token it was created with is this register's token for it") does not hold then.
* `OneCardPerMerchant` - a register reads at most one card per number, and a card's page lists exactly the registers that can charge it.
* `TypeOK` - values in range; a code that waits has a window; rows that are gone leave no token and no block.
* `RemovedCanReturn` - a register can register a number again after removing it.

| Run | Schedule and bounds | Checks |
|---|---|---|
| `stand_cards` | any; 2 registers of one merchant, 1 number, 2 callers, 2 rows, 4 calls, 2 console edits or failures, clock to 2 | all but the last |
| `card_readded` | serial, 1 caller, no edits | `RemovedCanReturn` is violated |

Two callers and two registers race for one row and its token; a second row of
the number is what a register that leaves its merchant brings about; the insert of the console's form refuses a row whose register got a token in between (it has no ON CONFLICT).  The
profile's window is 0, so that the documented default (1) applies, on a clock that
passes it.

### Proofs

`StandCards_proofs` proves the first four for any registers, numbers, callers, calls,
edits and failures, under every schedule.  The invariant is `Typed`, `RowsKept` (a
row's home is a living register of its merchant, and its mark and its code are
true), `Distinct` (one row per number and merchant), `TokensKept` (tokens and blocks
are of living registers and of rows that are there), `CallsKept` and `Honoured`: a row's
home holds the token made with it (`own`), or one that a call was answered as kept.
What makes it inductive in spite of the whole-row writes is `CopyTrue`: a stale
copy may lack a mark or a code, but the mark and the code it has are true, and stay
true.  `Evolves` is the relation every step keeps for the copies of the others: ids
are not used again, a row's number never changes, what was proved stays proved,
and a code that was sent stays sent for its window.

## 7. Stands, profiles and the handlers built from them

`Stands` has `control.sandboxes`, `control.configs` and the count of each profile's
rules, the cache of both services, and what the shared scheduler runs.  A call
resolves its stand (`Resolve`), finds a handler or builds one (`Lookup`), attaches
it to the scheduler (`Attach`), publishes it (`Publish`) and is served (`Serve`);
`LoadFails`, `Restart` and the console's `CreateSandbox`, `UpdateSandbox`,
`DeleteSandbox` come between any two of these.  `SeedProfile`, `SeedRule` and
`SeedEnds` are the statements of SeedProfiles, in consoles that may start together
and end at any of them.

* `ServedAsResolved` - a call is served with the settings its stand's profile had when it was resolved, by a handler of that stand, merchant and direction.
* `StepsFindARunner` - no payment is served before the scheduler has something to run.
* `RulesComeWithProfiles` - however many consoles seed, a profile gets its rules once, and all of them unless its seeding was cut short.

Run `stands`: 2 slugs, 2 profiles (one with two rules, one with other settings),
2 directions, 2 callers, 2 consoles, 2 stands, 3 calls, 3 edits, 1 failure.  Two
calls build one key together while an edit moves the stand under them; the third
finds what they left behind.

`Stands_proofs` proves all three for any stands, profiles, calls and consoles.
The first rests on one assignment of addresses to ids that explains the table,
the cache and the calls at once (`Addressed`): ids are never given out twice, and
a slug never changes, so a handler kept under an id cannot be another stand's.
The third rests on `SeedInv`: exactly the console that inserted a profile owes it
its remaining rules.

## 8. Operators: paging and checkout

`Paging` is the console's pager: which rows a page shows, whether it offers a next
and a previous page, and what its links keep of a query.  `Checkout` is both
encodings of a checkout receipt and their parsers, over pairs rather than
characters.  Both are small pure functions, so they are proved instead of run, in `Texts_proofs`
(`GoInts` has the integers of the program and their decimal text):

* `PagerTellsTheTruth`, `EveryRowOnOnePage`, `LinksKeepTheFilter` - the pager shows what the list holds, every row is on one page, a link changes only what it names. The first two ask that page number times size can be counted in the program's integers: beyond that it wraps (`paging.go:93`).
* `GETRoundTrips` - what EncodeGET writes of a receipt ParseGET reads back, in any order of the pairs.  `Complete` says which receipts: they pass Validate, have no description and no detail, which EncodeGET does not write, no negative timeout or currency, and no account field whose name is empty or holds a `=`.
* `EqualsIsCut` - the last is needed: ParseGET cuts a pair at its first `=` (`parse.go:30`, `Cut`), so no parameter string is read back as a receipt with such a field.
* `FormMeansTheReceipt` - the form of such a receipt, without a currency, is parsed to what its parameter string is parsed to.

## 9. Where the schedule matters, and other behaviour worth knowing

What holds under a kinder schedule and fails under the one the server accepts,
because copies are written back after another call has written; setting
`Overlap` in a run, or dropping the exception a property names, shows each:

| Property | Holds under | What happens otherwise |
|---|---|---|
| `MoneyFollowsState` | payment | two deliveries of one Perform both settle (`merchant/infrastructure/transactions.go:45`) |
| `AnswersStand`, `ImplementsLife` (merchant) | payment | a perform that read the row first writes 2 over a stored cancellation |
| `NoMoveLost` | any, until `crossed` | two settlements read one balance and write figures (`billing/infrastructure/billing.go:108`) |
| `RegisterCovered` on a register that pays out | any, until `crossed` | two payouts pass the check on one balance: `register_crossed` |
| `BalanceExplained` | any, until `raced` | overlapping updates record their deltas from one pre-image |
| `PaidIffPerformed` | any, until `overlapped` | a late release overwrites a paid order, a late create an order that was paid (`billing.go:185`) |
| `NoDuplicateWalkIns` | any, until `overlapped` | two requests of a new payer insert an order each |
| `RegisterCovered` on a topup register | one call at a time | a lost move, then two refunds: below zero |
| `CardsAddUp` | any, until `crossed` | a charge that read the card first undoes a refund or a removal |
| `CardsNeverOverdrawn` | any, until `crossed` | two payments clear one card before either charges it, against `card.go:233` |
| `MoneyFollowsReceipt`, `MerchantAgrees`, `ImplementsLife` (receipts) | receipt | two payments of one receipt; a step over a cancellation (`subscribe/infrastructure/receipts.go:34`) |
| `EveryMoveCounts` | apart | a settlement writes over what landed since its read |

Three disagreements with the repository's own words are runs that end in a
violation: `register_crossed` (`billing.go:107` says two settlements serialise),
`payout_twice` (`service.go:421` says a retry must not move money again) and
`card_readded` (`cards.go:123` speaks of re-adding a deleted card, which the
unique index refuses).

Behaviour the models have and no property forbids:

* Receipts. A payout can be paid like a payment (`receipt.go:138`). Completing one on a topup register adds to it, since `SettlePayout` goes through `Apply`. Cancelling a paid payout credits the card again. A cancelled receipt leaves the merchant's payment performed.
* Pipeline. Deleting a rule unmarks the log entries that named it (`README.md:128` says a fault is never mistaken for a real one). A dropped connection is logged as 200; a call that resolved to no stand or was refused by the list is not logged at all. Hits of a limited rule are counted twice, by Consume and by Hit (`rules.go:63`). A duplicated call's second delivery has an empty body (`fault.go:129`). An exemption in a rule's form depends on the order it is written in (`ruleform.go:80`). Rules bound to a profile are never matched (`rules.go:44`; `README.md:131` says they are switched onto a sandbox). UpdateRule does not switch a spent rule back on and may leave two rules for one method, as two CreateRules together may. A row that expired under another body keeps the key. With a trusted proxy, a last forwarded entry that does not read as an address (`unknown`, a host and port) makes the code take the one before it, which the caller wrote (`allowlist.go:92`, against the comment at `:86`), and a proxy that adds a header line of its own is not read at all (`httpx/allowlist.go:53`).
* Cards. A whole-row write of a stale copy undoes a block of the console's. DeleteSandbox takes a shared card from the other registers of its merchant when it was that card's home.
* Stands. A cached service keeps the name its merchant had. One runner serves the steps of every stand. A seeding cut short leaves a profile without its rules for good.
* Ledger. The undo of a refused addition adds it a second time (`views.go:420`), which `EveryMoveCounts` sets aside.
* Checkout. A `;` in a text and a `=` in a field name do not survive the parameter string; nothing compares a detail's total with the amount.

## 10. What is proved, what is only checked, what is not modelled

Proved for every value of the constants: every safety property, action property
and refinement that a passing run checks, what `RegisterCovered` says until it is
violated, and section 8.  Each theorem has the
schedule of its property as a hypothesis, and the hypotheses its section names:
finitely many payments or edits where amounts are added up, a register's direction
where the property depends on it, seeded orders that are no duplicates already.
All other assumptions are the named ASSUMEs of the modules, each evaluated by a
run; nothing else is taken on trust.

Only model-checked: `Settles`, since liveness under fairness is out of the prover's
reach, and the three runs that end in a violation, which show a counterexample.

Not modelled:

* Console sessions and sign-in: a map under one mutex, every operation a critical section of a few lines.
* The browser playground: a single-threaded demo over in-memory repositories.
* Rendering, form parsing, the live stream, masking and headers in the traffic log, outgoing entries, the SMS outbox: data without a step that could go wrong between two others.
* Read-only calls: CheckTransaction, GetStatement, receipts and cards lists, AccountsGetBalance.
* The audit trail (its failures are ignored), console edits of payers, orders and of a transaction's state, the balance of a card set by hand.
* HTTP, JSON, configuration and shutdown; listening and signals.

## 11. What is left

1. The composition of `ReceiptService` with `MerchantService`: the merchant is an endpoint that answers in every way it may, so what two instances of one stand agree on beyond `MerchantAgrees` is not stated.
2. The console's state edits of orders and transactions, as writers that compete with the handlers of section 2.
