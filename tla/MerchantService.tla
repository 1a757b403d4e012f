-------------------------- MODULE MerchantService --------------------------
(***************************************************************************)
(* The Merchant API service (merchant/application/service.go) over its      *)
(* PostgreSQL repositories.                                                 *)
(*                                                                          *)
(* No handler of the service opens a database transaction: postgres.From    *)
(* hands every repository call the pool, so each statement commits on its   *)
(* own and a FOR UPDATE lock ends with the statement that took it.  The     *)
(* model therefore takes one step per statement, and a call in flight keeps *)
(* in loc[c] what it has read so far.  A statement that fails, a cancelled  *)
(* request and a crash all look the same to the tables: the call ends where *)
(* it stands (Fail).                                                        *)
(*                                                                          *)
(* Overlap says which calls the environment lets run at once:               *)
(*   "payment"  calls about different Payme ids may overlap, calls about    *)
(*              the same id do not (no retry overtakes the original);       *)
(*   "any"      every interleaving, which is what the server accepts.       *)
(***************************************************************************)
EXTENDS Transaction, Cashbox, FiniteSets, FiniteSetsExt

CONSTANTS
    Ids,             \* Payme transaction ids
    NoId,            \* the id of a call that names no transaction
    Calls,           \* slots for requests in flight
    Owner,           \* the payer a given order row belongs to
    Amount,          \* orders.amount
    Existing,        \* the orders seeded before any payment; the rest are free ids
    Values,          \* values the account object may carry
    Amounts,         \* amounts a request may carry
    ByName,          \* AccountField is "order_id" (the value names the order) or
                     \* the payer's login (it names the payer)
    AutoRegister,    \* Settings.AutoRegisterAccounts
    InitialBalance,  \* the register's balance when the stand is created
    Overlap,         \* "payment" or "any"
    MaxTime,         \* bound on the clock
    MaxFailures      \* bound on failed calls

ASSUME ServiceAssumption ==
    /\ NoId \notin Ids
    /\ Owner \in [Orders -> Nat]
    /\ Amount \in [Orders -> Nat \ {0}]
    /\ Existing \subseteq Orders
    /\ Values \subseteq Nat
    /\ Amounts \subseteq Int
    /\ ByName \in BOOLEAN
    /\ AutoRegister \in BOOLEAN
    /\ InitialBalance \in Nat
    /\ Overlap \in {"payment", "any"}
    /\ MaxTime \in Nat
    /\ MaxFailures \in Nat

VARIABLES
    txs,        \* merchant.transactions, by Payme id
    orders,     \* merchant.orders.status
    balance,    \* the register's merchant.accounts.balance
    history,    \* sum of the deltas in merchant.balance_events
    blocked,    \* the register's merchant.accounts.blocked
    known,      \* the logins merchant.accounts has a payer for
    now,        \* the stand's clock
    pc,         \* per call: the statement it runs next
    loc,        \* per call: its parameters and what it has read
    applied,    \* ghost: settlements minus reversals written for an id
    torn,       \* ghost: the part of applied left by calls that ended before storing it
    acked,      \* ghost: the methods answered with success for an id
    failures,   \* ghost: failed calls so far
    stale,      \* ghost: calls about to write a figure made of a balance since changed
    late,       \* ghost: calls about to write history from a pre-image since changed
    crossed,    \* ghost: such a figure has been written
    raced,      \* ghost: such a history row has been written
    overlapped  \* ghost: a call has begun while another was in flight

tables  == <<txs, orders, balance, history, blocked, known>>
book    == <<applied, torn, acked, failures>>
traffic == <<stale, late, crossed, raced, overlapped>>
vars == <<txs, orders, balance, history, blocked, known, now, pc, loc,
          applied, torn, acked, failures, stale, late, crossed, raced, overlapped>>

Statements ==
    {"idle", "account", "order", "payer", "reuse", "walkin", "usable", "active",
     "insert", "replay", "process",
     "settle", "unsettle", "update", "commit", "store", "mark"}

Call ==
    [op : {"none", "Check", "Create", "Perform", "Cancel"},
     id : Ids \cup {NoId},
     value : Values \cup {0}, amount : Amounts \cup {0},
     order : Orders \cup {0}, tx : TransactionRow,
     target : Int, pre : Int]

NoCall ==
    [op |-> "none", id |-> NoId, value |-> 0, amount |-> 0,
     order |-> 0, tx |-> NoTransaction, target |-> 0, pre |-> 0]

\* ORDER BY id LIMIT 1.
IsLeast(o, S) == o \in S /\ \A y \in S : o <= y
-----------------------------------------------------------------------------
(* The read side of the repositories *)

\* ActiveByOrder, and the partial unique index one active transaction per order.
ActiveOn(o) == {id \in Ids : txs[id].order = o /\ IsActive(txs[id].state)}

\* accounts.ByField: an order's id finds its owner through the order, a login the payer.
Known(v) == IF ByName THEN v \in Orders /\ orders[v] # "absent" ELSE v \in known

\* The orders resolveOrder may settle for an account value: the one it names,
\* or every order of the payer it names.
Candidates(v) ==
    {o \in Orders : /\ Payable(orders[o])
                    /\ IF ByName THEN o = v ELSE Owner[o] = v}

\* What WalkInRepository.Register finds to reuse.
Reusable(v, a) ==
    {o \in Orders : Owner[o] = v /\ Amount[o] = a /\ Payable(orders[o])}

FreeRows(v, a) ==
    {o \in Orders : Owner[o] = v /\ Amount[o] = a /\ orders[o] = "absent"}
-----------------------------------------------------------------------------
(* Control of a call *)

InFlight(c) == pc[c] # "idle"

\* The environment's choice, see Overlap above.
MayBegin(c, id) ==
    /\ pc[c] = "idle"
    /\ Overlap = "payment" /\ id \in Ids
         => \A d \in Calls : InFlight(d) => loc[d].id # id

Goto(c, s) == pc' = [pc EXCEPT ![c] = s]

Ends(c) == /\ Goto(c, "idle")
           /\ loc' = [loc EXCEPT ![c] = NoCall]

\* A request read the row, if it reads one, and goes on at statement s with call r.
Begin(c, id, s, r) ==
    /\ MayBegin(c, id)
    /\ pc' = [pc EXCEPT ![c] = s]
    /\ loc' = [loc EXCEPT ![c] = r]
    /\ overlapped' = (overlapped \/ \E d \in Calls : InFlight(d))
    /\ UNCHANGED <<tables, now, book, stale, late, crossed, raced>>

Ack(id, method) == acked' = [acked EXCEPT ![id] = @ \cup {method}]

Init ==
    /\ txs = [id \in Ids |-> NoTransaction]
    /\ orders = [o \in Orders |-> IF o \in Existing THEN "new" ELSE "absent"]
    /\ balance = InitialBalance
    /\ history = 0
    /\ blocked = FALSE
    /\ known = {Owner[o] : o \in Existing}
    /\ now = 0
    /\ pc = [c \in Calls |-> "idle"]
    /\ loc = [c \in Calls |-> NoCall]
    /\ applied = [id \in Ids |-> 0]
    /\ torn = [id \in Ids |-> 0]
    /\ acked = [id \in Ids |-> {}]
    /\ failures = 0
    /\ stale = {} /\ late = {}
    /\ crossed = FALSE /\ raced = FALSE /\ overlapped = FALSE
-----------------------------------------------------------------------------
(* Mistakes a change to the handlers could make.  The specification uses none  *)
(* of them; each stands in for the definition named, and a property below has  *)
(* to catch it.                                                                *)

\* InsertRefused without the partial index on active transactions.
DuplicateIdOnly(id, t) == txs[id].state # NoRow

\* WalkIn that inserts without looking for an order to reuse.
RegisterAlways(c) ==
    /\ pc[c] = "walkin"
    /\ \E o \in FreeRows(loc[c].value, loc[c].amount) :
          /\ orders' = [orders EXCEPT ![o] = "new"]
          /\ loc' = [loc EXCEPT ![c].order = o]
    /\ Goto(c, "usable")
    /\ UNCHANGED <<txs, balance, history, blocked, known, now, book, traffic>>

\* ReplayCreate that takes every duplicate for a repeat of this request.
ReplayUnchecked(c) ==
    /\ pc[c] = "replay"
    /\ Ack(loc[c].id, "Create")
    /\ Ends(c)
    /\ UNCHANGED <<tables, now, applied, torn, failures, traffic>>

\* CancelBegin that returns no money for a performed transaction.
CancelWithoutRefund(c, id) ==
    /\ IsActive(txs[id].state)
    /\ \E r \in Reasons :
         Begin(c, id, "store", [NoCall EXCEPT !.op = "Cancel", !.id = id,
                                              !.tx = Cancelled(txs[id], r, now)])

\* UpdateBegin that never reads the pre-image.
NoPreImage(c) ==
    /\ pc[c] = "update"
    /\ late' = late \ {c}
    /\ Goto(c, "commit")
    /\ UNCHANGED <<tables, now, loc, book, stale, crossed, raced, overlapped>>

\* Store without the early return of an expired transaction.
StoreAndMark(c) ==
    /\ pc[c] = "store"
    /\ txs' = [txs EXCEPT ![loc[c].id] = loc[c].tx]
    /\ Goto(c, "mark")
    /\ UNCHANGED <<orders, balance, history, blocked, known, now, loc, book, traffic>>

\* Mark that leaves the order of a cancelled transaction as it is.
MarkPaidOnly(c) ==
    /\ pc[c] = "mark"
    /\ orders' = IF loc[c].op = "Perform" THEN [orders EXCEPT ![loc[c].tx.order] = "paid"]
                                          ELSE orders
    /\ Ack(loc[c].id, loc[c].op)
    /\ Ends(c)
    /\ UNCHANGED <<txs, balance, history, blocked, known, now, applied, torn, failures, traffic>>
-----------------------------------------------------------------------------
(* CheckPerformTransaction and CreateTransaction *)

CheckBegin(c) ==
    \E v \in Values, a \in Amounts :
       Begin(c, NoId, "account", [NoCall EXCEPT !.op = "Check", !.value = v, !.amount = a])

\* ByPaymeID finds nothing: a first delivery.
CreateBegin(c, id) ==
    /\ txs[id].state = NoRow
    /\ \E v \in Values, a \in Amounts :
         Begin(c, id, "account", [NoCall EXCEPT !.op = "Create", !.id = id,
                                                !.value = v, !.amount = a])

\* ByPaymeID finds a created transaction: the stored response is returned.  Any
\* other state is refused and changes nothing.
CreateReplay(c, id) ==
    /\ MayBegin(c, id)
    /\ txs[id].state = StateCreated
    /\ Ack(id, "Create")
    /\ UNCHANGED <<tables, now, pc, loc, applied, torn, failures, traffic>>

\* registerWalkIn refuses an amount no order could carry before it writes anything.
Registers(c) == AutoRegister /\ loc[c].amount > 0

\* resolveOrder looks the payer up; an unknown one is registered or refused.
FindAccount(c) ==
    /\ pc[c] = "account"
    /\ \/ /\ Known(loc[c].value)
          /\ Goto(c, "order")
          /\ UNCHANGED loc
       \/ /\ ~Known(loc[c].value) /\ Registers(c)
          /\ Goto(c, "payer")
          /\ UNCHANGED loc
       \/ /\ ~Known(loc[c].value) /\ ~Registers(c)
          /\ Ends(c)
    /\ UNCHANGED <<tables, now, book, traffic>>

\* Then the order named, or the payer's orders, and the amount check on what was found.
FindOrder(c) ==
    LET found == Candidates(loc[c].value) IN
    /\ pc[c] = "order"
    /\ \/ \E o \in found :
             /\ IsLeast(o, found) /\ loc[c].amount = Amount[o]
             /\ loc' = [loc EXCEPT ![c].order = o]
             /\ Goto(c, "usable")
       \/ /\ \E o \in found : IsLeast(o, found) /\ loc[c].amount # Amount[o]
          /\ Ends(c)
       \/ /\ found = {} /\ Registers(c)
          /\ Goto(c, "payer")
          /\ UNCHANGED loc
       \/ /\ found = {} /\ ~Registers(c)
          /\ Ends(c)
    /\ UNCHANGED <<tables, now, book, traffic>>

\* WalkInRepository.Register: the payer is inserted under the value, or found there.
RegisterPayer(c) ==
    /\ pc[c] = "payer"
    /\ known' = known \cup {loc[c].value}
    /\ Goto(c, "reuse")
    /\ UNCHANGED <<txs, orders, balance, history, blocked, now, loc, book, traffic>>

\* The find-or-create statement starts: its snapshot fixes what it finds to reuse.
Reuse(c) ==
    LET found == Reusable(loc[c].value, loc[c].amount) IN
    /\ pc[c] = "reuse"
    /\ \/ \E o \in found : IsLeast(o, found) /\ loc' = [loc EXCEPT ![c].order = o]
       \/ found = {} /\ UNCHANGED loc
    /\ Goto(c, "walkin")
    /\ UNCHANGED <<tables, now, book, traffic>>

\* It commits: what the snapshot found is reused, and otherwise a row is inserted,
\* whatever has been inserted since.
WalkIn(c) ==
    LET free == FreeRows(loc[c].value, loc[c].amount) IN
    /\ pc[c] = "walkin"
    /\ \/ /\ loc[c].order # 0
          /\ UNCHANGED <<orders, loc>>
       \/ /\ loc[c].order = 0
          /\ \E o \in free :                              \* bound: a free order id is left
                /\ IsLeast(o, free)
                /\ orders' = [orders EXCEPT ![o] = "new"]
                /\ loc' = [loc EXCEPT ![c].order = o]
    /\ Goto(c, "usable")
    /\ UNCHANGED <<txs, balance, history, blocked, known, now, book, traffic>>

\* registerUsable: a blocked register refuses, a check is answered, a create goes on.
Usable(c) ==
    /\ pc[c] = "usable"
    /\ \/ /\ blocked \/ loc[c].op = "Check"
          /\ Ends(c)
       \/ /\ ~blocked /\ loc[c].op = "Create"
          /\ Goto(c, "active")
          /\ UNCHANGED loc
    /\ UNCHANGED <<tables, now, book, traffic>>

\* ActiveByOrder, then the transaction is built with the clock's reading.
Active(c) ==
    /\ pc[c] = "active"
    /\ \/ /\ ActiveOn(loc[c].order) # {}
          /\ Ends(c)
       \/ /\ ActiveOn(loc[c].order) = {}
          /\ loc' = [loc EXCEPT ![c].tx = NewTransaction(loc[c].order, now)]
          /\ Goto(c, "insert")
    /\ UNCHANGED <<tables, now, book, traffic>>

\* The unique constraints of merchant.transactions: the Payme id, and one active
\* transaction per order.  Both come back as ErrDuplicate.
InsertRefused(id, t) == txs[id].state # NoRow \/ ActiveOn(t.order) # {}

Insert(c) ==
    LET id == loc[c].id IN
    /\ pc[c] = "insert"
    /\ \/ /\ InsertRefused(id, loc[c].tx)
          /\ Goto(c, "replay")
          /\ UNCHANGED txs
       \/ /\ ~InsertRefused(id, loc[c].tx)
          /\ txs' = [txs EXCEPT ![id] = loc[c].tx]
          /\ Goto(c, "process")
    /\ UNCHANGED <<orders, balance, history, blocked, known, now, loc, book, traffic>>

\* replayCreate: the row that won the race answers, if there is one under this
\* id and it is still created; everything else is an error.
ReplayCreate(c) ==
    LET id == loc[c].id IN
    /\ pc[c] = "replay"
    /\ \/ txs[id].state = StateCreated /\ Ack(id, "Create")
       \/ txs[id].state # StateCreated /\ UNCHANGED acked
    /\ Ends(c)
    /\ UNCHANGED <<tables, now, applied, torn, failures, traffic>>

\* MarkProcessing on the order as it was read, written over whatever it is now.
Process(c) ==
    /\ pc[c] = "process"
    /\ orders' = [orders EXCEPT ![loc[c].order] = "processing"]
    /\ Ack(loc[c].id, "Create")
    /\ Ends(c)
    /\ UNCHANGED <<txs, balance, history, blocked, known, now, applied, torn, failures, traffic>>
-----------------------------------------------------------------------------
(* PerformTransaction *)

\* The transaction is created and in its window: the money moves next.
PerformBegin(c, id) ==
    /\ txs[id].state = StateCreated
    /\ ~Expired(txs[id], now)
    /\ Begin(c, id, "settle", [NoCall EXCEPT !.op = "Perform", !.id = id,
                                             !.tx = Performed(txs[id], now)])

\* An expired transaction is cancelled in memory; storing that is all that follows.
PerformExpired(c, id) ==
    /\ Expired(txs[id], now)
    /\ Begin(c, id, "store", [NoCall EXCEPT !.op = "Perform", !.id = id,
                                            !.tx = Cancelled(txs[id], ReasonTimeout, now)])

\* A repeat is answered from the row.  A cancelled or unknown id is refused.
PerformReplay(c, id) ==
    /\ MayBegin(c, id)
    /\ txs[id].state = StatePerformed
    /\ Ack(id, "Perform")
    /\ UNCHANGED <<tables, now, pc, loc, applied, torn, failures, traffic>>

\* settle: Register reads the balance and the block, Apply computes the target.
Settle(c) ==
    LET amount == Amount[loc[c].tx.order] IN
    /\ pc[c] = "settle"
    /\ \/ /\ Refuses(blocked, balance, amount)
          /\ Ends(c)
       \/ /\ ~Refuses(blocked, balance, amount)
          /\ loc' = [loc EXCEPT ![c].target = Apply(balance, amount)]
          /\ Goto(c, "update")
    /\ stale' = stale \ {c}
    /\ UNCHANGED <<tables, now, book, late, crossed, raced, overlapped>>
-----------------------------------------------------------------------------
(* CancelTransaction *)

\* A created transaction has moved nothing; a performed one is unsettled first.
CancelBegin(c, id) ==
    \E r \in Reasons :
       LET call == [NoCall EXCEPT !.op = "Cancel", !.id = id,
                                  !.tx = Cancelled(txs[id], r, now)]
       IN  \/ txs[id].state = StateCreated /\ Begin(c, id, "store", call)
           \/ txs[id].state = StatePerformed /\ Begin(c, id, "unsettle", call)

CancelReplay(c, id) ==
    /\ MayBegin(c, id)
    /\ IsFinal(txs[id].state)
    /\ Ack(id, "Cancel")
    /\ UNCHANGED <<tables, now, pc, loc, applied, torn, failures, traffic>>

\* unsettle: the register is read and Reverse computes the target.
Unsettle(c) ==
    /\ pc[c] = "unsettle"
    /\ loc' = [loc EXCEPT ![c].target = Reverse(balance, Amount[loc[c].tx.order])]
    /\ Goto(c, "update")
    /\ stale' = stale \ {c}
    /\ UNCHANGED <<tables, now, book, late, crossed, raced, overlapped>>
-----------------------------------------------------------------------------
(* The statements Perform and Cancel share *)

\* UpdateBalance starts: its snapshot fixes the pre-image the history row is
\* computed from, although the row itself may still be changed by another
\* statement before this one gets the row lock.
UpdateBegin(c) ==
    /\ pc[c] = "update"
    /\ loc' = [loc EXCEPT ![c].pre = balance]
    /\ late' = late \ {c}
    /\ Goto(c, "commit")
    /\ UNCHANGED <<tables, now, book, stale, crossed, raced, overlapped>>

\* Calls that have computed their figure, or started their update, from a balance
\* the commit of c changes.
Reading(c, at) == {d \in Calls \ {c} : pc[d] \in at}

\* UpdateBalance commits: the absolute target, and the delta from the pre-image.
UpdateCommit(c) ==
    LET id == loc[c].id IN
    /\ pc[c] = "commit"
    /\ balance' = loc[c].target
    /\ history' = history + (loc[c].target - loc[c].pre)
    /\ applied' = [applied EXCEPT ![id] = IF loc[c].op = "Perform" THEN @ + 1 ELSE @ - 1]
    /\ stale' = (stale \ {c}) \cup Reading(c, {"update", "commit"})
    /\ late' = (late \ {c}) \cup Reading(c, {"commit"})
    /\ crossed' = (crossed \/ c \in stale)
    /\ raced' = (raced \/ c \in late)
    /\ Goto(c, "store")
    /\ UNCHANGED <<txs, orders, blocked, known, now, loc, torn, acked, failures, overlapped>>

\* What a call at "store" has already moved: +1 settled, -1 reversed, 0 nothing.
Moved(call) ==
    IF call.op = "Perform" /\ call.tx.state = StatePerformed THEN 1
    ELSE IF call.op = "Cancel" /\ call.tx.state = StateCancelledAfterDo THEN -1
    ELSE 0

\* The partial unique index again: a row may not become active on a taken order.
StoreRefused(id, t) == IsActive(t.state) /\ ActiveOn(t.order) \ {id} # {}

\* transactions.Update writes every column that may change from the copy the call
\* holds, whatever the row has become since it was read.
Store(c) ==
    LET id == loc[c].id
        t == loc[c].tx
    IN
    /\ pc[c] = "store"
    /\ ~StoreRefused(id, t)
    /\ txs' = [txs EXCEPT ![id] = t]
    /\ \/ loc[c].op = "Perform" /\ t.state = StateCancelled /\ Ends(c)
       \/ ~(loc[c].op = "Perform" /\ t.state = StateCancelled) /\ Goto(c, "mark") /\ UNCHANGED loc
    /\ UNCHANGED <<orders, balance, history, blocked, known, now, book, traffic>>

\* markOrderPaid and releaseOrder: the status is overwritten unconditionally.
Mark(c) ==
    /\ pc[c] = "mark"
    /\ orders' = [orders EXCEPT ![loc[c].tx.order] =
                    IF loc[c].op = "Perform" THEN "paid" ELSE "cancelled"]
    /\ Ack(loc[c].id, loc[c].op)
    /\ Ends(c)
    /\ UNCHANGED <<txs, balance, history, blocked, known, now, applied, torn, failures, traffic>>
-----------------------------------------------------------------------------
(* Failure, the clock and the operator *)

Abandon(c) ==
    /\ torn' = IF pc[c] = "store" THEN [torn EXCEPT ![loc[c].id] = @ + Moved(loc[c])]
                                  ELSE torn
    /\ Ends(c)
    /\ UNCHANGED <<tables, now, applied, acked, traffic>>

\* The statement is refused by the unique index and the handler returns its error.
StoreFails(c) ==
    /\ pc[c] = "store"
    /\ StoreRefused(loc[c].id, loc[c].tx)
    /\ Abandon(c)
    /\ UNCHANGED failures

\* A statement fails, the request is cancelled, or the process dies.
Fail(c) ==
    /\ InFlight(c)
    /\ failures < MaxFailures                            \* bound
    /\ failures' = failures + 1
    /\ Abandon(c)

Tick ==
    /\ now < MaxTime                                     \* bound
    /\ now' = now + 1
    /\ UNCHANGED <<tables, pc, loc, book, traffic>>

\* The console's switch on the register.
SetBlocked ==
    /\ blocked' = ~blocked
    /\ UNCHANGED <<txs, orders, balance, history, known, now, pc, loc, book, traffic>>
-----------------------------------------------------------------------------
Request(c) ==
    \/ CheckBegin(c)
    \/ \E id \in Ids : \/ CreateBegin(c, id) \/ CreateReplay(c, id)
                       \/ PerformBegin(c, id) \/ PerformExpired(c, id) \/ PerformReplay(c, id)
                       \/ CancelBegin(c, id) \/ CancelReplay(c, id)

Step(c) ==
    \/ FindAccount(c) \/ FindOrder(c) \/ RegisterPayer(c) \/ Reuse(c) \/ WalkIn(c)
    \/ Usable(c) \/ Active(c) \/ Insert(c) \/ ReplayCreate(c) \/ Process(c)
    \/ Settle(c) \/ Unsettle(c) \/ UpdateBegin(c) \/ UpdateCommit(c)
    \/ Store(c) \/ StoreFails(c) \/ Mark(c)

Next ==
    \/ \E c \in Calls : Request(c) \/ Step(c) \/ Fail(c)
    \/ Tick
    \/ SetBlocked

Spec == Init /\ [][Next]_vars
-----------------------------------------------------------------------------
(* Properties *)

\* The values the tables' columns range over.
TablesTyped ==
    /\ txs \in [Ids -> TransactionRow]
    /\ orders \in [Orders -> OrderStatus]
    /\ balance \in Int
    /\ history \in Int
    /\ blocked \in BOOLEAN
    /\ known \subseteq Nat

\* The values the handlers' locals range over.
CallsTyped ==
    /\ pc \in [Calls -> Statements]
    /\ loc \in [Calls -> Call]

CountersTyped ==
    /\ now \in Nat
    /\ failures \in Nat
    /\ applied \in [Ids -> Int]
    /\ torn \in [Ids -> Int]
    /\ acked \in [Ids -> SUBSET {"Create", "Perform", "Cancel"}]

\* The method a call serves and the rows it names, by the statement it is at.
CallWellFormed(call, at) ==
    /\ at = "idle" <=> call.op = "none"
    /\ at \in {"account", "order", "payer", "reuse", "walkin", "usable"} => call.op \in {"Check", "Create"}
    /\ at \in {"active", "insert", "replay", "process"} => call.op = "Create"
    /\ at \in {"settle", "unsettle", "update", "commit", "store", "mark"}
         => call.op \in {"Perform", "Cancel"}
    /\ IF call.op \in {"Create", "Perform", "Cancel"} THEN call.id \in Ids ELSE call.id = NoId
    /\ call.op \in {"Perform", "Cancel"} => call.tx.order \in Orders
    /\ at \in {"usable", "active", "insert", "process"} => call.order \in Orders
    /\ at \in {"insert", "process"} =>
          call.tx.order = call.order /\ call.tx.state = StateCreated
    /\ at = "settle" => call.op = "Perform"
    /\ at = "unsettle" => call.op = "Cancel"
    /\ at \in {"settle", "unsettle", "update", "commit"} =>
          call.tx.state = IF call.op = "Perform" THEN StatePerformed ELSE StateCancelledAfterDo
    /\ at = "store" /\ call.op = "Perform" => call.tx.state \in {StatePerformed, StateCancelled}
    /\ at = "mark" /\ call.op = "Perform" => call.tx.state = StatePerformed
    /\ at \in {"store", "mark"} /\ call.op = "Cancel" => IsFinal(call.tx.state)

\* No call loses its bearings, and every stored row names its order.
WellFormed ==
    /\ \A c \in Calls : CallWellFormed(loc[c], pc[c])
    /\ \A id \in Ids : txs[id].state # NoRow => txs[id].order \in Orders

\* What is remembered of calls that overtook each other.
RacesTyped ==
    /\ stale \subseteq Calls
    /\ late \subseteq Calls
    /\ crossed \in BOOLEAN
    /\ raced \in BOOLEAN
    /\ overlapped \in BOOLEAN

Typed == TablesTyped /\ CallsTyped /\ CountersTyped /\ WellFormed

\* The type invariant: values in range, and locals that fit the statement they serve.
TypeOK == Typed /\ RacesTyped

\* "One order may hold only one active transaction at a time" (service.go:124):
\* no interleaving of handlers leaves two transactions in state 1 or 2 on one
\* order, although ActiveByOrder is only a read and Update writes whole rows.
OneActivePerOrder ==
    \A i, j \in Ids :
        /\ IsActive(txs[i].state) /\ IsActive(txs[j].state)
        /\ txs[i].order = txs[j].order
        => i = j

\* 1 when the money of a transaction in this state belongs to the register.
Holds(t) == IF t.state = StatePerformed THEN 1 ELSE 0

\* Money follows state: the settlements written for a payment, less its
\* reversals, are exactly what its stored state says, but for a call that has
\* moved the money and not stored the row yet, and for calls that ended right
\* there.  No other schedule of Perform, Cancel and expiry settles a payment
\* twice, keeps the money of a refunded one or refunds one that never settled.
MoneyFollowsState ==
    \A id \in Ids :
        LET storing == {c \in Calls : pc[c] = "store" /\ loc[c].id = id} IN
        /\ storing = {} => applied[id] = Holds(txs[id]) + torn[id]
        /\ \A c \in storing : applied[id] = Holds(txs[id]) + Moved(loc[c]) + torn[id]

\* What Payme was told stays true: after a success of Create the row exists,
\* after Perform it is performed or refunded, after Cancel it is cancelled.
AnswersHold(done, state) ==
    /\ "Create" \in done => state # NoRow
    /\ "Perform" \in done => state \in {StatePerformed, StateCancelledAfterDo}
    /\ "Cancel" \in done => IsFinal(state)

AnswersStand == \A id \in Ids : AnswersHold(acked[id], txs[id].state)

\* An order is only ever paid on account of a transaction on it that was performed.
PaidOrderWasPerformed ==
    \A o \in Orders : orders[o] = "paid" =>
        \E id \in Ids : /\ txs[id].order = o
                        /\ txs[id].state \in {StatePerformed, StateCancelledAfterDo}

\* Until calls overlap or one fails, an order is between calls paid exactly when a
\* performed transaction holds it.
PaidIffPerformed ==
    ~overlapped /\ failures = 0 /\ (\A c \in Calls : ~InFlight(c)) =>
        \A o \in Orders : orders[o] = "paid" <=>
            \E id \in Ids : txs[id].order = o /\ txs[id].state = StatePerformed

\* What the settlements and reversals written so far come to.  An id without a row
\* has moved nothing.
SignedAmount(id) ==
    IF txs[id].state = NoRow THEN 0 ELSE applied[id] * Apply(0, Amount[txs[id].order])
Moves == [id \in Ids |-> SignedAmount(id)]

\* "A payout is refused rather than allowed to go negative" (cashbox.go:77): a
\* register never hands out more than it held.  The figure stored is no witness: two
\* payouts that both read it store the same figure and hand out twice the amount, so
\* what was handed out is counted here from the settlements themselves.
RegisterCovered == InitialBalance + SumFunction(Moves) >= 0

\* The balance is the initial one moved once by every settlement and back once by
\* every reversal, in every interleaving of the handlers, retries and late answers,
\* as long as no settlement wrote a figure it had made of a balance another one has
\* changed since.  That is the only way a move is lost, and Register's comment that
\* settlements serialise (billing.go:107-109) denies that it exists.
NoMoveLost == ~crossed => balance = InitialBalance + SumFunction(Moves)

\* "A balance nobody can explain is worse than no history at all" (billing.go:132):
\* in every interleaving, and although settlements overwrite each other, the balance
\* is what its history explains, as long as none waited for the row lock while
\* another one changed the row its pre-image was read from.
BalanceExplained == ~raced => balance = InitialBalance + history

\* "No further transition is possible" from a final state (transaction.go:30).
FinalStays ==
    [][\A id \in Ids : IsFinal(txs[id].state) => txs'[id] = txs[id]]_vars

\* "Each must get the same order rather than leaving a trail of unpaid
\* duplicates" (billing.go:285): until calls overlap, at most one payable order per
\* payer and amount.
NoDuplicateWalkIns ==
    ~overlapped => \A v \in Values, a \in Amounts : Cardinality(Reusable(v, a)) <= 1

\* The state the stored row is in when a call holding this copy writes it.
Origin(call) ==
    IF call.op = "Create" THEN NoRow
    ELSE IF call.tx.state = StateCancelledAfterDo THEN StatePerformed
    ELSE StateCreated

\* No call works from a stale copy: until it stores its transaction the row is
\* still in the state the call read, on the same order; afterwards the row is
\* what the call wrote.
CallFresh(call, at, row) ==
    /\ call.op \in {"Create", "Perform", "Cancel"} =>
          row.state = IF at \in {"process", "mark"} THEN call.tx.state ELSE Origin(call)
    /\ call.op \in {"Perform", "Cancel"} => row.order = call.tx.order

CopiesFresh == \A c \in Calls : CallFresh(loc[c], pc[c], txs[loc[c].id])

\* Calls in flight about one payment: one at most.
OneCallPerPayment ==
    \A c, d \in Calls : InFlight(c) /\ InFlight(d) /\ loc[c].id = loc[d].id /\ loc[c].id \in Ids
        => c = d

\* A payment is in the hands of one call, which has seen its current row: what
\* the schedule "payment" gives the handlers, and "any" does not.
Isolated == OneCallPerPayment /\ CopiesFresh
-----------------------------------------------------------------------------
(* The abstract life of a transaction, which this service implements *)

LifeState ==
    [s \in {NoRow, StateCreated, StatePerformed, StateCancelled, StateCancelledAfterDo} |->
        CASE s = NoRow -> "unknown"
          [] s = StateCreated -> "created"
          [] s = StatePerformed -> "performed"
          [] s = StateCancelled -> "cancelled"
          [] s = StateCancelledAfterDo -> "refunded"]

Life == INSTANCE TransactionLife WITH
            Payments <- Ids,
            status <- [id \in Ids |-> LifeState[txs[id].state]],
            holds <- [id \in Ids |-> txs[id].order]

\* The stored rows only ever move as the protocol's state machine moves.
ImplementsLife == Life!Spec
=============================================================================
