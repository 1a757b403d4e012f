----------------------- MODULE MerchantService_proofs -----------------------
(* Theorems about the Merchant API service, for every stand and schedule. *)
EXTENDS MerchantService, Sums

USE DEF NoRow, StateCreated, StatePerformed, StateCancelled, StateCancelledAfterDo, ReasonTimeout

LEMMA NoCallTyped == NoCall \in Call /\ NoTransaction \in TransactionRow
  BY TransactionAssumption, ServiceAssumption
  DEF TransactionAssumption, ServiceAssumption, NoCall, Call, NoTransaction, TransactionRow

LEMMA InitType == Init => Typed
  <1> SUFFICES ASSUME Init PROVE Typed
    OBVIOUS
  <1>1. TablesTyped
    <2>1. /\ txs \in [Ids -> TransactionRow]
          /\ orders \in [Orders -> OrderStatus]
          /\ blocked \in BOOLEAN
      BY NoCallTyped DEF Init, OrderStatus
    <2>4. known \subseteq Nat
      BY ServiceAssumption DEF Init, ServiceAssumption
    <2>2. balance \in Int /\ history \in Int
      BY ServiceAssumption DEF Init, ServiceAssumption
    <2>3. QED
      BY <2>1, <2>2, <2>4 DEF TablesTyped
  <1>2. CallsTyped
    BY NoCallTyped DEF Init, CallsTyped, Statements
  <1>3. CountersTyped
    <2>1. acked \in [Ids -> SUBSET {"Create", "Perform", "Cancel"}]
      BY DEF Init
    <2>2. QED
      BY <2>1 DEF Init, CountersTyped
  <1>4. WellFormed
    BY DEF Init, WellFormed, CallWellFormed, NoCall, NoTransaction
  <1>5. QED
    BY <1>1, <1>2, <1>3, <1>4 DEF Typed

LEMMA RowTyped ==
  ASSUME NEW t \in TransactionRow, NEW n \in Nat, NEW r \in Reasons \cup {ReasonTimeout},
         NEW o \in Orders
  PROVE  /\ Performed(t, n) \in TransactionRow
         /\ Cancelled(t, r, n) \in TransactionRow
         /\ NewTransaction(o, n) \in TransactionRow
  <1>1. NewTransaction(o, n) \in TransactionRow
    BY DEF NewTransaction, NoTransaction, TransactionRow
  <1>2. QED
    BY <1>1 DEF Performed, Cancelled, TransactionRow

RowsNamed == \A id \in Ids : txs[id].state # NoRow => txs[id].order \in Orders

\* A step of one call: the others keep their place.
LEMMA CallStep ==
  ASSUME CallsTyped, WellFormed, NEW c \in Calls, NEW r \in Call, NEW s \in Statements,
         loc' = [loc EXCEPT ![c] = r], pc' = [pc EXCEPT ![c] = s],
         CallWellFormed(r, s), RowsNamed'
  PROVE  CallsTyped' /\ WellFormed'
  <1>1. CallsTyped'
    BY DEF CallsTyped
  <1>2. ASSUME NEW d \in Calls PROVE CallWellFormed(loc[d], pc[d])'
    <2>1. CASE d = c
      <3>1. loc'[d] = r /\ pc'[d] = s
        BY <2>1 DEF CallsTyped
      <3>2. QED
        BY <3>1 DEF CallWellFormed, IsFinal
    <2>2. CASE d # c
      <3>1. loc'[d] = loc[d] /\ pc'[d] = pc[d]
        BY <2>2 DEF CallsTyped
      <3>2. QED
        BY <3>1 DEF WellFormed, CallWellFormed, IsFinal
    <2>3. QED
      BY <2>1, <2>2
  <1>3. QED
    BY <1>1, <1>2 DEF WellFormed, RowsNamed

LEMMA EndStep ==
  ASSUME CallsTyped, WellFormed, NEW c \in Calls, Ends(c), RowsNamed'
  PROVE  CallsTyped' /\ WellFormed'
  <1>1. CallWellFormed(NoCall, "idle")
    BY DEF CallWellFormed, NoCall
  <1>2. QED
    BY <1>1, NoCallTyped, CallStep DEF Ends, Goto, Statements

\* What a call at a statement knows of itself.
LEMMA AtStatement ==
  ASSUME Typed, NEW c \in Calls
  PROVE  /\ TablesTyped /\ CallsTyped /\ CountersTyped /\ WellFormed /\ RowsNamed
         /\ CallWellFormed(loc[c], pc[c]) /\ loc[c] \in Call /\ pc[c] \in Statements
         /\ loc = [loc EXCEPT ![c] = loc[c]]
  BY DEF Typed, WellFormed, CallsTyped, RowsNamed

\* A step that changes neither the tables nor the ghosts, only where c is.
LEMMA ReadStep ==
  ASSUME Typed, NEW c \in Calls, NEW r \in Call, NEW s \in Statements,
         loc' = [loc EXCEPT ![c] = r], pc' = [pc EXCEPT ![c] = s], CallWellFormed(r, s),
         UNCHANGED <<tables, now, applied, torn, acked, failures>>
  PROVE  Typed'
  <1>1. TablesTyped' /\ CountersTyped' /\ RowsNamed'
    BY DEF Typed, TablesTyped, CountersTyped, RowsNamed, WellFormed, tables, book, traffic
  <1>2. QED
    BY <1>1, CallStep DEF Typed

LEMMA ReadEnds ==
  ASSUME Typed, NEW c \in Calls, Ends(c),
         UNCHANGED <<tables, now, applied, torn, acked, failures>>
  PROVE  Typed'
  <1>1. CallWellFormed(NoCall, "idle")
    BY DEF CallWellFormed, NoCall
  <1>2. QED
    BY <1>1, NoCallTyped, ReadStep DEF Ends, Goto, Statements

LEMMA CheckType == ASSUME Typed, NEW c \in Calls, CheckBegin(c) PROVE Typed'
  <1>1. PICK v \in Values, a \in Amounts :
          loc' = [loc EXCEPT ![c] = [NoCall EXCEPT !.op = "Check", !.value = v, !.amount = a]]
    BY DEF CheckBegin, Begin, book, traffic
  <1> DEFINE r == [NoCall EXCEPT !.op = "Check", !.value = v, !.amount = a]
  <1>2. r \in Call /\ CallWellFormed(r, "account")
    BY NoCallTyped DEF Call, CallWellFormed, NoCall
  <1>3. QED
    BY <1>1, <1>2, ReadStep DEF CheckBegin, Goto, Statements, Begin, book, traffic

LEMMA BeginType ==
  ASSUME Typed, NEW c \in Calls, NEW id \in Ids
  PROVE  /\ CreateBegin(c, id) => Typed'
         /\ PerformBegin(c, id) => Typed'
         /\ PerformExpired(c, id) => Typed'
         /\ CancelBegin(c, id) => Typed'
  <1>0. /\ NoCall \in Call /\ txs[id] \in TransactionRow /\ now \in Nat
        /\ txs[id].state # NoRow => txs[id].order \in Orders
    BY NoCallTyped DEF Typed, TablesTyped, CountersTyped, WellFormed
  <1>2. CASE CreateBegin(c, id)
    <2>1. PICK v \in Values, a \in Amounts :
            loc' = [loc EXCEPT ![c] = [NoCall EXCEPT !.op = "Create", !.id = id,
                                                     !.value = v, !.amount = a]]
      BY <1>2 DEF CreateBegin, Begin, book, traffic
    <2> DEFINE r == [NoCall EXCEPT !.op = "Create", !.id = id, !.value = v, !.amount = a]
    <2>2. r \in Call /\ CallWellFormed(r, "account")
      BY <1>0 DEF Call, CallWellFormed, NoCall
    <2>3. QED
      BY <1>2, <2>1, <2>2, ReadStep DEF CreateBegin, Goto, Statements, Begin, book, traffic
  <1>3. CASE PerformBegin(c, id)
    <2> DEFINE r == [NoCall EXCEPT !.op = "Perform", !.id = id, !.tx = Performed(txs[id], now)]
    <2>1. Performed(txs[id], now) \in TransactionRow
      BY <1>0, RowTyped DEF TransactionRow, Performed
    <2>2. /\ Performed(txs[id], now).state = StatePerformed
          /\ Performed(txs[id], now).order \in Orders
      BY <1>0, <1>3 DEF Performed, TransactionRow, PerformBegin, Begin, book, traffic
    <2>3. r \in Call /\ CallWellFormed(r, "settle")
      BY <1>0, <2>1, <2>2 DEF Call, CallWellFormed, NoCall
    <2>4. QED
      BY <1>3, <2>3, ReadStep DEF PerformBegin, Goto, Statements, Begin, book, traffic
  <1>4. CASE PerformExpired(c, id)
    <2> DEFINE r == [NoCall EXCEPT !.op = "Perform", !.id = id,
                                   !.tx = Cancelled(txs[id], ReasonTimeout, now)]
    <2>1. Cancelled(txs[id], ReasonTimeout, now) \in TransactionRow
      BY <1>0 DEF TransactionRow, Cancelled
    <2>2. /\ Cancelled(txs[id], ReasonTimeout, now).state = StateCancelled
          /\ Cancelled(txs[id], ReasonTimeout, now).order \in Orders
      BY <1>0, <1>4 DEF Cancelled, TransactionRow, PerformExpired, Expired, Begin, book, traffic
    <2>3. r \in Call /\ CallWellFormed(r, "store")
      BY <1>0, <2>1, <2>2 DEF Call, CallWellFormed, NoCall
    <2>4. QED
      BY <1>4, <2>3, ReadStep DEF PerformExpired, Goto, Statements, Begin, book, traffic
  <1>5. CASE CancelBegin(c, id)
    <2>1. PICK k \in Reasons :
            loc' = [loc EXCEPT ![c] = [NoCall EXCEPT !.op = "Cancel", !.id = id,
                                                     !.tx = Cancelled(txs[id], k, now)]]
      BY <1>5 DEF CancelBegin, Begin, book, traffic
    <2> DEFINE r == [NoCall EXCEPT !.op = "Cancel", !.id = id, !.tx = Cancelled(txs[id], k, now)]
    <2>2. Cancelled(txs[id], k, now) \in TransactionRow
      BY <1>0 DEF TransactionRow, Cancelled
    <2>3. /\ Cancelled(txs[id], k, now).state =
                IF txs[id].state = StatePerformed THEN StateCancelledAfterDo ELSE StateCancelled
          /\ Cancelled(txs[id], k, now).order \in Orders
      BY <1>0, <1>5 DEF Cancelled, TransactionRow, CancelBegin, Begin, book, traffic
    <2>4. r \in Call
      BY <1>0, <2>2 DEF Call, NoCall
    <2>5. CASE txs[id].state = StateCreated /\ pc' = [pc EXCEPT ![c] = "store"]
      <3>1. CallWellFormed(r, "store")
        BY <2>3, <2>5 DEF CallWellFormed, NoCall, IsFinal
      <3>2. QED
        BY <1>5, <2>1, <2>4, <2>5, <3>1, ReadStep DEF CancelBegin, Goto, Statements, Begin, book,
        traffic
    <2>6. CASE txs[id].state = StatePerformed /\ pc' = [pc EXCEPT ![c] = "unsettle"]
      <3>1. CallWellFormed(r, "unsettle")
        BY <2>3, <2>6 DEF CallWellFormed, NoCall, IsFinal
      <3>2. QED
        BY <1>5, <2>1, <2>4, <2>6, <3>1, ReadStep DEF CancelBegin, Goto, Statements, Begin, book,
        traffic
    <2>7. QED
      BY <1>5, <2>5, <2>6 DEF CancelBegin, Begin, book, traffic
  <1>6. QED
    BY <1>2, <1>3, <1>4, <1>5

LEMMA ReplayType ==
  ASSUME Typed, NEW c \in Calls, NEW id \in Ids,
         CreateReplay(c, id) \/ PerformReplay(c, id) \/ CancelReplay(c, id)
  PROVE  Typed'
  <1>0. UNCHANGED <<tables, now, pc, loc, applied, torn, failures>>
    BY DEF CreateReplay, PerformReplay, CancelReplay
  <1>1. TablesTyped' /\ CallsTyped' /\ WellFormed'
    BY <1>0 DEF Typed, TablesTyped, CallsTyped, WellFormed, CallWellFormed, IsFinal, tables
  <1>2. acked' \in [Ids -> SUBSET {"Create", "Perform", "Cancel"}]
    <2>1. PICK m \in {"Create", "Perform", "Cancel"} : Ack(id, m)
      BY DEF CreateReplay, PerformReplay, CancelReplay, book, traffic
    <2>2. QED
      BY <2>1 DEF Ack, Typed, CountersTyped
  <1>3. CountersTyped'
    BY <1>2 DEF Typed, CountersTyped, CreateReplay, PerformReplay, CancelReplay, book, traffic
  <1>4. QED
    BY <1>1, <1>3 DEF Typed

LEMMA ReadType ==
  ASSUME Typed, NEW c \in Calls
  PROVE  /\ Usable(c) => Typed'
         /\ Active(c) => Typed'
         /\ Settle(c) => Typed'
         /\ Unsettle(c) => Typed'
         /\ UpdateBegin(c) => Typed'
  <1>0. /\ TablesTyped /\ CallsTyped /\ CountersTyped
        /\ CallWellFormed(loc[c], pc[c]) /\ loc[c] \in Call
        /\ loc = [loc EXCEPT ![c] = loc[c]]
        /\ balance \in Int /\ now \in Nat
    BY AtStatement DEF TablesTyped, CountersTyped
  <1>1. CASE Usable(c)
    <2>1. CASE Ends(c)
      BY <1>1, <2>1, ReadEnds DEF Usable, book, traffic
    <2>2. CASE loc[c].op = "Create" /\ Goto(c, "active") /\ UNCHANGED loc
      <3>1. CallWellFormed(loc[c], "active")
        BY <1>0, <1>1, <2>2 DEF CallWellFormed, Usable, IsFinal, book, traffic
      <3>2. QED
        BY <1>0, <1>1, <2>2, <3>1, ReadStep DEF Usable, Goto, Statements, book, traffic
    <2>3. QED
      BY <1>1, <2>1, <2>2 DEF Usable, book, traffic
  <1>2. CASE Active(c)
    <2>1. CASE Ends(c)
      BY <1>2, <2>1, ReadEnds DEF Active, book, traffic
    <2>2. CASE loc' = [loc EXCEPT ![c].tx = NewTransaction(loc[c].order, now)] /\ Goto(c, "insert")
      <3> DEFINE r == [loc[c] EXCEPT !.tx = NewTransaction(loc[c].order, now)]
      <3>1. loc[c].order \in Orders /\ loc[c].op = "Create" /\ loc[c].id \in Ids
        BY <1>0, <1>2 DEF CallWellFormed, Active, book, traffic
      <3>2. /\ NewTransaction(loc[c].order, now) \in TransactionRow
            /\ NewTransaction(loc[c].order, now).order = loc[c].order
            /\ NewTransaction(loc[c].order, now).state = StateCreated
        BY <1>0, <3>1 DEF NewTransaction, NoTransaction, TransactionRow
      <3>3. /\ r \in Call /\ r.tx = NewTransaction(loc[c].order, now)
            /\ r.op = "Create" /\ r.id \in Ids /\ r.order = loc[c].order
        BY <1>0, <3>1, <3>2 DEF Call
      <3>4. CallWellFormed(r, "insert")
        BY <3>1, <3>2, <3>3 DEF CallWellFormed
      <3>5. QED
        BY <1>2, <2>2, <3>3, <3>4, ReadStep DEF Active, Goto, Statements, book, traffic
    <2>3. QED
      BY <1>2, <2>1, <2>2 DEF Active, book, traffic
  <1>3. CASE Settle(c)
    <2>1. CASE Ends(c)
      BY <1>3, <2>1, ReadEnds DEF Settle, book, traffic
    <2>2. CASE ~Ends(c)
      <3> DEFINE r == [loc[c] EXCEPT !.target = Apply(balance, Amount[loc[c].tx.order])]
      <3>1. loc[c].tx.order \in Orders /\ loc[c].op = "Perform"
        BY <1>0, <1>3 DEF CallWellFormed, Settle, book, traffic
      <3>2. Apply(balance, Amount[loc[c].tx.order]) \in Int
        BY <1>0, <3>1, ServiceAssumption DEF Apply, ServiceAssumption
      <3>3. r \in Call /\ CallWellFormed(r, "update")
        BY <1>0, <1>3, <3>1, <3>2 DEF Call, CallWellFormed, Settle, IsFinal, book, traffic
      <3>4. QED
        BY <1>3, <2>2, <3>3, ReadStep DEF Settle, Goto, Statements, book, traffic
    <2>3. QED
      BY <2>1, <2>2
  <1>4. CASE Unsettle(c)
    <2> DEFINE r == [loc[c] EXCEPT !.target = Reverse(balance, Amount[loc[c].tx.order])]
    <2>1. loc[c].tx.order \in Orders /\ loc[c].op = "Cancel"
      BY <1>0, <1>4 DEF CallWellFormed, Unsettle, book, traffic
    <2>2. Reverse(balance, Amount[loc[c].tx.order]) \in Int
      BY <1>0, <2>1, ServiceAssumption DEF Reverse, ServiceAssumption
    <2>3. r \in Call /\ CallWellFormed(r, "update")
      BY <1>0, <1>4, <2>1, <2>2 DEF Call, CallWellFormed, Unsettle, IsFinal, book, traffic
    <2>4. QED
      BY <1>4, <2>3, ReadStep DEF Unsettle, Goto, Statements, book, traffic
  <1>5. CASE UpdateBegin(c)
    <2> DEFINE r == [loc[c] EXCEPT !.pre = balance]
    <2>1. r \in Call /\ CallWellFormed(r, "commit")
      BY <1>0, <1>5 DEF Call, CallWellFormed, UpdateBegin, IsFinal, book, traffic
    <2>2. QED
      BY <1>5, <2>1, ReadStep DEF UpdateBegin, Goto, Statements, book, traffic
  <1>6. QED
    BY <1>1, <1>2, <1>3, <1>4, <1>5

LEMMA ResolveType ==
  ASSUME Typed, NEW c \in Calls
  PROVE  /\ FindAccount(c) => Typed'
         /\ FindOrder(c) => Typed'
         /\ RegisterPayer(c) => Typed'
         /\ Reuse(c) => Typed'
  <1>0. /\ TablesTyped /\ CallsTyped /\ CountersTyped /\ WellFormed /\ RowsNamed
        /\ CallWellFormed(loc[c], pc[c]) /\ loc[c] \in Call
        /\ loc = [loc EXCEPT ![c] = loc[c]]
    BY AtStatement
  <1>1. ASSUME NEW s \in {"order", "payer", "reuse", "walkin"},
               pc[c] \in {"account", "order", "payer", "reuse"}
        PROVE  CallWellFormed(loc[c], s)
    BY <1>0, <1>1 DEF CallWellFormed
  <1>2. CASE FindAccount(c)
    <2>1. CASE Ends(c)
      BY <1>2, <2>1, ReadEnds DEF FindAccount, book, traffic
    <2>2. ASSUME NEW s \in {"order", "payer"}, Goto(c, s), UNCHANGED loc PROVE Typed'
      BY <1>0, <1>1, <1>2, <2>2, ReadStep DEF FindAccount, Goto, Statements, book, traffic
    <2>3. QED
      BY <1>2, <2>1, <2>2 DEF FindAccount
  <1>3. ASSUME NEW o \in Orders, NEW s \in {"usable", "walkin"},
               pc[c] \in {"order", "reuse"},
               loc' = [loc EXCEPT ![c].order = o], Goto(c, s),
               UNCHANGED <<tables, now, applied, torn, acked, failures>>
        PROVE  Typed'
    <2> DEFINE r == [loc[c] EXCEPT !.order = o]
    <2>1. r \in Call /\ CallWellFormed(r, s)
      BY <1>0, <1>3 DEF Call, CallWellFormed, IsFinal
    <2>2. QED
      BY <1>3, <2>1, ReadStep DEF Goto, Statements
  <1>4. CASE FindOrder(c)
    <2>1. CASE Ends(c)
      BY <1>4, <2>1, ReadEnds DEF FindOrder, book, traffic
    <2>2. CASE Goto(c, "payer") /\ UNCHANGED loc
      BY <1>0, <1>1, <1>4, <2>2, ReadStep DEF FindOrder, Goto, Statements, book, traffic
    <2>3. QED
      BY <1>3, <1>4, <2>1, <2>2 DEF FindOrder, Candidates, book, traffic
  <1>5. CASE RegisterPayer(c)
    <2>1. TablesTyped'
      BY <1>0, <1>5, ServiceAssumption
      DEF RegisterPayer, TablesTyped, Call, ServiceAssumption
    <2>2. CountersTyped' /\ RowsNamed'
      BY <1>0, <1>5 DEF CountersTyped, RowsNamed, RegisterPayer, book, traffic
    <2>3. CallsTyped' /\ WellFormed'
      BY <1>0, <1>1, <1>5, <2>2, CallStep DEF RegisterPayer, Goto, Statements
    <2>4. QED
      BY <2>1, <2>2, <2>3 DEF Typed
  <1>6. CASE Reuse(c)
    <2>1. CASE UNCHANGED loc
      BY <1>0, <1>1, <1>6, <2>1, ReadStep DEF Reuse, Goto, Statements, book, traffic
    <2>2. CASE \E o \in Orders : loc' = [loc EXCEPT ![c].order = o]
      BY <1>3, <1>6, <2>2 DEF Reuse, book, traffic
    <2>3. QED
      BY <1>6, <2>1, <2>2 DEF Reuse, Reusable
  <1>7. QED
    BY <1>2, <1>4, <1>5, <1>6

LEMMA WalkInType == ASSUME Typed, NEW c \in Calls, WalkIn(c) PROVE Typed'
  <1>0. /\ TablesTyped /\ CallsTyped /\ CountersTyped /\ WellFormed
        /\ CallWellFormed(loc[c], "walkin") /\ loc[c] \in Call
        /\ loc = [loc EXCEPT ![c] = loc[c]]
    BY AtStatement DEF WalkIn, book, traffic
  <1>1. CountersTyped' /\ RowsNamed'
    BY <1>0 DEF CountersTyped, RowsNamed, WellFormed, WalkIn, book, traffic
  <1>2. CASE loc[c].order # 0 /\ UNCHANGED <<orders, loc>>
    <2>1. CallWellFormed(loc[c], "usable")
      BY <1>0, <1>2 DEF CallWellFormed, Call
    <2>2. CallsTyped' /\ WellFormed'
      BY <1>0, <1>1, <1>2, <2>1, CallStep DEF WalkIn, Goto, Statements, book, traffic
    <2>3. TablesTyped'
      BY <1>0, <1>2 DEF TablesTyped, WalkIn, book, traffic
    <2>4. QED
      BY <1>1, <2>2, <2>3 DEF Typed
  <1>3. ASSUME NEW o \in Orders, orders' = [orders EXCEPT ![o] = "new"],
               loc' = [loc EXCEPT ![c].order = o]
        PROVE  Typed'
    <2> DEFINE r == [loc[c] EXCEPT !.order = o]
    <2>1. r \in Call /\ CallWellFormed(r, "usable")
      BY <1>0 DEF Call, CallWellFormed, IsFinal
    <2>2. CallsTyped' /\ WellFormed'
      BY <1>0, <1>1, <1>3, <2>1, CallStep DEF WalkIn, Goto, Statements, book, traffic
    <2>3. TablesTyped'
      BY <1>0, <1>3 DEF TablesTyped, WalkIn, OrderStatus, book, traffic
    <2>4. QED
      BY <1>1, <2>2, <2>3 DEF Typed
  <1>4. QED
    BY <1>2, <1>3 DEF WalkIn, FreeRows, book, traffic

\* Ack and EXCEPT on acked never leave its type.
LEMMA AckTyped ==
  ASSUME CountersTyped, NEW id, NEW m \in {"Create", "Perform", "Cancel"}, Ack(id, m)
  PROVE  acked' \in [Ids -> SUBSET {"Create", "Perform", "Cancel"}]
  BY DEF CountersTyped, Ack

LEMMA WriteType ==
  ASSUME Typed, NEW c \in Calls
  PROVE  /\ Insert(c) => Typed'
         /\ ReplayCreate(c) => Typed'
         /\ Process(c) => Typed'
         /\ UpdateCommit(c) => Typed'
         /\ Store(c) => Typed'
         /\ Mark(c) => Typed'
  <1>0. /\ TablesTyped /\ CallsTyped /\ CountersTyped /\ WellFormed /\ RowsNamed
        /\ CallWellFormed(loc[c], pc[c]) /\ loc[c] \in Call
        /\ loc = [loc EXCEPT ![c] = loc[c]]
        /\ loc[c].tx \in TransactionRow
    BY AtStatement DEF Call
  <1>1. CASE Insert(c)
    <2>1. TablesTyped' /\ CountersTyped'
      BY <1>0, <1>1 DEF TablesTyped, CountersTyped, Insert, book, traffic
    <2>2. RowsNamed'
      BY <1>0, <1>1 DEF RowsNamed, Insert, CallWellFormed, TablesTyped, book, traffic
    <2>3. PICK s \in {"replay", "process"} : Goto(c, s)
      BY <1>1 DEF Insert, book, traffic
    <2>4. CallWellFormed(loc[c], s)
      BY <1>0, <1>1 DEF CallWellFormed, Insert, book, traffic
    <2>5. loc' = [loc EXCEPT ![c] = loc[c]] /\ pc' = [pc EXCEPT ![c] = s] /\ s \in Statements
      BY <1>0, <1>1, <2>3 DEF Insert, Goto, Statements, book, traffic
    <2>6. CallsTyped' /\ WellFormed'
      BY <1>0, <2>2, <2>4, <2>5, CallStep
    <2>7. QED
      BY <2>1, <2>6 DEF Typed
  <1>2. CASE ReplayCreate(c)
    <2>1. acked' \in [Ids -> SUBSET {"Create", "Perform", "Cancel"}]
      BY <1>0, <1>2, AckTyped DEF ReplayCreate, CountersTyped, book, traffic
    <2>2. TablesTyped' /\ CountersTyped' /\ RowsNamed'
      BY <1>0, <1>2, <2>1 DEF TablesTyped, CountersTyped, RowsNamed, ReplayCreate, tables, book,
                              traffic
    <2>3. QED
      BY <1>0, <1>2, <2>2, EndStep DEF ReplayCreate, Typed, book, traffic
  <1>3. CASE Process(c)
    <2>1. acked' \in [Ids -> SUBSET {"Create", "Perform", "Cancel"}]
      BY <1>0, <1>3, AckTyped DEF Process, book, traffic
    <2>2. TablesTyped' /\ CountersTyped' /\ RowsNamed'
      BY <1>0, <1>3, <2>1 DEF TablesTyped, CountersTyped, RowsNamed, Process, OrderStatus, book,
                              traffic
    <2>3. QED
      BY <1>0, <1>3, <2>2, EndStep DEF Process, Typed, book, traffic
  <1>4. CASE UpdateCommit(c)
    <2>1. loc[c].target \in Int /\ loc[c].pre \in Int
      BY <1>0 DEF Call
    <2>2. TablesTyped' /\ RowsNamed'
      BY <1>0, <1>4, <2>1 DEF TablesTyped, RowsNamed, UpdateCommit, book, traffic
    <2>3. CountersTyped'
      <3>1. loc[c].id \in Ids
        BY <1>0, <1>4 DEF CallWellFormed, UpdateCommit, book, traffic
      <3>2. applied[loc[c].id] + 1 \in Int /\ applied[loc[c].id] - 1 \in Int
        BY <1>0, <3>1 DEF CountersTyped
      <3>3. applied' \in [Ids -> Int]
        BY <1>0, <1>4, <3>2 DEF CountersTyped, UpdateCommit, book, traffic
      <3>4. QED
        BY <1>0, <1>4, <3>3 DEF CountersTyped, UpdateCommit, book, traffic
    <2>4. CallWellFormed(loc[c], "store")
      BY <1>0, <1>4 DEF CallWellFormed, UpdateCommit, IsFinal, book, traffic
    <2>5. QED
      BY <1>0, <1>4, <2>2, <2>3, <2>4, CallStep DEF UpdateCommit, Goto, Statements, Typed, book,
        traffic
  <1>5. CASE Store(c)
    <2>1. TablesTyped' /\ CountersTyped'
      BY <1>0, <1>5 DEF TablesTyped, CountersTyped, Store, book, traffic
    <2>2. RowsNamed'
      BY <1>0, <1>5 DEF RowsNamed, Store, CallWellFormed, TablesTyped, book, traffic
    <2>3. CASE Ends(c)
      BY <1>0, <2>1, <2>2, <2>3, EndStep DEF Typed
    <2>4. CASE /\ ~(loc[c].op = "Perform" /\ loc[c].tx.state = StateCancelled)
               /\ Goto(c, "mark") /\ UNCHANGED loc
      <3>1. CallWellFormed(loc[c], "mark")
        BY <1>0, <1>5, <2>4 DEF CallWellFormed, Store, IsFinal, book, traffic
      <3>2. QED
        BY <1>0, <2>1, <2>2, <2>4, <3>1, CallStep DEF Goto, Statements, Typed
    <2>5. QED
      BY <1>5, <2>3, <2>4 DEF Store, book, traffic
  <1>6. CASE Mark(c)
    <2>1. loc[c].op \in {"Create", "Perform", "Cancel"}
      BY <1>0, <1>6 DEF CallWellFormed, Mark, book, traffic
    <2>2. acked' \in [Ids -> SUBSET {"Create", "Perform", "Cancel"}]
      BY <1>0, <1>6, <2>1, AckTyped DEF Mark, book, traffic
    <2>3. TablesTyped' /\ CountersTyped' /\ RowsNamed'
      BY <1>0, <1>6, <2>2 DEF TablesTyped, CountersTyped, RowsNamed, Mark, OrderStatus, book, traffic
    <2>4. QED
      BY <1>0, <1>6, <2>3, EndStep DEF Mark, Typed, book, traffic
  <1>7. QED
    BY <1>1, <1>2, <1>3, <1>4, <1>5, <1>6

LEMMA AbandonType == ASSUME Typed, NEW c \in Calls, Abandon(c), failures' \in Nat PROVE Typed'
  <1>0. /\ TablesTyped /\ CallsTyped /\ CountersTyped /\ WellFormed /\ RowsNamed
    BY AtStatement
  <1>1. TablesTyped' /\ RowsNamed'
    BY <1>0 DEF TablesTyped, RowsNamed, Abandon, tables, book, traffic
  <1>2. torn' \in [Ids -> Int]
    <2>1. CASE pc[c] # "store"
      BY <1>0, <2>1 DEF CountersTyped, Abandon, book, traffic
    <2>2. CASE pc[c] = "store"
      <3>1. loc[c].id \in Ids
        BY <2>2, AtStatement DEF CallWellFormed
      <3>2. torn[loc[c].id] + Moved(loc[c]) \in Int
        BY <1>0, <3>1 DEF CountersTyped, Moved
      <3>3. QED
        BY <1>0, <2>2, <3>2 DEF CountersTyped, Abandon, book, traffic
    <2>3. QED
      BY <2>1, <2>2
  <1>3. CountersTyped'
    BY <1>0, <1>2 DEF CountersTyped, Abandon, book, traffic
  <1>4. QED
    BY <1>0, <1>1, <1>3, EndStep DEF Abandon, Typed, book, traffic

LEMMA EnvironmentType == ASSUME Typed, Tick \/ SetBlocked PROVE Typed'
  <1>1. CASE Tick
    <2>1. CountersTyped'
      BY <1>1 DEF Typed, CountersTyped, Tick, book, traffic
    <2>2. TablesTyped' /\ CallsTyped' /\ WellFormed'
      BY <1>1 DEF Typed, TablesTyped, CallsTyped, WellFormed, CallWellFormed, IsFinal, Tick, tables,
                  book, traffic
    <2>3. QED
      BY <2>1, <2>2 DEF Typed
  <1>2. CASE SetBlocked
    <2>1. blocked' \in BOOLEAN
      BY <1>2 DEF SetBlocked, book, traffic
    <2>2. TablesTyped'
      BY <1>2, <2>1 DEF Typed, TablesTyped, SetBlocked, book, traffic
    <2>3. CallsTyped' /\ CountersTyped' /\ WellFormed'
      BY <1>2 DEF Typed, CallsTyped, CountersTyped, WellFormed, CallWellFormed, IsFinal, SetBlocked,
                  book, traffic
    <2>4. QED
      BY <2>2, <2>3 DEF Typed
  <1>3. QED
    BY <1>1, <1>2

LEMMA NextType == Typed /\ [Next]_vars => Typed'
  <1> SUFFICES ASSUME Typed, [Next]_vars PROVE Typed'
    OBVIOUS
  <1>1. ASSUME NEW c \in Calls, Request(c) PROVE Typed'
    BY <1>1, CheckType, BeginType, ReplayType DEF Request
  <1>2. ASSUME NEW c \in Calls, Step(c) PROVE Typed'
    <2>1. failures \in Nat
      BY DEF Typed, CountersTyped
    <2>2. QED
      BY <1>2, <2>1, ResolveType, WalkInType, ReadType, WriteType, AbandonType DEF Step, StoreFails,
        book, traffic
  <1>3. ASSUME NEW c \in Calls, Fail(c) PROVE Typed'
    <2>1. failures' \in Nat
      BY <1>3 DEF Typed, CountersTyped, Fail, book, traffic
    <2>2. QED
      BY <1>3, <2>1, AbandonType DEF Fail, book, traffic
  <1>4. CASE UNCHANGED vars
    BY <1>4 DEF Typed, TablesTyped, CallsTyped, CountersTyped, WellFormed, CallWellFormed, IsFinal,
                vars, book, traffic
  <1>5. QED
    BY <1>1, <1>2, <1>3, <1>4, EnvironmentType DEF Next

LEMMA TypedAlways == Spec => []Typed
  BY InitType, NextType, PTL DEF Spec

\* What is remembered of overlapping calls keeps its type too.
LEMMA RacesStep == ASSUME RacesTyped, [Next]_vars PROVE RacesTyped'
  <1>1. ASSUME NEW c \in Calls, Request(c) PROVE RacesTyped'
    BY <1>1 DEF RacesTyped, Request, CheckBegin, CreateBegin, CreateReplay, PerformBegin, PerformExpired,
                PerformReplay, CancelBegin, CancelReplay, Begin, traffic
  <1>2. ASSUME NEW c \in Calls, Step(c) PROVE RacesTyped'
    <2>1. CASE UpdateCommit(c)
      BY <2>1 DEF RacesTyped, UpdateCommit, Reading
    <2>2. CASE Settle(c) \/ Unsettle(c) \/ UpdateBegin(c)
      BY <2>2 DEF RacesTyped, Settle, Unsettle, UpdateBegin
    <2>3. CASE ~UpdateCommit(c) /\ ~Settle(c) /\ ~Unsettle(c) /\ ~UpdateBegin(c)
      BY <1>2, <2>3 DEF RacesTyped, Step, FindAccount, FindOrder, RegisterPayer, Reuse, WalkIn, Usable,
                        Active, Insert, ReplayCreate, Process, Store, StoreFails, Abandon, Mark, traffic
    <2>4. QED
      BY <2>1, <2>2, <2>3
  <1>3. ASSUME NEW c \in Calls, Fail(c) PROVE RacesTyped'
    BY <1>3 DEF RacesTyped, Fail, Abandon, traffic
  <1>4. CASE Tick \/ SetBlocked \/ UNCHANGED vars
    BY <1>4 DEF RacesTyped, Tick, SetBlocked, vars, traffic
  <1>5. QED
    BY <1>1, <1>2, <1>3, <1>4 DEF Next

\* What has happened between calls is not forgotten.
LEMMA RacesStay ==
  ASSUME [Next]_vars
  PROVE  (crossed => crossed') /\ (raced => raced') /\ (overlapped => overlapped')
  <1>1. ASSUME NEW c \in Calls, Request(c)
        PROVE  crossed' = crossed /\ raced' = raced /\ (overlapped => overlapped')
    <2>1. crossed' = crossed /\ raced' = raced
      BY <1>1 DEF Request, CheckBegin, CreateBegin, CreateReplay, PerformBegin, PerformExpired,
                  PerformReplay, CancelBegin, CancelReplay, Begin, traffic
    <2>2. \/ overlapped' = overlapped
          \/ overlapped' = (overlapped \/ \E d \in Calls : InFlight(d))
      BY <1>1 DEF Request, CheckBegin, CreateBegin, CreateReplay, PerformBegin, PerformExpired,
                  PerformReplay, CancelBegin, CancelReplay, Begin, traffic
    <2>3. overlapped => overlapped'
      BY <2>2
    <2>4. QED
      BY <2>1, <2>3
  <1>2. ASSUME NEW c \in Calls, Step(c)
        PROVE  (crossed => crossed') /\ (raced => raced') /\ overlapped' = overlapped
    <2>1. CASE UpdateCommit(c)
      BY <2>1 DEF UpdateCommit
    <2>2. CASE ~UpdateCommit(c)
      BY <1>2, <2>2 DEF Step, FindAccount, FindOrder, RegisterPayer, Reuse, WalkIn, Usable, Active, Insert,
                        ReplayCreate, Process, Settle, Unsettle, UpdateBegin, Store, StoreFails,
                        Abandon, Mark, traffic
    <2>3. QED
      BY <2>1, <2>2
  <1>3. ASSUME NEW c \in Calls, Fail(c) PROVE UNCHANGED <<crossed, raced, overlapped>>
    BY <1>3 DEF Fail, Abandon, traffic
  <1>4. CASE Tick \/ SetBlocked \/ UNCHANGED vars
    BY <1>4 DEF Tick, SetBlocked, vars, traffic
  <1>5. QED
    BY <1>1, <1>2, <1>3, <1>4 DEF Next

\* The values of every table column and of every handler's locals stay in range,
\* and a call is never at a statement whose parameters it has not read.
THEOREM TypeSafety == Spec => []TypeOK
  <1>1. Init => RacesTyped
    BY DEF Init, RacesTyped
  <1>2. RacesTyped /\ [Next]_vars => RacesTyped'
    BY RacesStep
  <1>3. Typed /\ RacesTyped => TypeOK
    BY DEF TypeOK
  <1>4. QED
    BY <1>1, <1>2, <1>3, TypedAlways, PTL DEF Spec
-----------------------------------------------------------------------------
(* One active transaction per order *)

\* A row that is written active is the only active one on its order.
RowsWritten ==
    \/ txs' = txs
    \/ \E id \in Ids, t \in TransactionRow :
          /\ txs' = [txs EXCEPT ![id] = t]
          /\ IsActive(t.state) => ActiveOn(t.order) \subseteq {id}

\* Only two statements write a row of merchant.transactions.
LEMMA RowsMove ==
  ASSUME [Next]_vars
  PROVE  txs' = txs \/ \E c \in Calls : Insert(c) \/ Store(c)
  <1>1. ASSUME NEW c \in Calls, Request(c) PROVE txs' = txs
    BY <1>1 DEF Request, CheckBegin, CreateBegin, CreateReplay, PerformBegin, PerformExpired, PerformReplay,
                CancelBegin, CancelReplay, tables, Begin, book, traffic
  <1>2. ASSUME NEW c \in Calls, Step(c), ~Insert(c), ~Store(c) PROVE txs' = txs
    BY <1>2 DEF Step, FindAccount, FindOrder, RegisterPayer, Reuse, WalkIn, Usable, Active, ReplayCreate,
                Process, Settle, Unsettle, UpdateBegin, UpdateCommit, StoreFails, Abandon, Mark,
                tables, book, traffic
  <1>3. ASSUME NEW c \in Calls, Fail(c) PROVE txs' = txs
    BY <1>3 DEF Fail, Abandon, tables, book, traffic
  <1>4. CASE Tick \/ SetBlocked \/ UNCHANGED vars
    BY <1>4 DEF Tick, SetBlocked, vars, tables, book, traffic
  <1>5. QED
    BY <1>1, <1>2, <1>3, <1>4 DEF Next

LEMMA StepWrites == ASSUME Typed, [Next]_vars PROVE RowsWritten
  <1>1. ASSUME NEW c \in Calls, Insert(c) PROVE RowsWritten
    <2>1. loc[c].tx \in TransactionRow /\ loc[c].id \in Ids
      BY <1>1, AtStatement DEF Call, CallWellFormed, Insert, book, traffic
    <2>2. QED
      BY <1>1, <2>1 DEF Insert, InsertRefused, RowsWritten, book, traffic
  <1>2. ASSUME NEW c \in Calls, Store(c) PROVE RowsWritten
    <2>1. loc[c].tx \in TransactionRow /\ loc[c].id \in Ids
      BY <1>2, AtStatement DEF Call, CallWellFormed, Store, book, traffic
    <2>2. QED
      BY <1>2, <2>1 DEF Store, StoreRefused, RowsWritten, book, traffic
  <1>3. QED
    BY <1>1, <1>2, RowsMove DEF RowsWritten

LEMMA OneActiveStep == Typed /\ OneActivePerOrder /\ [Next]_vars => OneActivePerOrder'
  <1> SUFFICES ASSUME Typed, OneActivePerOrder, [Next]_vars,
                      NEW i \in Ids, NEW j \in Ids,
                      IsActive(txs'[i].state), IsActive(txs'[j].state),
                      txs'[i].order = txs'[j].order
               PROVE  i = j
    BY DEF OneActivePerOrder, IsActive
  <1>1. CASE txs' = txs
    BY <1>1 DEF OneActivePerOrder
  <1>2. ASSUME NEW id \in Ids, NEW t \in TransactionRow,
               txs' = [txs EXCEPT ![id] = t],
               IsActive(t.state) => ActiveOn(t.order) \subseteq {id}
        PROVE  i = j
    <2>1. \A k \in Ids : txs'[k] = IF k = id THEN t ELSE txs[k]
      BY <1>2 DEF Typed, TablesTyped
    <2>2. CASE i = id \/ j = id
      BY <1>2, <2>1, <2>2 DEF ActiveOn
    <2>3. CASE i # id /\ j # id
      BY <2>1, <2>3 DEF OneActivePerOrder
    <2>4. QED
      BY <2>2, <2>3
  <1>3. QED
    BY <1>1, <1>2, StepWrites DEF RowsWritten

\* However requests interleave, and wherever calls fail, no order is ever held by
\* two live transactions: the property the unique index exists for survives the
\* whole-row writes of handlers that read before they wrote.
THEOREM OneActive == Spec => []OneActivePerOrder
  <1>1. Init => OneActivePerOrder
    BY DEF Init, OneActivePerOrder, IsActive, NoTransaction
  <1>2. QED
    BY <1>1, OneActiveStep, TypedAlways, PTL DEF Spec
-----------------------------------------------------------------------------
(* When no two calls about one payment overlap *)

\* What a step of a call about payment k leaves alone.
OnlyTouches(c, k) ==
    /\ \A d \in Calls : d # c => loc'[d] = loc[d] /\ pc'[d] = pc[d]
    /\ \A j \in Ids : j # k => /\ txs'[j] = txs[j] /\ acked'[j] = acked[j]
                             /\ applied'[j] = applied[j] /\ torn'[j] = torn[j]

\* MoneyFollowsState for one payment that no call, or only this call, serves.
Balanced(id, at, call) ==
    applied[id] = Holds(txs[id]) + (IF at = "store" THEN Moved(call) ELSE 0) + torn[id]

Inv == /\ Typed /\ OneActivePerOrder /\ Isolated
       /\ MoneyFollowsState /\ AnswersStand

\* What a step about payment k has to establish for the invariant to survive it.
Restored(c, k) ==
    /\ pc'[c] = "idle" \/ loc'[c].id = k
    /\ CallFresh(loc'[c], pc'[c], txs'[loc'[c].id])
    /\ k \in Ids => Balanced(k, pc[c], loc[c])'
    /\ k \in Ids => AnswersHold(acked[k], txs[k].state)'

LEMMA NoCallFresh == ASSUME NEW row PROVE CallFresh(NoCall, "idle", row)
  BY DEF CallFresh, NoCall

LEMMA Restoring ==
  ASSUME Inv, Typed', NEW c \in Calls, NEW k \in Ids \cup {NoId},
         OnlyTouches(c, k), Restored(c, k), InFlight(c) => loc[c].id = k,
         k \in Ids => \A d \in Calls : InFlight(d) /\ loc[d].id = k => d = c
  PROVE  (Isolated /\ MoneyFollowsState /\ AnswersStand)'
  <1>1. \A d \in Calls : d # c => (InFlight(d)' => InFlight(d)) /\ loc'[d] = loc[d] /\ pc'[d] = pc[d]
    BY DEF OnlyTouches, InFlight
  <1>2. OneCallPerPayment'
    <2> SUFFICES ASSUME NEW d \in Calls, NEW e \in Calls, InFlight(d)', InFlight(e)',
                        loc'[d].id = loc'[e].id, loc'[d].id \in Ids
                 PROVE  d = e
      BY DEF OneCallPerPayment, InFlight
    <2>1. CASE d # c /\ e # c
      BY <1>1, <2>1 DEF OneCallPerPayment, Inv, Isolated
    <2>2. CASE d = c \/ e = c
      BY <1>1, <2>2 DEF Restored, InFlight
    <2>3. QED
      BY <2>1, <2>2
  <1>3. CopiesFresh'
    <2> SUFFICES ASSUME NEW d \in Calls PROVE CallFresh(loc'[d], pc'[d], txs'[loc'[d].id])
      BY DEF CopiesFresh, CallFresh, Origin
    <2>1. CASE d = c
      BY <2>1 DEF Restored
    <2>2. CASE d # c /\ loc[d].op \in {"Create", "Perform", "Cancel"}
      <3>1. loc[d].id \in Ids /\ InFlight(d)
        BY <2>2, AtStatement DEF Inv, CallWellFormed, InFlight
      <3>2. txs'[loc[d].id] = txs[loc[d].id]
        BY <2>2, <3>1 DEF OnlyTouches
      <3>3. QED
        BY <1>1, <2>2, <3>2 DEF Inv, Isolated, CopiesFresh
    <2>3. CASE d # c /\ loc[d].op \notin {"Create", "Perform", "Cancel"}
      BY <1>1, <2>3 DEF CallFresh
    <2>4. QED
      BY <2>1, <2>2, <2>3
  <1>4. AnswersStand'
    <2> SUFFICES ASSUME NEW id \in Ids PROVE AnswersHold(acked'[id], txs'[id].state)
      BY DEF AnswersStand, AnswersHold, IsFinal
    <2>1. CASE id = k
      BY <2>1 DEF Restored, AnswersHold, IsFinal
    <2>2. CASE id # k
      BY <2>2 DEF OnlyTouches, Inv, AnswersStand
    <2>3. QED
      BY <2>1, <2>2
  <1>5. MoneyFollowsState'
    <2> SUFFICES ASSUME NEW id \in Ids
                 PROVE  /\ (\A d \in Calls : ~(pc'[d] = "store" /\ loc'[d].id = id))
                              => applied'[id] = Holds(txs'[id]) + torn'[id]
                        /\ \A d \in Calls : pc'[d] = "store" /\ loc'[d].id = id =>
                              applied'[id] = Holds(txs'[id]) + Moved(loc'[d]) + torn'[id]
      BY DEF MoneyFollowsState, Holds, Moved
    <2>1. CASE id = k
      <3>1. applied'[k] = Holds(txs'[k]) + (IF pc'[c] = "store" THEN Moved(loc'[c]) ELSE 0) + torn'[k]
        BY <2>1 DEF Restored, Balanced, Holds, Moved
      <3>2. \A d \in Calls : pc'[d] = "store" /\ loc'[d].id = k => d = c
        BY <1>1, <2>1 DEF InFlight, Restored
      <3>3. pc'[c] = "store" => loc'[c].id = k
        BY DEF Restored
      <3>4. Holds(txs'[k]) \in Int /\ torn'[k] \in Int
        BY <2>1 DEF Holds, Typed, CountersTyped
      <3>5. CASE pc'[c] = "store"
        BY <2>1, <3>1, <3>2, <3>3, <3>5
      <3>6. CASE pc'[c] # "store"
        BY <2>1, <3>1, <3>2, <3>4, <3>6
      <3>7. QED
        BY <3>5, <3>6
    <2>2. CASE id # k
      <3>1. txs'[id] = txs[id] /\ applied'[id] = applied[id] /\ torn'[id] = torn[id]
        BY <2>2 DEF OnlyTouches
      <3>2. \A d \in Calls : pc'[d] = "store" /\ loc'[d].id = id <=> pc[d] = "store" /\ loc[d].id = id
        <4>1. pc'[c] = "store" => loc'[c].id = k
          BY DEF Restored
        <4>2. pc[c] = "store" => loc[c].id = k
          BY DEF InFlight
        <4>3. QED
          BY <1>1, <2>2, <4>1, <4>2
      <3>3. QED
        BY <1>1, <3>1, <3>2, <2>2 DEF Inv, MoneyFollowsState, Restored
    <2>3. QED
      BY <2>1, <2>2
  <1>6. QED
    BY <1>2, <1>3, <1>4, <1>5 DEF Isolated

\* What the invariant says of the payment a call in flight serves.
LEMMA Serving ==
  ASSUME Inv, NEW c \in Calls, InFlight(c)
  PROVE  /\ loc[c].id \in Ids \cup {NoId}
         /\ \A d \in Calls : InFlight(d) /\ loc[d].id = loc[c].id /\ loc[c].id \in Ids => d = c
         /\ CallFresh(loc[c], pc[c], txs[loc[c].id])
         /\ loc[c].id \in Ids => /\ Balanced(loc[c].id, pc[c], loc[c])
                               /\ AnswersHold(acked[loc[c].id], txs[loc[c].id].state)
  <1>1. loc[c].id \in Ids \cup {NoId}
    BY AtStatement DEF Inv, CallWellFormed
  <1>2. \A d \in Calls : InFlight(d) /\ loc[d].id = loc[c].id /\ loc[c].id \in Ids => d = c
    BY DEF Inv, Isolated, OneCallPerPayment
  <1>3. CallFresh(loc[c], pc[c], txs[loc[c].id])
    BY DEF Inv, Isolated, CopiesFresh
  <1>4. ASSUME loc[c].id \in Ids PROVE Balanced(loc[c].id, pc[c], loc[c])
    <2> DEFINE k == loc[c].id
    <2>1. pc[c] = "store" => applied[k] = Holds(txs[k]) + Moved(loc[c]) + torn[k]
      BY <1>4 DEF Inv, MoneyFollowsState
    <2>2. pc[c] # "store" => applied[k] = Holds(txs[k]) + torn[k]
      <3>1. \A d \in Calls : pc[d] = "store" /\ loc[d].id = k => d = c
        BY <1>2, <1>4 DEF InFlight
      <3>2. QED
        BY <1>4, <3>1 DEF Inv, MoneyFollowsState
    <2>3. Holds(txs[k]) \in Int /\ torn[k] \in Int
      BY <1>4 DEF Holds, Inv, Typed, CountersTyped
    <2>4. QED
      BY <2>1, <2>2, <2>3 DEF Balanced
  <1>5. QED
    BY <1>1, <1>2, <1>3, <1>4 DEF Inv, AnswersStand

LEMMA Local ==
  ASSUME Typed, NEW c \in Calls, NEW r, NEW s,
         loc' = [loc EXCEPT ![c] = r], pc' = [pc EXCEPT ![c] = s]
  PROVE  /\ loc'[c] = r /\ pc'[c] = s
         /\ \A d \in Calls : d # c => loc'[d] = loc[d] /\ pc'[d] = pc[d]
  BY DEF Typed, CallsTyped

\* What a step wrote to the rows and the call it belongs to is all it touched.
LEMMA Touching ==
  ASSUME Inv, NEW c \in Calls, NEW k, NEW r, NEW s,
         loc' = [loc EXCEPT ![c] = r], pc' = [pc EXCEPT ![c] = s],
         \A j \in Ids : j # k => /\ txs'[j] = txs[j] /\ acked'[j] = acked[j]
                              /\ applied'[j] = applied[j] /\ torn'[j] = torn[j]
  PROVE  loc'[c] = r /\ pc'[c] = s /\ OnlyTouches(c, k)
  <1>1. Typed
    BY DEF Inv
  <1>2. /\ loc'[c] = r /\ pc'[c] = s
        /\ \A d \in Calls : d # c => loc'[d] = loc[d] /\ pc'[d] = pc[d]
    BY <1>1, Local
  <1>3. QED
    BY <1>2 DEF OnlyTouches

\* A statement that reads, or writes only orders: the call keeps its copy.
LEMMA QuietStep ==
  ASSUME Inv, Typed', NEW c \in Calls, InFlight(c), pc[c] \notin {"store", "process", "mark"},
         NEW r, NEW s, loc' = [loc EXCEPT ![c] = r], pc' = [pc EXCEPT ![c] = s],
         UNCHANGED <<txs, applied, torn, acked>>,
         \/ r = NoCall /\ s = "idle"
         \/ /\ r.id = loc[c].id /\ r.op = loc[c].op
            /\ r.op \in {"Perform", "Cancel"} => r.tx = loc[c].tx
            /\ s \notin {"store", "process", "mark"}
  PROVE  (Isolated /\ MoneyFollowsState /\ AnswersStand)'
  <1>0. PICK k \in Ids \cup {NoId} : k = loc[c].id
    BY Serving
  <1>1. loc'[c] = r /\ pc'[c] = s /\ OnlyTouches(c, k)
    <2>1. \A j \in Ids : j # k => /\ txs'[j] = txs[j] /\ acked'[j] = acked[j]
                                 /\ applied'[j] = applied[j] /\ torn'[j] = torn[j]
      OBVIOUS
    <2>2. QED
      BY <2>1, Touching
  <1>2. CallFresh(r, s, txs[r.id])
    <2>1. CASE r = NoCall /\ s = "idle"
      BY <2>1, NoCallFresh
    <2>2. CASE r # NoCall \/ s # "idle"
      BY <2>2, Serving DEF CallFresh, Origin
    <2>3. QED
      BY <2>1, <2>2
  <1>3. ASSUME k \in Ids PROVE Balanced(k, pc[c], loc[c])' /\ AnswersHold(acked[k], txs[k].state)'
    <2>1. Balanced(k, pc[c], loc[c]) /\ AnswersHold(acked[k], txs[k].state)
      BY <1>0, <1>3, Serving
    <2>2. s # "store"
      OBVIOUS
    <2>3. QED
      BY <1>1, <2>1, <2>2 DEF Balanced, AnswersHold, Holds, Moved, IsFinal
  <1>4. Restored(c, k)
    BY <1>0, <1>1, <1>2, <1>3 DEF Restored, NoCall
  <1>5. QED
    BY <1>0, <1>1, <1>4, Serving, Restoring

\* A statement that writes the row, the ghosts or the answer of its own payment.
LEMMA OwnStep ==
  ASSUME Inv, Typed', NEW c \in Calls, InFlight(c), NEW k \in Ids, k = loc[c].id,
         NEW r, NEW s, loc' = [loc EXCEPT ![c] = r], pc' = [pc EXCEPT ![c] = s],
         s = "idle" \/ r.id = k,
         \A j \in Ids : j # k => /\ txs'[j] = txs[j] /\ acked'[j] = acked[j]
                              /\ applied'[j] = applied[j] /\ torn'[j] = torn[j],
         CallFresh(r, s, txs'[r.id]),
         applied'[k] = Holds(txs'[k]) + (IF s = "store" THEN Moved(r) ELSE 0) + torn'[k],
         AnswersHold(acked'[k], txs'[k].state)
  PROVE  (Isolated /\ MoneyFollowsState /\ AnswersStand)'
  <1>1. loc'[c] = r /\ pc'[c] = s /\ OnlyTouches(c, k)
    <2>1. loc \in [Calls -> Call] /\ pc \in [Calls -> Statements]
      BY DEF Inv, Typed, CallsTyped
    <2>2. /\ loc'[c] = r /\ pc'[c] = s
          /\ \A d \in Calls : d # c => loc'[d] = loc[d] /\ pc'[d] = pc[d]
      BY <2>1
    <2>3. QED
      BY <2>2 DEF OnlyTouches
  <1>2. Balanced(k, pc[c], loc[c])'
    BY <1>1 DEF Balanced, Holds, Moved
  <1>3. AnswersHold(acked[k], txs[k].state)'
    BY DEF AnswersHold, IsFinal
  <1>4. Restored(c, k)
    BY <1>1, <1>2, <1>3 DEF Restored
  <1>5. QED
    BY <1>1, <1>4, Serving, Restoring

LEMMA CreateWrites ==
  ASSUME Inv, Typed', NEW c \in Calls, Insert(c) \/ ReplayCreate(c) \/ Process(c)
  PROVE  (Isolated /\ MoneyFollowsState /\ AnswersStand)'
  <1>1. /\ InFlight(c) /\ loc[c].op = "Create" /\ loc[c].id \in Ids
        /\ pc[c] \in {"insert", "process"} => loc[c].tx.state = StateCreated
        /\ loc = [loc EXCEPT ![c] = loc[c]]
    BY AtStatement DEF Inv, CallWellFormed, Insert, ReplayCreate, Process, InFlight, book, traffic
  <1>2. PICK k \in Ids : k = loc[c].id
    BY <1>1
  <1>3. /\ CallFresh(loc[c], pc[c], txs[k]) /\ Balanced(k, pc[c], loc[c])
        /\ AnswersHold(acked[k], txs[k].state)
        /\ txs \in [Ids -> TransactionRow] /\ acked \in [Ids -> SUBSET {"Create", "Perform", "Cancel"}]
        /\ torn \in [Ids -> Int]
    BY <1>1, <1>2, Serving DEF Inv, Typed, TablesTyped, CountersTyped
  <1>4. CASE Insert(c) /\ InsertRefused(k, loc[c].tx)
    <2>1. /\ Goto(c, "replay") /\ UNCHANGED <<txs, loc, applied, torn, acked>>
          /\ pc[c] = "insert"
      BY <1>2, <1>4 DEF Insert, book, traffic
    <2>2. QED
      BY <1>1, <2>1, QuietStep DEF Goto
  <1>5. CASE Insert(c) /\ ~InsertRefused(k, loc[c].tx)
    <2>1. /\ txs' = [txs EXCEPT ![k] = loc[c].tx] /\ Goto(c, "process") /\ pc[c] = "insert"
          /\ UNCHANGED <<loc, applied, torn, acked>> /\ txs[k].state = NoRow
      BY <1>2, <1>5 DEF Insert, InsertRefused, book, traffic
    <2>2. txs'[k] = loc[c].tx /\ \A j \in Ids : j # k => txs'[j] = txs[j]
      BY <1>3, <2>1
    <2>3. CallFresh(loc[c], "process", txs'[k])
      BY <1>1, <2>2 DEF CallFresh
    <2>4. applied'[k] = Holds(txs'[k]) + 0 + torn'[k]
      BY <1>1, <1>3, <2>1, <2>2 DEF Balanced, Holds
    <2>5. AnswersHold(acked'[k], txs'[k].state)
      BY <1>1, <1>3, <2>1, <2>2 DEF AnswersHold, IsFinal
    <2>6. loc' = [loc EXCEPT ![c] = loc[c]] /\ pc' = [pc EXCEPT ![c] = "process"]
      BY <1>1, <2>1 DEF Goto
    <2>7. CallFresh(loc[c], "process", txs'[loc[c].id])
      BY <1>2, <2>3
    <2>8. \A j \in Ids : j # k => /\ txs'[j] = txs[j] /\ acked'[j] = acked[j]
                                 /\ applied'[j] = applied[j] /\ torn'[j] = torn[j]
      BY <2>1, <2>2
    <2>9. QED
      BY <1>1, <1>2, <2>6, <2>7, <2>8, <2>4, <2>5, OwnStep
  <1>6. CASE ReplayCreate(c) \/ Process(c)
    <2>1. /\ Ends(c) /\ UNCHANGED <<txs, applied, torn>> /\ pc[c] # "store"
          /\ \/ UNCHANGED acked
             \/ Ack(k, "Create") /\ txs[k].state = StateCreated
      <3>1. CASE ReplayCreate(c)
        BY <1>2, <3>1 DEF ReplayCreate, tables, book, traffic
      <3>2. CASE Process(c)
        BY <1>1, <1>2, <1>3, <3>2 DEF Process, CallFresh, book, traffic
      <3>3. QED
        BY <1>6, <3>1, <3>2
    <2>2. /\ \A j \in Ids : j # k => acked'[j] = acked[j]
          /\ AnswersHold(acked'[k], txs'[k].state)
      BY <1>3, <2>1 DEF Ack, AnswersHold, IsFinal
    <2>3. applied'[k] = Holds(txs'[k]) + 0 + torn'[k]
      BY <1>3, <2>1 DEF Balanced, Holds
    <2>4. loc' = [loc EXCEPT ![c] = NoCall] /\ pc' = [pc EXCEPT ![c] = "idle"]
      BY <2>1 DEF Ends, Goto
    <2>5. \A j \in Ids : j # k => /\ txs'[j] = txs[j] /\ acked'[j] = acked[j]
                                 /\ applied'[j] = applied[j] /\ torn'[j] = torn[j]
      BY <2>1, <2>2
    <2>6. QED
      BY <1>1, <1>2, <2>2, <2>3, <2>4, <2>5, NoCallFresh, OwnStep
  <1>7. QED
    BY <1>2, <1>4, <1>5, <1>6

LEMMA MoneyWrites ==
  ASSUME Inv, Typed', NEW c \in Calls, UpdateCommit(c) \/ Store(c) \/ Mark(c)
  PROVE  (Isolated /\ MoneyFollowsState /\ AnswersStand)'
  <1>1. /\ InFlight(c) /\ loc[c].op \in {"Perform", "Cancel"} /\ loc[c].id \in Ids
        /\ CallWellFormed(loc[c], pc[c]) /\ pc[c] \in {"commit", "store", "mark"}
        /\ loc = [loc EXCEPT ![c] = loc[c]]
    BY AtStatement DEF Inv, CallWellFormed, UpdateCommit, Store, Mark, InFlight, book, traffic
  <1>2. PICK k \in Ids : k = loc[c].id
    BY <1>1
  <1>3. /\ CallFresh(loc[c], pc[c], txs[k]) /\ Balanced(k, pc[c], loc[c])
        /\ AnswersHold(acked[k], txs[k].state)
        /\ txs \in [Ids -> TransactionRow] /\ acked \in [Ids -> SUBSET {"Create", "Perform", "Cancel"}]
        /\ torn \in [Ids -> Int] /\ applied \in [Ids -> Int]
    BY <1>1, <1>2, Serving DEF Inv, Typed, TablesTyped, CountersTyped
  <1>4. CASE UpdateCommit(c)
    <2>1. /\ applied' = [applied EXCEPT ![k] = IF loc[c].op = "Perform" THEN @ + 1 ELSE @ - 1]
          /\ Goto(c, "store") /\ UNCHANGED <<txs, loc, torn, acked>> /\ pc[c] = "commit"
      BY <1>2, <1>4 DEF UpdateCommit, book, traffic
    <2>2. applied'[k] = applied[k] + Moved(loc[c]) /\ \A j \in Ids : j # k => applied'[j] = applied[j]
      BY <1>1, <1>3, <2>1 DEF Moved, CallWellFormed
    <2>3. applied'[k] = Holds(txs'[k]) + Moved(loc[c]) + torn'[k]
      BY <1>3, <2>1, <2>2 DEF Balanced, Holds, Moved
    <2>4. CallFresh(loc[c], "store", txs'[k])
      BY <1>3, <2>1 DEF CallFresh, Origin
    <2>5. loc' = [loc EXCEPT ![c] = loc[c]] /\ pc' = [pc EXCEPT ![c] = "store"]
      BY <1>1, <2>1 DEF Goto
    <2>6. CallFresh(loc[c], "store", txs'[loc[c].id])
      BY <1>2, <2>4
    <2>7. \A j \in Ids : j # k => /\ txs'[j] = txs[j] /\ acked'[j] = acked[j]
                                 /\ applied'[j] = applied[j] /\ torn'[j] = torn[j]
      BY <2>1, <2>2
    <2>8. AnswersHold(acked'[k], txs'[k].state)
      BY <1>3, <2>1
    <2>9. applied'[k] = Holds(txs'[k]) + (IF "store" = "store" THEN Moved(loc[c]) ELSE 0) + torn'[k]
      BY <2>3
    <2>10. QED
      BY <1>1, <1>2, <2>5, <2>6, <2>7, <2>8, <2>9, OwnStep
  <1>5. CASE Store(c)
    <2>1. /\ txs' = [txs EXCEPT ![k] = loc[c].tx] /\ pc[c] = "store"
          /\ UNCHANGED <<applied, torn, acked>>
          /\ \/ Ends(c)
             \/ Goto(c, "mark") /\ UNCHANGED loc
      BY <1>2, <1>5 DEF Store, book, traffic
    <2>2. txs'[k] = loc[c].tx /\ \A j \in Ids : j # k => txs'[j] = txs[j]
      BY <1>3, <2>1
    <2>3. txs[k].state = Origin(loc[c]) /\ txs[k].order = loc[c].tx.order
      BY <1>1, <1>3, <2>1 DEF CallFresh
    <2>4. applied'[k] = Holds(txs'[k]) + 0 + torn'[k]
      BY <1>1, <1>3, <2>1, <2>2, <2>3 DEF Balanced, Holds, Moved, Origin, CallWellFormed, IsFinal
    <2>5. AnswersHold(acked'[k], txs'[k].state)
      BY <1>1, <1>3, <2>1, <2>2, <2>3 DEF AnswersHold, Origin, CallWellFormed, IsFinal
    <2>6. CallFresh(loc[c], "mark", txs'[k])
      BY <1>1, <2>2 DEF CallFresh
    <2>7. \A j \in Ids : j # k => /\ txs'[j] = txs[j] /\ acked'[j] = acked[j]
                                 /\ applied'[j] = applied[j] /\ torn'[j] = torn[j]
      BY <2>1, <2>2
    <2>8. CASE Ends(c)
      <3>1. loc' = [loc EXCEPT ![c] = NoCall] /\ pc' = [pc EXCEPT ![c] = "idle"]
        BY <2>8 DEF Ends, Goto
      <3>2. QED
        BY <1>1, <1>2, <2>4, <2>5, <2>7, <3>1, NoCallFresh, OwnStep
    <2>9. CASE Goto(c, "mark") /\ UNCHANGED loc
      <3>1. loc' = [loc EXCEPT ![c] = loc[c]] /\ pc' = [pc EXCEPT ![c] = "mark"]
        BY <1>1, <2>9 DEF Goto
      <3>2. CallFresh(loc[c], "mark", txs'[loc[c].id])
        BY <1>2, <2>6
      <3>3. QED
        BY <1>1, <1>2, <2>4, <2>5, <2>7, <3>1, <3>2, OwnStep
    <2>10. QED
      BY <2>1, <2>8, <2>9
  <1>6. CASE Mark(c)
    <2>1. /\ Ends(c) /\ Ack(k, loc[c].op) /\ UNCHANGED <<txs, applied, torn>> /\ pc[c] = "mark"
      BY <1>2, <1>6 DEF Mark, book, traffic
    <2>2. txs[k].state = loc[c].tx.state
      BY <1>1, <1>3, <2>1 DEF CallFresh
    <2>3. /\ \A j \in Ids : j # k => acked'[j] = acked[j]
          /\ acked'[k] = acked[k] \cup {loc[c].op}
      BY <1>3, <2>1 DEF Ack
    <2>4. AnswersHold(acked'[k], txs'[k].state)
      BY <1>1, <1>3, <2>1, <2>2, <2>3 DEF AnswersHold, IsFinal, CallWellFormed
    <2>5. applied'[k] = Holds(txs'[k]) + 0 + torn'[k]
      BY <1>3, <2>1 DEF Balanced, Holds
    <2>6. loc' = [loc EXCEPT ![c] = NoCall] /\ pc' = [pc EXCEPT ![c] = "idle"]
      BY <2>1 DEF Ends, Goto
    <2>7. \A j \in Ids : j # k => /\ txs'[j] = txs[j] /\ acked'[j] = acked[j]
                                 /\ applied'[j] = applied[j] /\ torn'[j] = torn[j]
      BY <2>1, <2>3
    <2>8. QED
      BY <1>1, <1>2, <2>4, <2>5, <2>6, <2>7, NoCallFresh, OwnStep
  <1>7. QED
    BY <1>4, <1>5, <1>6

\* The ways a reading statement changes its call's locals.
Reads(c) ==
    \/ Ends(c)
    \/ /\ \E s \in Statements \ {"store", "process", "mark"} : Goto(c, s)
       /\ \/ UNCHANGED loc
          \/ \E o : loc' = [loc EXCEPT ![c].order = o]
          \/ loc[c].op = "Create" /\ \E t : loc' = [loc EXCEPT ![c].tx = t]
          \/ \E b : loc' = [loc EXCEPT ![c].target = b]
          \/ \E b : loc' = [loc EXCEPT ![c].pre = b]

LEMMA ReadsQuietly ==
  ASSUME Inv, Typed', NEW c \in Calls, InFlight(c), pc[c] \notin {"store", "process", "mark"},
         UNCHANGED <<txs, applied, torn, acked>>, Reads(c)
  PROVE  (Isolated /\ MoneyFollowsState /\ AnswersStand)'
  <1>1. loc[c] \in Call /\ loc = [loc EXCEPT ![c] = loc[c]]
    BY AtStatement DEF Inv
  <1>2. CASE Ends(c)
    BY <1>2, QuietStep DEF Ends, Goto
  <1>3. ASSUME NEW s \in Statements \ {"store", "process", "mark"}, Goto(c, s)
        PROVE  (Isolated /\ MoneyFollowsState /\ AnswersStand)'
    <2>1. CASE UNCHANGED loc
      BY <1>1, <1>3, <2>1, QuietStep DEF Goto
    <2>2. ASSUME NEW o, loc' = [loc EXCEPT ![c].order = o]
          PROVE  (Isolated /\ MoneyFollowsState /\ AnswersStand)'
      <3> DEFINE r == [loc[c] EXCEPT !.order = o]
      <3>1. r.id = loc[c].id /\ r.op = loc[c].op /\ r.tx = loc[c].tx
        BY <1>1 DEF Call
      <3>2. QED
        BY <1>3, <2>2, <3>1, QuietStep DEF Goto
    <2>3. ASSUME NEW t, loc' = [loc EXCEPT ![c].tx = t], loc[c].op = "Create"
          PROVE  (Isolated /\ MoneyFollowsState /\ AnswersStand)'
      <3> DEFINE r == [loc[c] EXCEPT !.tx = t]
      <3>1. r.id = loc[c].id /\ r.op = loc[c].op
        BY <1>1 DEF Call
      <3>2. QED
        BY <1>3, <2>3, <3>1, QuietStep DEF Goto
    <2>4. ASSUME NEW b, loc' = [loc EXCEPT ![c].target = b]
          PROVE  (Isolated /\ MoneyFollowsState /\ AnswersStand)'
      <3> DEFINE r == [loc[c] EXCEPT !.target = b]
      <3>1. r.id = loc[c].id /\ r.op = loc[c].op /\ r.tx = loc[c].tx
        BY <1>1 DEF Call
      <3>2. QED
        BY <1>3, <2>4, <3>1, QuietStep DEF Goto
    <2>5. ASSUME NEW b, loc' = [loc EXCEPT ![c].pre = b]
          PROVE  (Isolated /\ MoneyFollowsState /\ AnswersStand)'
      <3> DEFINE r == [loc[c] EXCEPT !.pre = b]
      <3>1. r.id = loc[c].id /\ r.op = loc[c].op /\ r.tx = loc[c].tx
        BY <1>1 DEF Call
      <3>2. QED
        BY <1>3, <2>5, <3>1, QuietStep DEF Goto
    <2>6. QED
      BY <2>1, <2>2, <2>3, <2>4, <2>5, <1>2, <1>3 DEF Reads, Ends
  <1>4. QED
    BY <1>2, <1>3 DEF Reads

LEMMA ReadStatements ==
  ASSUME Inv, Typed', NEW c \in Calls,
         \/ FindAccount(c) \/ FindOrder(c) \/ RegisterPayer(c) \/ Reuse(c)
         \/ WalkIn(c) \/ Usable(c) \/ Active(c)
         \/ Settle(c) \/ Unsettle(c) \/ UpdateBegin(c)
  PROVE  (Isolated /\ MoneyFollowsState /\ AnswersStand)'
  <1>1. /\ InFlight(c) /\ pc[c] \notin {"store", "process", "mark"}
        /\ UNCHANGED <<txs, applied, torn, acked>>
    BY DEF FindAccount, FindOrder, RegisterPayer, Reuse, WalkIn, Usable, Active, Settle, Unsettle,
           UpdateBegin, InFlight, tables, book, traffic
  <1>2. ASSUME FindAccount(c) \/ FindOrder(c) \/ RegisterPayer(c) \/ Reuse(c) \/ WalkIn(c) PROVE Reads(c)
    BY <1>2 DEF FindAccount, FindOrder, RegisterPayer, Reuse, WalkIn, Reads, Statements, book, traffic
  <1>3. ASSUME Usable(c) PROVE Reads(c)
    BY <1>3 DEF Usable, Reads, Statements, book, traffic
  <1>4. ASSUME Active(c) PROVE Reads(c)
    <2>1. loc[c].op = "Create"
      BY <1>4, AtStatement DEF Inv, CallWellFormed, Active, book, traffic
    <2>2. QED
      BY <1>4, <2>1 DEF Active, Reads, Statements, book, traffic
  <1>5. ASSUME Settle(c) \/ Unsettle(c) \/ UpdateBegin(c) PROVE Reads(c)
    BY <1>5 DEF Settle, Unsettle, UpdateBegin, Reads, Statements, book, traffic
  <1>6. Reads(c)
    BY <1>2, <1>3, <1>4, <1>5
  <1>7. QED
    BY <1>1, <1>6, ReadsQuietly

\* A call that ends where it stands: what it moved without storing it is torn.
LEMMA AbandonStep ==
  ASSUME Inv, Typed', NEW c \in Calls, InFlight(c), Abandon(c)
  PROVE  (Isolated /\ MoneyFollowsState /\ AnswersStand)'
  <1>1. /\ loc' = [loc EXCEPT ![c] = NoCall] /\ pc' = [pc EXCEPT ![c] = "idle"]
        /\ UNCHANGED <<txs, applied, acked>>
    BY DEF Abandon, Ends, Goto, tables, book, traffic
  <1>2. CASE pc[c] \notin {"store", "process", "mark"}
    <2>1. UNCHANGED <<txs, applied, torn, acked>>
      BY <1>1, <1>2 DEF Abandon, book, traffic
    <2>2. QED
      BY <1>1, <1>2, <2>1, QuietStep
  <1>3. CASE pc[c] \in {"store", "process", "mark"}
    <2>1. loc[c].id \in Ids
      BY <1>3, AtStatement DEF Inv, CallWellFormed
    <2>2. PICK k \in Ids : k = loc[c].id
      BY <2>1
    <2>3. /\ Balanced(k, pc[c], loc[c]) /\ AnswersHold(acked[k], txs[k].state)
          /\ torn \in [Ids -> Int] /\ Holds(txs[k]) \in Int /\ Moved(loc[c]) \in Int
      BY <2>1, <2>2, Serving DEF Inv, Typed, CountersTyped, Holds, Moved
    <2>4. /\ \A j \in Ids : j # k => torn'[j] = torn[j]
          /\ torn'[k] = torn[k] + (IF pc[c] = "store" THEN Moved(loc[c]) ELSE 0)
      BY <2>2, <2>3 DEF Abandon, book, traffic
    <2>5. applied'[k] = Holds(txs'[k]) + 0 + torn'[k]
      BY <1>1, <2>3, <2>4 DEF Balanced, Holds
    <2>6. AnswersHold(acked'[k], txs'[k].state)
      BY <1>1, <2>3
    <2>7. \A j \in Ids : j # k => /\ txs'[j] = txs[j] /\ acked'[j] = acked[j]
                                 /\ applied'[j] = applied[j] /\ torn'[j] = torn[j]
      BY <1>1, <2>4
    <2>8. QED
      BY <1>1, <2>2, <2>5, <2>6, <2>7, NoCallFresh, OwnStep
  <1>4. QED
    BY <1>2, <1>3

\* A payment that no call in flight serves.
Unserved(id) == \A d \in Calls : InFlight(d) => loc[d].id # id

LEMMA Alone ==
  ASSUME Overlap # "any", NEW c \in Calls, NEW id \in Ids, MayBegin(c, id)
  PROVE  pc[c] = "idle" /\ Unserved(id)
  BY ServiceAssumption DEF ServiceAssumption, MayBegin, Unserved

LEMMA AtRest ==
  ASSUME Inv, NEW id \in Ids, Unserved(id)
  PROVE  /\ applied[id] = Holds(txs[id]) + torn[id]
         /\ AnswersHold(acked[id], txs[id].state)
  <1>1. \A d \in Calls : ~(pc[d] = "store" /\ loc[d].id = id)
    BY DEF Unserved, InFlight
  <1>2. QED
    BY <1>1 DEF Inv, MoneyFollowsState, AnswersStand

\* A request that reads the row and starts a call on what it found.
LEMMA Begins ==
  ASSUME Inv, Typed', NEW c \in Calls, NEW id \in Ids, pc[c] = "idle", Unserved(id),
         UNCHANGED <<txs, applied, torn, acked>>,
         NEW r, NEW s, loc' = [loc EXCEPT ![c] = r], pc' = [pc EXCEPT ![c] = s],
         r.id = id, CallFresh(r, s, txs[id]), s = "store" => Moved(r) = 0
  PROVE  (Isolated /\ MoneyFollowsState /\ AnswersStand)'
  <1>1. loc'[c] = r /\ pc'[c] = s /\ OnlyTouches(c, id)
    <2>1. \A j \in Ids : j # id => /\ txs'[j] = txs[j] /\ acked'[j] = acked[j]
                                  /\ applied'[j] = applied[j] /\ torn'[j] = torn[j]
      OBVIOUS
    <2>2. QED
      BY <2>1, Touching
  <1>2. Holds(txs[id]) \in Int /\ torn[id] \in Int
    BY DEF Holds, Inv, Typed, CountersTyped
  <1>3. Balanced(id, pc[c], loc[c])'
    BY <1>1, <1>2, AtRest DEF Balanced, Holds, Moved
  <1>4. AnswersHold(acked[id], txs[id].state)'
    BY AtRest DEF AnswersHold, IsFinal
  <1>5. Restored(c, id)
    BY <1>1, <1>3, <1>4 DEF Restored
  <1>6. QED
    BY <1>1, <1>5, Restoring DEF InFlight, Unserved

\* A request that is answered from the row.
LEMMA Replays ==
  ASSUME Inv, Typed', NEW c \in Calls, NEW id \in Ids, pc[c] = "idle", Unserved(id),
         CreateReplay(c, id) \/ PerformReplay(c, id) \/ CancelReplay(c, id)
  PROVE  (Isolated /\ MoneyFollowsState /\ AnswersStand)'
  <1>1. /\ UNCHANGED <<txs, applied, torn, pc, loc>>
        /\ acked \in [Ids -> SUBSET {"Create", "Perform", "Cancel"}]
    BY DEF CreateReplay, PerformReplay, CancelReplay, tables, Inv, Typed, CountersTyped, book, traffic
  <1>2. PICK m \in {"Create", "Perform", "Cancel"} :
          /\ acked' = [acked EXCEPT ![id] = @ \cup {m}]
          /\ \/ m = "Create" /\ txs[id].state = StateCreated
             \/ m = "Perform" /\ txs[id].state = StatePerformed
             \/ m = "Cancel" /\ IsFinal(txs[id].state)
    BY DEF CreateReplay, PerformReplay, CancelReplay, Ack, book, traffic
  <1>3. OnlyTouches(c, id)
    BY <1>1, <1>2 DEF OnlyTouches
  <1>4. acked'[id] = acked[id] \cup {m} /\ AnswersHold(acked[id], txs[id].state)
    BY <1>1, <1>2, AtRest
  <1>5. AnswersHold(acked[id], txs[id].state)'
    BY <1>1, <1>2, <1>4 DEF AnswersHold, IsFinal
  <1>6. Balanced(id, pc[c], loc[c])'
    <2>1. Holds(txs[id]) \in Int /\ torn[id] \in Int
      BY DEF Holds, Inv, Typed, CountersTyped
    <2>2. QED
      BY <1>1, <2>1, AtRest DEF Balanced, Holds
  <1>7. CallFresh(loc'[c], pc'[c], txs'[loc'[c].id])
    BY <1>1, AtStatement DEF Inv, CallWellFormed, CallFresh
  <1>8. Restored(c, id)
    BY <1>1, <1>5, <1>6, <1>7 DEF Restored
  <1>9. QED
    BY <1>3, <1>8, Restoring DEF InFlight, Unserved

LEMMA RequestStep ==
  ASSUME Inv, Typed', Overlap # "any", NEW c \in Calls, Request(c)
  PROVE  (Isolated /\ MoneyFollowsState /\ AnswersStand)'
  <1>1. CASE CheckBegin(c)
    <2>1. PICK v \in Values, a \in Amounts :
            loc' = [loc EXCEPT ![c] = [NoCall EXCEPT !.op = "Check", !.value = v, !.amount = a]]
      BY <1>1 DEF CheckBegin, Begin, book, traffic
    <2> DEFINE r == [NoCall EXCEPT !.op = "Check", !.value = v, !.amount = a]
    <2>2. r.op = "Check" /\ r.id = NoId
      BY DEF NoCall
    <2>3. /\ pc' = [pc EXCEPT ![c] = "account"] /\ pc[c] = "idle"
          /\ UNCHANGED <<txs, applied, torn, acked>>
      BY <1>1 DEF CheckBegin, Goto, MayBegin, tables, Begin, book, traffic
    <2>4. loc'[c] = r /\ pc'[c] = "account" /\ OnlyTouches(c, NoId)
      <3>1. \A j \in Ids : j # NoId => /\ txs'[j] = txs[j] /\ acked'[j] = acked[j]
                                      /\ applied'[j] = applied[j] /\ torn'[j] = torn[j]
        BY <2>3
      <3>2. QED
        BY <2>1, <2>3, <3>1, Touching
    <2>5. CallFresh(loc'[c], pc'[c], txs'[loc'[c].id])
      BY <2>2, <2>4 DEF CallFresh
    <2>6. NoId \notin Ids
      BY ServiceAssumption DEF ServiceAssumption
    <2>7. QED
      BY <2>2, <2>3, <2>4, <2>5, <2>6, Restoring DEF Restored, InFlight
  <1>2. ASSUME NEW id \in Ids, CreateBegin(c, id) PROVE (Isolated /\ MoneyFollowsState /\ AnswersStand)'
    <2>1. PICK v \in Values, a \in Amounts :
            loc' = [loc EXCEPT ![c] = [NoCall EXCEPT !.op = "Create", !.id = id,
                                                     !.value = v, !.amount = a]]
      BY <1>2 DEF CreateBegin, Begin, book, traffic
    <2> DEFINE r == [NoCall EXCEPT !.op = "Create", !.id = id, !.value = v, !.amount = a]
    <2>2. r.op = "Create" /\ r.id = id
      BY DEF NoCall
    <2>3. CallFresh(r, "account", txs[id])
      BY <1>2, <2>2 DEF CreateBegin, CallFresh, Origin, Begin, book, traffic
    <2>4. pc[c] = "idle" /\ Unserved(id)
      BY <1>2, Alone DEF CreateBegin, Begin, book, traffic
    <2>5. QED
      BY <1>2, <2>1, <2>2, <2>3, <2>4, Begins DEF CreateBegin, Goto, tables, Begin, book, traffic
  <1>3. ASSUME NEW id \in Ids, PerformBegin(c, id) PROVE (Isolated /\ MoneyFollowsState /\ AnswersStand)'
    <2> DEFINE r == [NoCall EXCEPT !.op = "Perform", !.id = id, !.tx = Performed(txs[id], now)]
    <2>0. txs[id] \in TransactionRow
      BY AtStatement DEF Inv, TablesTyped, Typed
    <2>1. /\ r.op = "Perform" /\ r.id = id
          /\ r.tx.state = StatePerformed /\ r.tx.order = txs[id].order
      BY <2>0 DEF NoCall, Performed, TransactionRow
    <2>2. CallFresh(r, "settle", txs[id])
      BY <1>3, <2>1 DEF PerformBegin, CallFresh, Origin, Begin, book, traffic
    <2>3. pc[c] = "idle" /\ Unserved(id)
      BY <1>3, Alone DEF PerformBegin, Begin, book, traffic
    <2>4. QED
      BY <1>3, <2>1, <2>2, <2>3, Begins DEF PerformBegin, Goto, tables, Begin, book, traffic
  <1>4. ASSUME NEW id \in Ids, PerformExpired(c, id) PROVE (Isolated /\ MoneyFollowsState /\ AnswersStand)'
    <2> DEFINE r == [NoCall EXCEPT !.op = "Perform", !.id = id,
                                   !.tx = Cancelled(txs[id], ReasonTimeout, now)]
    <2>0. txs[id] \in TransactionRow
      BY AtStatement DEF Inv, TablesTyped, Typed
    <2>1. /\ r.op = "Perform" /\ r.id = id /\ txs[id].state = StateCreated
          /\ r.tx.state = StateCancelled /\ r.tx.order = txs[id].order
      BY <1>4, <2>0 DEF NoCall, Cancelled, TransactionRow, PerformExpired, Expired, Begin, book,
                        traffic
    <2>2. CallFresh(r, "store", txs[id]) /\ Moved(r) = 0
      BY <2>1 DEF CallFresh, Origin, Moved
    <2>3. pc[c] = "idle" /\ Unserved(id)
      BY <1>4, Alone DEF PerformExpired, Begin, book, traffic
    <2>4. QED
      BY <1>4, <2>1, <2>2, <2>3, Begins DEF PerformExpired, Goto, tables, Begin, book, traffic
  <1>5. ASSUME NEW id \in Ids, CancelBegin(c, id) PROVE (Isolated /\ MoneyFollowsState /\ AnswersStand)'
    <2>1. PICK z \in Reasons :
            loc' = [loc EXCEPT ![c] = [NoCall EXCEPT !.op = "Cancel", !.id = id,
                                                     !.tx = Cancelled(txs[id], z, now)]]
      BY <1>5 DEF CancelBegin, Begin, book, traffic
    <2> DEFINE r == [NoCall EXCEPT !.op = "Cancel", !.id = id, !.tx = Cancelled(txs[id], z, now)]
    <2>2. txs[id] \in TransactionRow
      BY AtStatement DEF Inv, TablesTyped, Typed
    <2>3. /\ r.op = "Cancel" /\ r.id = id /\ r.tx.order = txs[id].order
          /\ r.tx.state = IF txs[id].state = StatePerformed THEN StateCancelledAfterDo
                                                            ELSE StateCancelled
      BY <2>2 DEF NoCall, Cancelled, TransactionRow
    <2>4. pc[c] = "idle" /\ Unserved(id) /\ UNCHANGED <<txs, applied, torn, acked>>
      BY <1>5, Alone DEF CancelBegin, tables, Begin, book, traffic
    <2>5. CASE txs[id].state = StateCreated /\ pc' = [pc EXCEPT ![c] = "store"]
      <3>1. CallFresh(r, "store", txs[id]) /\ Moved(r) = 0
        BY <2>3, <2>5 DEF CallFresh, Origin, Moved
      <3>2. QED
        BY <2>1, <2>3, <2>4, <2>5, <3>1, Begins DEF Goto
    <2>6. CASE txs[id].state = StatePerformed /\ pc' = [pc EXCEPT ![c] = "unsettle"]
      <3>1. CallFresh(r, "unsettle", txs[id])
        BY <2>3, <2>6 DEF CallFresh, Origin
      <3>2. QED
        BY <2>1, <2>3, <2>4, <2>6, <3>1, Begins DEF Goto
    <2>7. QED
      BY <1>5, <2>5, <2>6 DEF CancelBegin, Begin, book, traffic
  <1>6. ASSUME NEW id \in Ids, CreateReplay(c, id) \/ PerformReplay(c, id) \/ CancelReplay(c, id)
        PROVE  (Isolated /\ MoneyFollowsState /\ AnswersStand)'
    <2>1. pc[c] = "idle" /\ Unserved(id)
      BY <1>6, Alone DEF CreateReplay, PerformReplay, CancelReplay, book, traffic
    <2>2. QED
      BY <1>6, <2>1, Replays
  <1>7. QED
    BY <1>1, <1>2, <1>3, <1>4, <1>5, <1>6 DEF Request

LEMMA InvInit == Init => Inv
  <1> SUFFICES ASSUME Init PROVE Inv
    OBVIOUS
  <1>1. Typed
    BY InitType
  <1>2. OneActivePerOrder
    BY DEF Init, OneActivePerOrder, IsActive, NoTransaction
  <1>3. \A c \in Calls : pc[c] = "idle" /\ loc[c] = NoCall
    BY DEF Init
  <1>4. Isolated
    BY <1>3, NoCallFresh DEF Isolated, OneCallPerPayment, InFlight, CopiesFresh
  <1>5. MoneyFollowsState
    BY <1>3 DEF Init, MoneyFollowsState, Holds, NoTransaction
  <1>6. AnswersStand
    BY DEF Init, AnswersStand, AnswersHold
  <1>7. QED
    BY <1>1, <1>2, <1>4, <1>5, <1>6 DEF Inv

LEMMA InvStep == ASSUME Overlap # "any" PROVE Inv /\ [Next]_vars => Inv'
  <1> SUFFICES ASSUME Inv, [Next]_vars PROVE Inv'
    OBVIOUS
  <1>1. Typed' /\ OneActivePerOrder'
    BY NextType, OneActiveStep DEF Inv
  <1>2. ASSUME NEW c \in Calls, Request(c) PROVE (Isolated /\ MoneyFollowsState /\ AnswersStand)'
    BY <1>1, <1>2, RequestStep
  <1>3. ASSUME NEW c \in Calls, Step(c) PROVE (Isolated /\ MoneyFollowsState /\ AnswersStand)'
    <2>1. CASE StoreFails(c)
      BY <1>1, <2>1, AbandonStep DEF StoreFails, InFlight, book, traffic
    <2>2. CASE Insert(c) \/ ReplayCreate(c) \/ Process(c)
      BY <1>1, <2>2, CreateWrites
    <2>3. CASE UpdateCommit(c) \/ Store(c) \/ Mark(c)
      BY <1>1, <2>3, MoneyWrites
    <2>4. QED
      BY <1>1, <1>3, <2>1, <2>2, <2>3, ReadStatements DEF Step
  <1>4. ASSUME NEW c \in Calls, Fail(c) PROVE (Isolated /\ MoneyFollowsState /\ AnswersStand)'
    BY <1>1, <1>4, AbandonStep DEF Fail, book, traffic
  <1>5. CASE Tick \/ SetBlocked \/ UNCHANGED vars
    <2>1. UNCHANGED <<txs, pc, loc, applied, torn, acked>>
      BY <1>5 DEF Tick, SetBlocked, vars, tables, book, traffic
    <2>2. Isolated'
      BY <2>1 DEF Inv, Isolated, OneCallPerPayment, CopiesFresh, CallFresh, Origin, InFlight
    <2>3. MoneyFollowsState'
      BY <2>1 DEF Inv, MoneyFollowsState, Holds, Moved
    <2>4. AnswersStand'
      BY <2>1 DEF Inv, AnswersStand, AnswersHold, IsFinal
    <2>5. QED
      BY <1>1, <2>2, <2>3, <2>4 DEF Inv
  <1>6. QED
    BY <1>1, <1>2, <1>3, <1>4, <1>5 DEF Next, Inv

LEMMA InvHolds == ASSUME Overlap # "any" PROVE Spec => []Inv
  BY InvInit, InvStep, PTL DEF Spec

\* As long as no two calls about one payment overlap, every settlement and every
\* reversal a payment ever had is accounted for by its stored state and by the
\* calls that ended between moving the money and storing the row: failures and
\* overlapping calls about other payments settle nothing twice.
THEOREM MoneySafety == ASSUME Overlap # "any" PROVE Spec => []MoneyFollowsState
  <1>1. Inv => MoneyFollowsState
    BY DEF Inv
  <1>2. QED
    BY <1>1, InvHolds, PTL

\* In the same schedules an answer Payme has been given is never taken back.
THEOREM AnswersSafety == ASSUME Overlap # "any" PROVE Spec => []AnswersStand
  <1>1. Inv => AnswersStand
    BY DEF Inv
  <1>2. QED
    BY <1>1, InvHolds, PTL

-----------------------------------------------------------------------------
(* The balance of a register that pays out *)

\* No balance update in flight is about to write a negative figure.
Funded ==
    /\ balance >= 0
    /\ \A c \in Calls : pc[c] \in {"update", "commit"} => loc[c].target >= 0

\* A step of one call that leaves it with a covered target, or with none.
Covers(c, r, s) ==
    /\ loc' = [loc EXCEPT ![c] = r]
    /\ pc' = [pc EXCEPT ![c] = s]
    /\ s \in {"update", "commit"} => r.target >= 0
    /\ balance' \in {balance} \cup {loc[d].target : d \in {e \in Calls : pc[e] = "commit"}}

LEMMA CoversFunded ==
  ASSUME Typed, Funded, NEW c \in Calls, NEW r, NEW s, Covers(c, r, s)
  PROVE  Funded'
  <1>1. /\ loc'[c] = r /\ pc'[c] = s
        /\ \A d \in Calls : d # c => loc'[d] = loc[d] /\ pc'[d] = pc[d]
    BY Local DEF Covers
  <1>2. balance' >= 0
    BY DEF Covers, Funded
  <1>3. QED
    BY <1>1, <1>2 DEF Covers, Funded

LEMMA MovesFunded ==
  ASSUME Typed, Funded, ~Inbound, NEW c \in Calls,
         Settle(c) \/ Unsettle(c) \/ UpdateBegin(c) \/ UpdateCommit(c)
  PROVE  Funded'
  <1>1. /\ loc[c] \in Call /\ CallWellFormed(loc[c], pc[c]) /\ balance \in Int
        /\ loc = [loc EXCEPT ![c] = loc[c]]
    BY AtStatement DEF TablesTyped
  <1>2. loc[c].tx.order \in Orders
    BY <1>1 DEF CallWellFormed, Settle, Unsettle, UpdateBegin, UpdateCommit, book, traffic
  <1>3. PICK a \in Nat : a = Amount[loc[c].tx.order]
    BY <1>2, ServiceAssumption DEF ServiceAssumption
  <1>4. CASE Settle(c)
    <2>1. CASE Ends(c)
      <3>1. Covers(c, NoCall, "idle")
        BY <1>4, <2>1 DEF Settle, Covers, Ends, Goto, tables, book, traffic
      <3>2. QED
        BY <3>1, CoversFunded
    <2>2. CASE ~Ends(c)
      <3> DEFINE r == [loc[c] EXCEPT !.target = Apply(balance, a)]
      <3>1. balance - a >= 0 /\ loc' = [loc EXCEPT ![c] = r] /\ Goto(c, "update") /\ balance' = balance
        BY <1>1, <1>3, <1>4, <2>2 DEF Settle, Refuses, tables, book, traffic
      <3>2. r.target >= 0
        BY <1>1, <3>1 DEF Call, Apply
      <3>3. Covers(c, r, "update")
        BY <3>1, <3>2 DEF Covers, Goto
      <3>4. QED
        BY <3>3, CoversFunded
    <2>3. QED
      BY <2>1, <2>2
  <1>5. CASE Unsettle(c)
    <2> DEFINE r == [loc[c] EXCEPT !.target = Reverse(balance, a)]
    <2>1. r.target >= 0
      BY <1>1 DEF Call, Reverse, Funded
    <2>2. Covers(c, r, "update")
      BY <1>3, <1>5, <2>1 DEF Covers, Goto, Unsettle, tables, book, traffic
    <2>3. QED
      BY <2>2, CoversFunded
  <1>6. CASE UpdateBegin(c)
    <2> DEFINE r == [loc[c] EXCEPT !.pre = balance]
    <2>1. r.target >= 0
      BY <1>1, <1>6 DEF Call, UpdateBegin, Funded, book, traffic
    <2>2. Covers(c, r, "commit")
      BY <1>6, <2>1 DEF Covers, Goto, UpdateBegin, tables, book, traffic
    <2>3. QED
      BY <2>2, CoversFunded
  <1>7. CASE UpdateCommit(c)
    <2>1. Covers(c, loc[c], "store")
      BY <1>1, <1>7 DEF Covers, Goto, UpdateCommit, book, traffic
    <2>2. QED
      BY <2>1, CoversFunded
  <1>8. QED
    BY <1>4, <1>5, <1>6, <1>7

\* Every other step of a call leaves the balance alone and is away from an update.
LEMMA OthersFunded ==
  ASSUME Typed, Funded, [Next]_vars,
         ~(\E c \in Calls : Settle(c) \/ Unsettle(c) \/ UpdateBegin(c) \/ UpdateCommit(c))
  PROVE  Funded'
  <1>1. ASSUME NEW c \in Calls,
               \E s \in Statements \ {"update", "commit"} : pc' = [pc EXCEPT ![c] = s],
               \E r : loc' = [loc EXCEPT ![c] = r], balance' = balance
        PROVE  Funded'
    <2>1. PICK s \in Statements \ {"update", "commit"} : pc' = [pc EXCEPT ![c] = s]
      BY <1>1
    <2>2. PICK r : loc' = [loc EXCEPT ![c] = r]
      BY <1>1
    <2>3. Covers(c, r, s)
      BY <1>1, <2>1, <2>2 DEF Covers
    <2>4. QED
      BY <2>3, CoversFunded
  <1>2. ASSUME NEW c \in Calls, Request(c) PROVE Funded'
    <2>1. CASE CheckBegin(c)
      BY <1>1, <2>1 DEF CheckBegin, Goto, Statements, tables, Begin, book, traffic
    <2>2. CASE \E id \in Ids : CreateBegin(c, id) \/ PerformBegin(c, id) \/ PerformExpired(c, id)
      BY <1>1, <2>2 DEF CreateBegin, PerformBegin, PerformExpired, Goto, Statements, tables, Begin,
                        book, traffic
    <2>3. CASE \E id \in Ids : CancelBegin(c, id)
      BY <1>1, <2>3 DEF CancelBegin, Goto, Statements, tables, Begin, book, traffic
    <2>4. CASE \E id \in Ids : CreateReplay(c, id) \/ PerformReplay(c, id) \/ CancelReplay(c, id)
      <3>1. UNCHANGED <<balance, pc, loc>>
        BY <2>4 DEF CreateReplay, PerformReplay, CancelReplay, tables, book, traffic
      <3>2. QED
        BY <3>1 DEF Funded
    <2>5. QED
      BY <1>2, <2>1, <2>2, <2>3, <2>4 DEF Request
  <1>3. ASSUME NEW c \in Calls, Step(c) PROVE Funded'
    <2>1. /\ loc = [loc EXCEPT ![c] = loc[c]] /\ loc[c] \in Call
      BY AtStatement
    <2>2. balance' = balance
      BY <1>3 DEF Step, FindAccount, FindOrder, RegisterPayer, Reuse, WalkIn, Usable, Active, Insert,
                  ReplayCreate, Process, Store, StoreFails, Abandon, Mark, tables, book, traffic
    <2>3. \E s \in Statements \ {"update", "commit"} : pc' = [pc EXCEPT ![c] = s]
      BY <1>3 DEF Step, FindAccount, FindOrder, RegisterPayer, Reuse, WalkIn, Usable, Active, Insert,
                  ReplayCreate, Process, Store, StoreFails, Abandon, Mark, Ends, Goto, Statements,
                  book, traffic
    <2>4. \E r : loc' = [loc EXCEPT ![c] = r]
      BY <1>3, <2>1 DEF Step, FindAccount, FindOrder, RegisterPayer, Reuse, WalkIn, Usable, Active,
                        Insert, ReplayCreate, Process, Store, StoreFails, Abandon, Mark, Ends, book,
                        traffic
    <2>5. QED
      BY <1>1, <2>2, <2>3, <2>4
  <1>4. ASSUME NEW c \in Calls, Fail(c) PROVE Funded'
    BY <1>1, <1>4 DEF Fail, Abandon, Ends, Goto, Statements, tables, book, traffic
  <1>5. CASE Tick \/ SetBlocked \/ UNCHANGED vars
    <2>1. UNCHANGED <<balance, pc, loc>>
      BY <1>5 DEF Tick, SetBlocked, vars, tables, book, traffic
    <2>2. QED
      BY <2>1 DEF Funded
  <1>6. QED
    BY <1>2, <1>3, <1>4, <1>5 DEF Next

-----------------------------------------------------------------------------
(* The life of a transaction *)

\* Without overlapping calls about one payment nothing ever writes a final row.
THEOREM FinalSafety == ASSUME Overlap # "any" PROVE Spec => FinalStays
  <1>1. Inv /\ [Next]_vars => [\A id \in Ids : IsFinal(txs[id].state) => txs'[id] = txs[id]]_vars
    <2> SUFFICES ASSUME Inv, Next, NEW id \in Ids, IsFinal(txs[id].state)
                 PROVE  txs'[id] = txs[id]
      OBVIOUS
    <2>1. CASE txs' = txs
      BY <2>1
    <2>2. ASSUME NEW c \in Calls, Insert(c) \/ Store(c) PROVE txs'[id] = txs[id]
      <3>1. InFlight(c) /\ CallFresh(loc[c], pc[c], txs[loc[c].id])
            /\ loc[c].op \in {"Create", "Perform", "Cancel"} /\ pc[c] \in {"insert", "store"}
        BY <2>2, Serving, AtStatement DEF Inv, CallWellFormed, Insert, Store, InFlight, book, traffic
      <3>2. ~IsFinal(txs[loc[c].id].state)
        BY <3>1 DEF CallFresh, Origin, IsFinal
      <3>3. id # loc[c].id
        BY <3>2
      <3>4. QED
        BY <2>2, <3>3 DEF Insert, Store, Inv, Typed, TablesTyped, book, traffic
    <2>3. QED
      BY <2>1, <2>2, RowsMove DEF Inv
  <1>2. QED
    BY <1>1, InvHolds, PTL DEF FinalStays, Spec

\* A row keeps its order and its state agrees with what writing it leads to.
LEMMA RowMoves ==
  ASSUME Inv, NEW c \in Calls, Insert(c) \/ Store(c), txs' # txs
  PROVE  \E id \in Ids :
           /\ txs' = [txs EXCEPT ![id] = loc[c].tx]
           /\ \/ /\ txs[id].state = NoRow /\ loc[c].tx.state = StateCreated
                 /\ loc[c].tx.order \in Orders /\ ActiveOn(loc[c].tx.order) = {}
              \/ /\ loc[c].tx.order = txs[id].order
                 /\ \/ txs[id].state = StateCreated
                       /\ loc[c].tx.state \in {StatePerformed, StateCancelled}
                    \/ txs[id].state = StatePerformed /\ loc[c].tx.state = StateCancelledAfterDo
  <1>1. /\ CallWellFormed(loc[c], pc[c]) /\ InFlight(c) /\ loc[c] \in Call
        /\ CallFresh(loc[c], pc[c], txs[loc[c].id])
    BY Serving, AtStatement DEF Inv, Insert, Store, InFlight, book, traffic
  <1>2. CASE Insert(c)
    <2>1. ~InsertRefused(loc[c].id, loc[c].tx) /\ txs' = [txs EXCEPT ![loc[c].id] = loc[c].tx]
          /\ loc[c].id \in Ids
      BY <1>1, <1>2 DEF Insert, CallWellFormed, book, traffic
    <2>2. loc[c].tx.state = StateCreated /\ loc[c].tx.order \in Orders
      BY <1>1, <1>2 DEF Insert, CallWellFormed, book, traffic
    <2>3. QED
      BY <2>1, <2>2 DEF InsertRefused
  <1>3. CASE Store(c)
    <2>1. /\ txs' = [txs EXCEPT ![loc[c].id] = loc[c].tx] /\ loc[c].id \in Ids
          /\ loc[c].op \in {"Perform", "Cancel"} /\ pc[c] = "store"
      BY <1>1, <1>3 DEF Store, CallWellFormed, book, traffic
    <2>2. txs[loc[c].id].state = Origin(loc[c]) /\ txs[loc[c].id].order = loc[c].tx.order
      BY <1>1, <2>1 DEF CallFresh
    <2>3. QED
      BY <1>1, <2>1, <2>2 DEF Origin, CallWellFormed, IsFinal
  <1>4. QED
    BY <1>2, <1>3

LEMMA LifeNames ==
  /\ LifeState[NoRow] = "unknown" /\ LifeState[StateCreated] = "created"
  /\ LifeState[StatePerformed] = "performed" /\ LifeState[StateCancelled] = "cancelled"
  /\ LifeState[StateCancelledAfterDo] = "refunded"
  BY DEF LifeState

\* Without overlapping calls about one payment the stored rows live the life the
\* protocol prescribes: the service implements TransactionLife.
THEOREM LifeImplemented == ASSUME Overlap # "any" PROVE Spec => ImplementsLife
  <1> DEFINE status == [id \in Ids |-> LifeState[txs[id].state]]
             holds == [id \in Ids |-> txs[id].order]
  <1>1. Init => Life!Init
    BY LifeNames DEF Init, Life!Init, NoTransaction
  <1>2. Inv /\ [Next]_vars => [Life!Next]_<<status, holds>>
    <2> SUFFICES ASSUME Inv, [Next]_vars, txs' # txs PROVE Life!Next
      OBVIOUS
    <2>1. PICK c \in Calls : Insert(c) \/ Store(c)
      BY RowsMove
    <2>2. PICK id \in Ids :
           /\ txs' = [txs EXCEPT ![id] = loc[c].tx]
           /\ \/ /\ txs[id].state = NoRow /\ loc[c].tx.state = StateCreated
                 /\ loc[c].tx.order \in Orders /\ ActiveOn(loc[c].tx.order) = {}
              \/ /\ loc[c].tx.order = txs[id].order
                 /\ \/ txs[id].state = StateCreated
                       /\ loc[c].tx.state \in {StatePerformed, StateCancelled}
                    \/ txs[id].state = StatePerformed /\ loc[c].tx.state = StateCancelledAfterDo
      BY <2>1, RowMoves
    <2>3. PICK t : t = loc[c].tx
      OBVIOUS
    <2>4. \A j \in Ids : txs'[j] = IF j = id THEN t ELSE txs[j]
      BY <2>2, <2>3 DEF Inv, Typed, TablesTyped
    <2>5. /\ status' = [status EXCEPT ![id] = LifeState[t.state]]
          /\ holds' = [holds EXCEPT ![id] = t.order]
      BY <2>4
    <2>6. CASE txs[id].state = NoRow /\ t.state = StateCreated /\ t.order \in Orders /\ ActiveOn(t.order) = {}
      <3>1. status[id] = "unknown" /\ LifeState[t.state] = "created"
        BY <2>6, LifeNames
      <3>2. \A q \in Ids : Life!Live(q) => holds[q] # t.order
        BY <2>6, LifeNames DEF Life!Live, ActiveOn, IsActive, Inv, Typed, TablesTyped, TransactionRow
      <3>3. Life!Create(id, t.order)
        BY <2>5, <3>1, <3>2 DEF Life!Create
      <3>4. QED
        BY <2>6, <3>3 DEF Life!Next
    <2>7. CASE t.order = txs[id].order /\ txs[id].state = StateCreated /\ t.state = StatePerformed
      <3>1. status[id] = "created" /\ LifeState[t.state] = "performed" /\ holds' = holds
        BY <2>5, <2>7, LifeNames
      <3>2. Life!Perform(id)
        BY <2>5, <3>1 DEF Life!Perform
      <3>3. QED
        BY <3>2 DEF Life!Next
    <2>8. CASE t.order = txs[id].order /\ txs[id].state = StateCreated /\ t.state = StateCancelled
      <3>1. status[id] = "created" /\ LifeState[t.state] = "cancelled" /\ holds' = holds
        BY <2>5, <2>8, LifeNames
      <3>2. Life!Cancel(id)
        BY <2>5, <3>1 DEF Life!Cancel, Life!Live
      <3>3. QED
        BY <3>2 DEF Life!Next
    <2>9. CASE t.order = txs[id].order /\ txs[id].state = StatePerformed /\ t.state = StateCancelledAfterDo
      <3>1. status[id] = "performed" /\ LifeState[t.state] = "refunded" /\ holds' = holds
        BY <2>5, <2>9, LifeNames
      <3>2. Life!Cancel(id)
        BY <2>5, <3>1 DEF Life!Cancel, Life!Live
      <3>3. QED
        BY <3>2 DEF Life!Next
    <2>10. QED
      BY <2>2, <2>3, <2>6, <2>7, <2>8, <2>9
  <1>3. QED
    BY <1>1, <1>2, InvHolds, PTL DEF ImplementsLife, Life!Spec, Spec

\* A transaction that was performed stays performed or is refunded, on its order.
PerformedOn(o) ==
    \E id \in Ids : /\ txs[id].order = o
                    /\ txs[id].state \in {StatePerformed, StateCancelledAfterDo}

LEMMA PerformedStays ==
  ASSUME Inv, [Next]_vars, NEW o \in Orders, PerformedOn(o)
  PROVE  PerformedOn(o)'
  <1>1. CASE txs' = txs
    BY <1>1 DEF PerformedOn
  <1>2. CASE txs' # txs
    <2>1. PICK id \in Ids : /\ txs[id].order = o
                            /\ txs[id].state \in {StatePerformed, StateCancelledAfterDo}
      BY DEF PerformedOn
    <2>2. PICK c \in Calls : Insert(c) \/ Store(c)
      BY <1>2, RowsMove
    <2>3. PICK j \in Ids, t \in {loc[c].tx} :
           /\ txs' = [txs EXCEPT ![j] = t]
           /\ j = id => t.order = o /\ t.state = StateCancelledAfterDo
      BY <1>2, <2>1, <2>2, RowMoves
    <2>4. txs'[id] = IF j = id THEN t ELSE txs[id]
      BY <2>3 DEF Inv, Typed, TablesTyped
    <2>5. QED
      BY <2>1, <2>3, <2>4 DEF PerformedOn
  <1>3. QED
    BY <1>1, <1>2

\* An order is marked paid only by a Perform that has stored its transaction.
LEMMA PaidStep ==
  ASSUME Inv, [Next]_vars, NEW o \in Orders, orders[o] # "paid", orders'[o] = "paid"
  PROVE  PerformedOn(o)
  <1>1. orders' # orders /\ orders \in [Orders -> OrderStatus]
    BY DEF Inv, Typed, TablesTyped
  <1>2. PICK c \in Calls : WalkIn(c) \/ Process(c) \/ Mark(c)
    <2>1. ASSUME NEW c \in Calls, Request(c) PROVE orders' = orders
      BY <2>1 DEF Request, CheckBegin, CreateBegin, CreateReplay, PerformBegin, PerformExpired, PerformReplay,
                  CancelBegin, CancelReplay, tables, Begin, book, traffic
    <2>2. ASSUME NEW c \in Calls, Step(c), ~WalkIn(c), ~Process(c), ~Mark(c) PROVE orders' = orders
      BY <2>2 DEF Step, FindAccount, FindOrder, RegisterPayer, Reuse, Usable, Active, Insert, ReplayCreate,
                  Settle, Unsettle, UpdateBegin, UpdateCommit, Store, StoreFails, Abandon, tables,
                  book, traffic
    <2>3. ASSUME NEW c \in Calls, Fail(c) PROVE orders' = orders
      BY <2>3 DEF Fail, Abandon, tables, book, traffic
    <2>4. QED
      BY <1>1, <2>1, <2>2, <2>3 DEF Next, Tick, SetBlocked, vars, tables, book, traffic
  <1>3. ~WalkIn(c) /\ ~Process(c)
    BY <1>1 DEF WalkIn, Process, OrderStatus, book, traffic
  <1>4. Mark(c) /\ loc[c].op = "Perform" /\ loc[c].tx.order = o
    BY <1>1, <1>2, <1>3 DEF Mark, book, traffic
  <1>5. /\ CallWellFormed(loc[c], "mark") /\ InFlight(c)
        /\ CallFresh(loc[c], "mark", txs[loc[c].id])
    BY <1>4, Serving, AtStatement DEF Inv, Mark, InFlight, book, traffic
  <1>6. loc[c].id \in Ids /\ txs[loc[c].id].state = StatePerformed /\ txs[loc[c].id].order = o
    BY <1>4, <1>5 DEF CallWellFormed, CallFresh
  <1>7. QED
    BY <1>6 DEF PerformedOn

\* In the same schedules an order is only ever paid on account of a transaction
\* on it that was performed: no failure, expiry or late write marks another one.
THEOREM PaidSafety == ASSUME Overlap # "any" PROVE Spec => []PaidOrderWasPerformed
  <1>1. Init => PaidOrderWasPerformed
    BY DEF Init, PaidOrderWasPerformed
  <1>2. Inv /\ PaidOrderWasPerformed /\ [Next]_vars => PaidOrderWasPerformed'
    <2> SUFFICES ASSUME Inv, PaidOrderWasPerformed, [Next]_vars,
                        NEW o \in Orders, orders'[o] = "paid"
                 PROVE  PerformedOn(o)'
      BY DEF PaidOrderWasPerformed, PerformedOn
    <2>1. PerformedOn(o)
      BY PaidStep DEF PaidOrderWasPerformed, PerformedOn
    <2>2. QED
      BY <2>1, PerformedStays
  <1>3. QED
    BY <1>1, <1>2, InvHolds, PTL DEF Spec
-----------------------------------------------------------------------------
(* Settlements, in every schedule *)

\* The figure Apply or Reverse makes of the balance for a call's transaction.
Figure(call) ==
    IF call.op = "Perform" THEN Apply(balance, Amount[call.tx.order])
                           ELSE Reverse(balance, Amount[call.tx.order])

\* The row a Perform or a Cancel works on is there, on the order the call's copy names.
Placed ==
    \A c \in Calls : loc[c].op \in {"Perform", "Cancel"} =>
        txs[loc[c].id].state # NoRow /\ txs[loc[c].id].order = loc[c].tx.order

\* An id without a row has moved nothing.
Unmoved == \A id \in Ids : txs[id].state = NoRow => applied[id] = 0

\* What a call has read of the balance stands, unless it is remembered that it does not.
Current ==
    \A c \in Calls :
        /\ pc[c] \in {"update", "commit"} /\ c \notin stale => loc[c].target = Figure(loc[c])
        /\ pc[c] = "commit" /\ c \notin late => loc[c].pre = balance

\* A step of a call takes the call from one statement to the next, or leaves it.
LEMMA OneMoves ==
  ASSUME Typed, NEW c \in Calls, Request(c) \/ Step(c) \/ Fail(c)
  PROVE  \A d \in Calls : d # c => loc'[d] = loc[d] /\ pc'[d] = pc[d]
  <1>1. \E s : pc' = [pc EXCEPT ![c] = s]
    <2>1. pc = [pc EXCEPT ![c] = pc[c]]
      BY AtStatement DEF CallsTyped
    <2>2. CASE Request(c)
      BY <2>1, <2>2 DEF Request, CheckBegin, CreateBegin, CreateReplay, PerformBegin, PerformExpired,
                        PerformReplay, CancelBegin, CancelReplay, Goto, Begin, book, traffic
    <2>3. CASE Step(c)
      BY <2>3 DEF Step, FindAccount, FindOrder, RegisterPayer, Reuse, WalkIn, Usable, Active, Insert,
                  ReplayCreate, Process, Settle, Unsettle, UpdateBegin, UpdateCommit, Store, StoreFails,
                  Abandon, Mark, Ends, Goto, book, traffic
    <2>4. QED
      BY <2>2, <2>3 DEF Fail, Abandon, Ends, Goto, book, traffic
  <1>2. \E r : loc' = [loc EXCEPT ![c] = r]
    <2>1. loc = [loc EXCEPT ![c] = loc[c]]
      BY AtStatement
    <2>2. CASE Request(c)
      BY <2>1, <2>2 DEF Request, CheckBegin, CreateBegin, CreateReplay, PerformBegin, PerformExpired,
                        PerformReplay, CancelBegin, CancelReplay, Begin, book, traffic
    <2>3. CASE Step(c)
      BY <2>1, <2>3 DEF Step, FindAccount, FindOrder, RegisterPayer, Reuse, WalkIn, Usable, Active,
                        Insert, ReplayCreate, Process, Settle, Unsettle, UpdateBegin, UpdateCommit,
                        Store, StoreFails, Abandon, Mark, Ends, book, traffic
    <2>4. QED
      BY <2>2, <2>3 DEF Fail, Abandon, Ends, book, traffic
  <1>3. QED
    BY <1>1, <1>2, Local

\* Only the commit of UpdateBalance moves money.
LEMMA MoneyMoves ==
  ASSUME [Next]_vars
  PROVE  UNCHANGED <<balance, history, applied>> \/ \E c \in Calls : UpdateCommit(c)
  <1>1. ASSUME NEW c \in Calls, Request(c) PROVE UNCHANGED <<balance, history, applied>>
    BY <1>1 DEF Request, CheckBegin, CreateBegin, CreateReplay, PerformBegin, PerformExpired, PerformReplay,
                CancelBegin, CancelReplay, tables, Begin, book, traffic
  <1>2. ASSUME NEW c \in Calls, Step(c), ~UpdateCommit(c) PROVE UNCHANGED <<balance, history, applied>>
    BY <1>2 DEF Step, FindAccount, FindOrder, RegisterPayer, Reuse, WalkIn, Usable, Active, Insert,
                ReplayCreate, Process, Settle, Unsettle, UpdateBegin, Store, StoreFails, Abandon,
                Mark, tables, book, traffic
  <1>3. ASSUME NEW c \in Calls, Fail(c) PROVE UNCHANGED <<balance, history, applied>>
    BY <1>3 DEF Fail, Abandon, tables, book, traffic
  <1>4. CASE Tick \/ SetBlocked \/ UNCHANGED vars
    BY <1>4 DEF Tick, SetBlocked, vars, tables, book, traffic
  <1>5. QED
    BY <1>1, <1>2, <1>3, <1>4 DEF Next

\* A stored row stays, on its order.
LEMMA RowsStay ==
  ASSUME Typed, Placed, [Next]_vars, NEW id \in Ids, txs[id].state # NoRow
  PROVE  txs'[id].state # NoRow /\ txs'[id].order = txs[id].order
  <1>0. txs \in [Ids -> TransactionRow]
    BY DEF Typed, TablesTyped
  <1>1. ASSUME NEW c \in Calls, Insert(c)
        PROVE  txs'[id].state # NoRow /\ txs'[id].order = txs[id].order
    <2>1. \/ txs' = txs
          \/ txs' = [txs EXCEPT ![loc[c].id] = loc[c].tx] /\ txs[loc[c].id].state = NoRow
      BY <1>1 DEF Insert, InsertRefused
    <2>2. QED
      BY <1>0, <2>1
  <1>2. ASSUME NEW c \in Calls, Store(c)
        PROVE  txs'[id].state # NoRow /\ txs'[id].order = txs[id].order
    <2>1. txs' = [txs EXCEPT ![loc[c].id] = loc[c].tx]
      BY <1>2 DEF Store
    <2>2. loc[c].op \in {"Perform", "Cancel"} /\ loc[c].tx.state # NoRow
      BY <1>2, AtStatement DEF Store, CallWellFormed, IsFinal
    <2>3. txs[loc[c].id].order = loc[c].tx.order
      BY <2>2 DEF Placed
    <2>4. QED
      BY <1>0, <2>1, <2>2, <2>3
  <1>3. QED
    BY <1>1, <1>2, RowsMove

\* The copy a handler makes of a row names the row's order.
LEMMA CopiesOrder ==
  ASSUME NEW t \in TransactionRow, NEW r, NEW n
  PROVE  Performed(t, n).order = t.order /\ Cancelled(t, r, n).order = t.order
  BY DEF Performed, Cancelled, TransactionRow

\* What a Check or a Create begins with.
LEMMA BeginsAs ==
  ASSUME NEW c \in Calls, CheckBegin(c) \/ \E id \in Ids : CreateBegin(c, id)
  PROVE  \E call : /\ loc' = [loc EXCEPT ![c] = call]
                   /\ call.op \in {"Check", "Create"} /\ call.order = 0
  <1>1. CASE CheckBegin(c)
    <2>1. PICK v \in Values, a \in Amounts :
            loc' = [loc EXCEPT ![c] = [NoCall EXCEPT !.op = "Check", !.value = v, !.amount = a]]
      BY <1>1 DEF CheckBegin, Begin
    <2> DEFINE call == [NoCall EXCEPT !.op = "Check", !.value = v, !.amount = a]
    <2>2. call.op = "Check" /\ call.order = 0
      BY DEF NoCall
    <2>3. QED
      BY <2>1, <2>2
  <1>2. ASSUME NEW id \in Ids, CreateBegin(c, id)
        PROVE  \E call : /\ loc' = [loc EXCEPT ![c] = call]
                         /\ call.op \in {"Check", "Create"} /\ call.order = 0
    <2>1. PICK v \in Values, a \in Amounts :
            loc' = [loc EXCEPT ![c] = [NoCall EXCEPT !.op = "Create", !.id = id,
                                                     !.value = v, !.amount = a]]
      BY <1>2 DEF CreateBegin, Begin
    <2> DEFINE call == [NoCall EXCEPT !.op = "Create", !.id = id, !.value = v, !.amount = a]
    <2>2. call.op = "Create" /\ call.order = 0
      BY DEF NoCall
    <2>3. QED
      BY <2>1, <2>2
  <1>3. QED
    BY <1>1, <1>2

\* A call works on the copy it began with, which it took from the stored row.
LEMMA WorksOn ==
  ASSUME Typed, [Next]_vars, NEW c \in Calls, loc'[c].op \in {"Perform", "Cancel"}
  PROVE  \/ loc'[c].op = loc[c].op /\ loc'[c].id = loc[c].id /\ loc'[c].tx = loc[c].tx
         \/ \E id \in Ids : /\ txs[id].state # NoRow
                            /\ loc'[c].id = id /\ loc'[c].tx.order = txs[id].order
  <1>0. /\ loc \in [Calls -> Call] /\ pc \in [Calls -> Statements] /\ txs \in [Ids -> TransactionRow]
        /\ loc[c] \in Call /\ CallWellFormed(loc[c], pc[c])
    BY AtStatement DEF Typed, CallsTyped, TablesTyped
  <1>1. CASE loc'[c] = loc[c]
    BY <1>1
  <1>2. CASE loc'[c] = NoCall
    BY <1>2 DEF NoCall
  <1>3. CASE Request(c) /\ loc'[c] # loc[c]
    <2>1. CASE CheckBegin(c) \/ \E id \in Ids : CreateBegin(c, id)
      <3>1. \E call : loc' = [loc EXCEPT ![c] = call] /\ call.op \in {"Check", "Create"}
        BY <2>1, BeginsAs
      <3>2. QED
        BY <1>0, <3>1
    <2>2. ASSUME NEW id \in Ids, PerformBegin(c, id) \/ PerformExpired(c, id) \/ CancelBegin(c, id)
          PROVE  /\ txs[id].state # NoRow
                 /\ loc'[c].id = id /\ loc'[c].tx.order = txs[id].order
      <3>1. PICK call : /\ loc' = [loc EXCEPT ![c] = call]
                        /\ call.id = id /\ call.tx.order = txs[id].order
        <4>1. CASE PerformBegin(c, id)
          <5> DEFINE call == [NoCall EXCEPT !.op = "Perform", !.id = id, !.tx = Performed(txs[id], now)]
          <5>1. call.id = id /\ call.tx.order = txs[id].order
            BY <1>0, CopiesOrder DEF NoCall
          <5>2. loc' = [loc EXCEPT ![c] = call]
            BY <4>1 DEF PerformBegin, Begin
          <5>3. QED
            BY <5>1, <5>2
        <4>2. CASE PerformExpired(c, id)
          <5> DEFINE call == [NoCall EXCEPT !.op = "Perform", !.id = id,
                                            !.tx = Cancelled(txs[id], ReasonTimeout, now)]
          <5>1. call.id = id /\ call.tx.order = txs[id].order
            BY <1>0, CopiesOrder DEF NoCall
          <5>2. loc' = [loc EXCEPT ![c] = call]
            BY <4>2 DEF PerformExpired, Begin
          <5>3. QED
            BY <5>1, <5>2
        <4>3. CASE CancelBegin(c, id)
          <5>1. PICK r \in Reasons :
                  loc' = [loc EXCEPT ![c] = [NoCall EXCEPT !.op = "Cancel", !.id = id,
                                                           !.tx = Cancelled(txs[id], r, now)]]
            BY <4>3 DEF CancelBegin, Begin
          <5> DEFINE call == [NoCall EXCEPT !.op = "Cancel", !.id = id,
                                            !.tx = Cancelled(txs[id], r, now)]
          <5>2. call.id = id /\ call.tx.order = txs[id].order
            BY <1>0, CopiesOrder DEF NoCall
          <5>3. QED
            BY <5>1, <5>2
        <4>4. QED
          BY <2>2, <4>1, <4>2, <4>3
      <3>2. txs[id].state # NoRow
        <4>1. txs[id].state \in {StateCreated, StatePerformed}
          BY <2>2 DEF PerformBegin, PerformExpired, CancelBegin, Expired
        <4>2. QED
          BY <4>1
      <3>3. QED
        BY <1>0, <3>1, <3>2
    <2>3. CASE \E id \in Ids : CreateReplay(c, id) \/ PerformReplay(c, id) \/ CancelReplay(c, id)
      BY <1>3, <2>3 DEF CreateReplay, PerformReplay, CancelReplay
    <2>4. QED
      BY <1>3, <2>1, <2>2, <2>3 DEF Request
  <1>4. CASE Step(c) /\ loc'[c] # loc[c] /\ loc'[c] # NoCall
    <2>1. CASE FindOrder(c) \/ Reuse(c) \/ WalkIn(c) \/ Active(c)
      <3>1. loc'[c].op = loc[c].op /\ loc[c].op \in {"Check", "Create"}
        BY <1>0, <1>4, <2>1 DEF FindOrder, Reuse, WalkIn, Active, Ends, Call, CallWellFormed
      <3>2. QED
        BY <3>1
    <2>2. CASE Settle(c) \/ Unsettle(c) \/ UpdateBegin(c)
      BY <1>0, <1>4, <2>2 DEF Settle, Unsettle, UpdateBegin, Ends, Call
    <2>3. CASE \/ FindAccount(c) \/ RegisterPayer(c) \/ Usable(c) \/ Insert(c) \/ ReplayCreate(c)
               \/ Process(c) \/ UpdateCommit(c) \/ Store(c) \/ StoreFails(c) \/ Mark(c)
      BY <1>0, <1>4, <2>3 DEF FindAccount, RegisterPayer, Usable, Insert, ReplayCreate, Process,
                              UpdateCommit, Store, StoreFails, Abandon, Mark, Ends
    <2>4. QED
      BY <1>4, <2>1, <2>2, <2>3 DEF Step
  <1>5. CASE Fail(c)
    BY <1>0, <1>2, <1>5 DEF Fail, Abandon, Ends
  <1>6. CASE \E d \in Calls : d # c /\ (Request(d) \/ Step(d) \/ Fail(d))
    BY <1>1, <1>6, OneMoves
  <1>7. CASE Tick \/ SetBlocked \/ UNCHANGED vars
    BY <1>1, <1>7 DEF Tick, SetBlocked, vars
  <1>8. QED
    BY <1>1, <1>2, <1>3, <1>4, <1>5, <1>6, <1>7 DEF Next

LEMMA PlacedStep == ASSUME Typed, Placed, [Next]_vars PROVE Placed'
  <1> SUFFICES ASSUME NEW c \in Calls, loc'[c].op \in {"Perform", "Cancel"}
               PROVE  txs'[loc'[c].id].state # NoRow /\ txs'[loc'[c].id].order = loc'[c].tx.order
    BY DEF Placed
  <1>1. CASE loc'[c].op = loc[c].op /\ loc'[c].id = loc[c].id /\ loc'[c].tx = loc[c].tx
    <2>1. loc[c].id \in Ids /\ txs[loc[c].id].state # NoRow /\ txs[loc[c].id].order = loc[c].tx.order
      BY <1>1, AtStatement DEF Placed, CallWellFormed
    <2>2. QED
      BY <1>1, <2>1, RowsStay
  <1>2. ASSUME NEW id \in Ids, txs[id].state # NoRow, loc'[c].id = id, loc'[c].tx.order = txs[id].order
        PROVE  txs'[loc'[c].id].state # NoRow /\ txs'[loc'[c].id].order = loc'[c].tx.order
    BY <1>2, RowsStay
  <1>3. QED
    BY <1>1, <1>2, WorksOn

\* A figure made of the balance stands until a commit changes the balance, and then it is
\* remembered not to.
LEMMA CurrentStep == ASSUME Typed, Current, [Next]_vars PROVE Current'
  <1>0. /\ loc \in [Calls -> Call] /\ pc \in [Calls -> Statements]
    BY DEF Typed, CallsTyped
  <1>1. ASSUME NEW c \in Calls, UpdateCommit(c) PROVE Current'
    <2>1. \A d \in Calls : d # c => loc'[d] = loc[d] /\ pc'[d] = pc[d]
      BY <1>0, <1>1 DEF UpdateCommit, Goto
    <2>2. pc'[c] = "store"
      BY <1>0, <1>1 DEF UpdateCommit, Goto
    <2>3. \A d \in Calls : d # c => /\ pc[d] \in {"update", "commit"} => d \in stale'
                                    /\ pc[d] = "commit" => d \in late'
      BY <1>1 DEF UpdateCommit, Reading
    <2>4. QED
      BY <2>1, <2>2, <2>3 DEF Current
  <1>2. ASSUME NEW c \in Calls, balance' = balance,
               stale \subseteq stale' \cup {c}, late \subseteq late' \cup {c},
               \A d \in Calls : d # c => loc'[d] = loc[d] /\ pc'[d] = pc[d],
               pc'[c] \in {"update", "commit"} /\ c \notin stale' => loc'[c].target = Figure(loc'[c]),
               pc'[c] = "commit" /\ c \notin late' => loc'[c].pre = balance
        PROVE  Current'
    <2>1. \A d \in Calls : d # c => /\ d \notin stale' => d \notin stale
                                    /\ d \notin late' => d \notin late
      BY <1>2
    <2>2. ASSUME NEW d \in Calls
          PROVE  /\ pc'[d] \in {"update", "commit"} /\ d \notin stale' => loc'[d].target = Figure(loc'[d])
                 /\ pc'[d] = "commit" /\ d \notin late' => loc'[d].pre = balance
      BY <1>2, <2>1 DEF Current
    <2>3. QED
      BY <1>2, <2>2 DEF Current, Figure
  <1>3. ASSUME NEW c \in Calls, Settle(c) \/ Unsettle(c) PROVE Current'
    <2>1. /\ balance' = balance /\ stale' = stale \ {c} /\ late' = late
          /\ \A d \in Calls : d # c => loc'[d] = loc[d] /\ pc'[d] = pc[d]
      BY <1>3, OneMoves DEF Settle, Unsettle, tables, Step
    <2>2. \/ pc'[c] = "idle"
          \/ /\ pc'[c] = "update" /\ loc'[c].op = loc[c].op /\ loc'[c].tx = loc[c].tx
             /\ loc'[c].target = Figure(loc[c])
      BY <1>0, <1>3, AtStatement DEF Settle, Unsettle, Ends, Goto, Call, CallWellFormed, Figure
    <2>3. pc'[c] # "commit" /\ (pc'[c] = "update" => loc'[c].target = Figure(loc'[c]))
      BY <2>2 DEF Figure
    <2>4. QED
      BY <1>2, <2>1, <2>3
  <1>4. ASSUME NEW c \in Calls, UpdateBegin(c) PROVE Current'
    <2>1. /\ balance' = balance /\ stale' = stale /\ late' = late \ {c} /\ pc[c] = "update"
          /\ \A d \in Calls : d # c => loc'[d] = loc[d] /\ pc'[d] = pc[d]
      BY <1>4, OneMoves DEF UpdateBegin, tables, Step
    <2>2. /\ loc'[c].op = loc[c].op /\ loc'[c].tx = loc[c].tx /\ loc'[c].target = loc[c].target
          /\ loc'[c].pre = balance
      BY <1>0, <1>4 DEF UpdateBegin, Call
    <2>3. c \notin stale' => loc'[c].target = Figure(loc'[c])
      BY <2>1, <2>2 DEF Current, Figure
    <2>4. QED
      BY <1>2, <2>1, <2>2, <2>3
  <1>5. ASSUME NEW c \in Calls, Request(c) PROVE Current'
    <2>1. /\ balance' = balance /\ stale' = stale /\ late' = late
          /\ pc'[c] \notin {"update", "commit"}
      BY <1>0, <1>5 DEF Request, CheckBegin, CreateBegin, CreateReplay, PerformBegin, PerformExpired,
                PerformReplay, CancelBegin, CancelReplay, MayBegin, Begin, tables, traffic
    <2>2. QED
      BY <1>2, <1>5, <2>1, OneMoves
  <1>6. ASSUME NEW c \in Calls, Step(c) \/ Fail(c), ~UpdateCommit(c), ~Settle(c), ~Unsettle(c),
               ~UpdateBegin(c)
        PROVE  Current'
    <2>1. balance' = balance /\ stale' = stale /\ late' = late
      BY <1>6 DEF Step, Fail, FindAccount, FindOrder, RegisterPayer, Reuse, WalkIn, Usable, Active, Insert,
                  ReplayCreate, Process, Store, StoreFails, Abandon, Mark, tables, traffic
    <2>2. pc'[c] \notin {"update", "commit"}
      BY <1>0, <1>6 DEF Step, Fail, FindAccount, FindOrder, RegisterPayer, Reuse, WalkIn, Usable, Active,
                        Insert, ReplayCreate, Process, Store, StoreFails, Abandon, Mark, Ends, Goto
    <2>3. QED
      BY <1>2, <1>6, <2>1, <2>2, OneMoves
  <1>7. CASE Tick \/ SetBlocked \/ UNCHANGED vars
    <2>1. UNCHANGED <<balance, pc, loc, stale, late>>
      BY <1>7 DEF Tick, SetBlocked, vars, tables, traffic
    <2>2. QED
      BY <2>1 DEF Current, Figure
  <1>8. QED
    BY <1>1, <1>3, <1>4, <1>5, <1>6, <1>7 DEF Next

\* Only a payment with a row is settled or reversed.
LEMMA UnmovedStep == ASSUME Typed, Placed, Unmoved, [Next]_vars PROVE Unmoved'
  <1>1. \A id \in Ids : txs'[id].state = NoRow => txs[id].state = NoRow
    BY RowsStay
  <1>2. CASE applied' = applied
    BY <1>1, <1>2 DEF Unmoved
  <1>3. ASSUME NEW c \in Calls, UpdateCommit(c) PROVE Unmoved'
    <2>1. txs' = txs /\ txs[loc[c].id].state # NoRow
      BY <1>3, AtStatement DEF UpdateCommit, CallWellFormed, Placed
    <2>2. \A id \in Ids : id # loc[c].id => applied'[id] = applied[id]
      BY <1>3 DEF UpdateCommit, Typed, CountersTyped
    <2>3. QED
      BY <2>1, <2>2 DEF Unmoved
  <1>4. QED
    BY <1>2, <1>3, MoneyMoves

\* What calls know of the rows and of the balance, in every schedule.
LEMMA SettlingHolds == Spec => [](Placed /\ Unmoved /\ Current)
  <1>1. Init => Placed /\ Unmoved /\ Current
    BY DEF Init, Placed, Unmoved, Current, NoCall
  <1>2. Typed /\ Placed /\ Unmoved /\ Current /\ [Next]_vars => (Placed /\ Unmoved /\ Current)'
    BY PlacedStep, UnmovedStep, CurrentStep
  <1>3. QED
    BY <1>1, <1>2, TypedAlways, PTL DEF Spec

\* In every schedule, and although settlements overwrite each other, the balance is
\* what its history explains until an update commits over a row changed since its
\* pre-image was read: no other pair of settlements, refunds, failures and retries
\* leaves a figure that its history does not lead to.
THEOREM BalanceIsExplained == Spec => []BalanceExplained
  <1>1. Init => BalanceExplained
    BY ServiceAssumption DEF Init, BalanceExplained, ServiceAssumption
  <1>2. Typed /\ Current /\ BalanceExplained /\ [Next]_vars => BalanceExplained'
    <2> SUFFICES ASSUME Typed, Current, BalanceExplained, [Next]_vars PROVE BalanceExplained'
      OBVIOUS
    <2>1. ASSUME NEW c \in Calls, UpdateCommit(c), ~raced'
          PROVE  balance' = InitialBalance + history'
      <3>1. /\ pc[c] = "commit" /\ c \notin late /\ ~raced
            /\ balance' = loc[c].target /\ history' = history + (loc[c].target - loc[c].pre)
        BY <2>1 DEF UpdateCommit
      <3>2. loc[c].pre = balance /\ balance = InitialBalance + history
        BY <3>1 DEF Current, BalanceExplained
      <3>3. loc[c].target \in Int /\ balance \in Int /\ history \in Int /\ InitialBalance \in Int
        BY AtStatement, ServiceAssumption DEF Call, TablesTyped, ServiceAssumption
      <3>4. QED
        BY <3>1, <3>2, <3>3
    <2>2. CASE UNCHANGED <<balance, history>> /\ (raced => raced')
      BY <2>2 DEF BalanceExplained
    <2>3. QED
      BY <2>1, <2>2, MoneyMoves, RacesStay DEF BalanceExplained
  <1>3. QED
    BY <1>1, <1>2, TypedAlways, SettlingHolds, PTL DEF Spec

\* What the ids have moved are integers.
LEMMA MovesTyped == ASSUME Typed PROVE Moves \in [Ids -> Int]
  <1>1. ASSUME NEW id \in Ids, txs[id].state # NoRow
        PROVE  applied[id] * Apply(0, Amount[txs[id].order]) \in Int
    <2>1. applied[id] \in Int /\ txs[id].order \in Orders
      BY <1>1 DEF Typed, CountersTyped, WellFormed
    <2>2. Apply(0, Amount[txs[id].order]) \in Int
      BY <2>1, ServiceAssumption DEF Apply, ServiceAssumption
    <2>3. QED
      BY <2>1, <2>2
  <1>2. QED
    BY <1>1 DEF Moves, SignedAmount

\* A row keeps its order, and a new one has moved nothing.
LEMMA RowsKeepMoves ==
  ASSUME Typed, Typed', Placed, Unmoved, [Next]_vars, applied' = applied PROVE Moves' = Moves
  <1>1. ASSUME NEW id \in Ids PROVE SignedAmount(id)' = SignedAmount(id)
    <2>1. CASE txs[id].state # NoRow
      BY <1>1, <2>1, RowsStay DEF SignedAmount
    <2>2. CASE txs[id].state = NoRow /\ txs'[id].state # NoRow
      <3>1. applied'[id] = 0 /\ txs'[id].order \in Orders
        BY <2>2 DEF Unmoved, Typed, WellFormed
      <3>2. Apply(0, Amount[txs'[id].order]) \in Int
        BY <3>1, ServiceAssumption DEF Apply, ServiceAssumption
      <3>3. SignedAmount(id)' = 0
        BY <2>2, <3>1, <3>2 DEF SignedAmount, Apply
      <3>4. QED
        BY <2>2, <3>3 DEF SignedAmount
    <2>3. CASE txs[id].state = NoRow /\ txs'[id].state = NoRow
      BY <2>3 DEF SignedAmount
    <2>4. QED
      BY <2>1, <2>2, <2>3
  <1>2. QED
    BY <1>1 DEF Moves

\* A commit of a figure made of the balance as it still is moves the balance by the
\* amount its payment has moved more, or less.
LEMMA CommitMoves ==
  ASSUME Typed, Placed, Current, IsFiniteSet(Ids), NoMoveLost, NEW c \in Calls, UpdateCommit(c), Typed'
  PROVE  NoMoveLost'
  <1> SUFFICES ASSUME ~crossed' PROVE balance' = InitialBalance + SumFunction(Moves')
    BY DEF NoMoveLost, Moves, SignedAmount
  <1>0. ~crossed /\ c \notin stale
    BY DEF UpdateCommit
  <1>1. PICK id \in Ids : id = loc[c].id
    BY AtStatement DEF UpdateCommit, CallWellFormed
  <1>2. /\ loc[c].op \in {"Perform", "Cancel"} /\ txs' = txs /\ txs[id].state # NoRow
        /\ txs[id].order = loc[c].tx.order /\ txs[id].order \in Orders
        /\ balance' = Figure(loc[c]) /\ balance \in Int /\ applied \in [Ids -> Int]
        /\ applied' = [applied EXCEPT ![id] = IF loc[c].op = "Perform" THEN @ + 1 ELSE @ - 1]
    <2>1. CallWellFormed(loc[c], "commit") /\ pc[c] = "commit"
      BY AtStatement DEF UpdateCommit
    <2>2. txs[id].state # NoRow /\ txs[id].order = loc[c].tx.order /\ txs[id].order \in Orders
      BY <1>1, <2>1 DEF CallWellFormed, Placed
    <2>3. balance \in Int /\ applied \in [Ids -> Int]
      BY DEF Typed, TablesTyped, CountersTyped
    <2>4. loc[c].target = Figure(loc[c])
      BY <1>0, <2>1 DEF Current
    <2>5. QED
      BY <1>1, <2>1, <2>2, <2>3, <2>4 DEF UpdateCommit, CallWellFormed
  <1>3. PICK a \in Int : a = Apply(0, Amount[txs[id].order])
    BY <1>2, ServiceAssumption DEF Apply, ServiceAssumption
  <1>4. balance' = IF loc[c].op = "Perform" THEN balance + a ELSE balance - a
    BY <1>2, <1>3, ServiceAssumption DEF Figure, Apply, Reverse, ServiceAssumption
  <1>5. \A j \in Ids : j # id => Moves'[j] = Moves[j]
    BY <1>2 DEF Moves, SignedAmount
  <1>6. Moves'[id] - Moves[id] = balance' - balance /\ Moves'[id] \in Int
    <2>1. Moves[id] = applied[id] * a /\ Moves'[id] = applied'[id] * a /\ applied[id] \in Int
      BY <1>2, <1>3 DEF Moves, SignedAmount
    <2>2. applied'[id] = IF loc[c].op = "Perform" THEN applied[id] + 1 ELSE applied[id] - 1
      BY <1>2
    <2>3. \A k, x \in Int : (k + 1) * x = k * x + x /\ (k - 1) * x = k * x - x /\ k * x \in Int
      OBVIOUS
    <2>4. balance \in Int
      BY <1>2
    <2>5. QED
      BY <1>4, <2>1, <2>2, <2>3, <2>4
  <1>7. /\ SumFunction(Moves') = SumFunction(Moves) + Moves'[id] - Moves[id]
        /\ SumFunction(Moves) \in Int
    <2>0. Moves \in [Ids -> Int] /\ DOMAIN Moves' = Ids /\ Moves' = [j \in Ids |-> Moves'[j]]
      BY MovesTyped DEF Moves
    <2>1. PICK f \in [Ids -> Int], h \in [Ids -> Int] :
             f = Moves /\ h = Moves' /\ \A j \in Ids : j # id => h[j] = f[j]
      BY <1>5, <1>6, <2>0
    <2>2. SumFunction(h) = SumFunction(f) + h[id] - f[id] /\ SumFunction(f) \in Int
      BY <2>1, SumChanges, SumTyped
    <2>3. QED
      BY <2>1, <2>2
  <1>8. balance = InitialBalance + SumFunction(Moves)
    BY <1>0 DEF NoMoveLost
  <1>9. InitialBalance \in Int /\ balance \in Int /\ Moves[id] \in Int
    <2>1. Moves[id] \in Int
      BY MovesTyped
    <2>2. InitialBalance \in Int
      BY ServiceAssumption DEF ServiceAssumption
    <2>3. QED
      BY <1>2, <2>1, <2>2
  <1>10. balance' \in Int
    BY <1>3, <1>4, <1>9
  <1>11. QED
    BY <1>6, <1>7, <1>8, <1>9, <1>10

\* In every schedule the balance has moved once by every settlement and back once by
\* every reversal, of any finite number of payments, until a settlement writes a figure
\* it made of a balance another one has changed since: retries, late answers, failed
\* statements, expiries and refunds lose nothing and count nothing twice by themselves.
THEOREM NoMoveIsLost == ASSUME IsFiniteSet(Ids) PROVE Spec => []NoMoveLost
  <1>1. Init => NoMoveLost
    <2> SUFFICES ASSUME Init PROVE NoMoveLost
      OBVIOUS
    <2>1. Moves \in [Ids -> Int] /\ \A id \in Ids : Moves[id] = 0
      BY DEF Init, NoTransaction, Moves, SignedAmount
    <2>2. SumFunction(Moves) = 0
      BY <2>1, SumOfZeros
    <2>3. QED
      BY <2>2, ServiceAssumption DEF Init, NoMoveLost, ServiceAssumption
  <1>2. Typed /\ Placed /\ Unmoved /\ Current /\ NoMoveLost /\ [Next]_vars => NoMoveLost'
    <2> SUFFICES ASSUME Typed, Placed, Unmoved, Current, NoMoveLost, [Next]_vars PROVE NoMoveLost'
      OBVIOUS
    <2>1. Typed'
      BY NextType
    <2>2. CASE UNCHANGED <<balance, applied>>
      <3>1. Moves' = Moves
        BY <2>1, <2>2, RowsKeepMoves
      <3>2. QED
        BY <2>2, <3>1, RacesStay DEF NoMoveLost
    <2>3. QED
      BY <2>1, <2>2, MoneyMoves, CommitMoves
  <1>3. QED
    BY <1>1, <1>2, TypedAlways, SettlingHolds, PTL DEF Spec

\* In every schedule a register that pays out has handed out no more than it held, until
\* a payout writes a figure it made of a balance another one has changed since: the
\* refusal of Apply is enough but for that.
THEOREM PayoutCovered ==
  ASSUME ~Inbound, IsFiniteSet(Ids) PROVE Spec => [](~crossed => RegisterCovered)
  <1>1. Init => Funded
    BY ServiceAssumption DEF Init, Funded, ServiceAssumption
  <1>2. Typed /\ Funded /\ [Next]_vars => Funded'
    BY MovesFunded, OthersFunded
  <1>3. Funded /\ NoMoveLost => (~crossed => RegisterCovered)
    BY DEF Funded, NoMoveLost, RegisterCovered
  <1>4. QED
    BY <1>1, <1>2, <1>3, TypedAlways, NoMoveIsLost, PTL DEF Spec
-----------------------------------------------------------------------------
(* Until calls overlap *)

\* At most one call is in flight.
Turns == \A c, d \in Calls : InFlight(c) /\ InFlight(d) => c = d

\* What a call has read of the orders still stands.
Informed(call, at) ==
    /\ at \in {"account", "order", "payer", "reuse"} => call.order = 0
    /\ at = "walkin" /\ call.order = 0 => Reusable(call.value, call.amount) = {}
    /\ at = "walkin" /\ call.order # 0 => Payable(orders[call.order])
    /\ at \in {"usable", "active", "insert", "process"} => Payable(orders[call.order])
    /\ at = "mark" /\ call.op = "Cancel" => ActiveOn(call.tx.order) = {}

ReadsStand == \A c \in Calls : Informed(loc[c], pc[c])

\* A payer has one payable order of an amount.
OneOpenOrder ==
    \A o, p \in Orders :
        Payable(orders[o]) /\ Payable(orders[p]) /\ Owner[o] = Owner[p] /\ Amount[o] = Amount[p]
        => o = p

\* A transaction on the order is performed.
HeldBy(o) == \E id \in Ids : txs[id].order = o /\ txs[id].state = StatePerformed

\* Until a call fails an order is paid exactly while such a transaction holds it, but
\* for the order a call is about to mark.
PaidWhileHeld ==
    failures = 0 =>
        \A o \in Orders : (\A c \in Calls : pc[c] = "mark" => loc[c].tx.order # o)
                            => (orders[o] = "paid" <=> HeldBy(o))

\* Where one call steps while no other is in flight, only its own reads have to stand.
LEMMA StandsIf ==
  ASSUME NEW c \in Calls, \A d \in Calls : d # c => pc'[d] = "idle", Informed(loc[c], pc[c])'
  PROVE  Turns' /\ ReadsStand'
  <1>1. Turns'
    BY DEF Turns, InFlight
  <1>2. ASSUME NEW d \in Calls, d # c PROVE Informed(loc[d], pc[d])'
    <2>1. pc'[d] = "idle"
      BY <1>2
    <2>2. QED
      BY <2>1 DEF Informed
  <1>3. QED
    BY <1>1, <1>2 DEF ReadsStand

\* As long as nothing overlaps the others are idle before a step of a call and after it.
LEMMA OthersIdle ==
  ASSUME Typed, Turns, ~overlapped', NEW c \in Calls,
         \/ Request(c) /\ InFlight(c)'
         \/ Step(c) \/ Fail(c)
  PROVE  \A d \in Calls : d # c => pc[d] = "idle" /\ pc'[d] = "idle"
  <1>1. InFlight(c) \/ \A d \in Calls : pc[d] = "idle"
    <2>1. CASE Request(c) /\ InFlight(c)'
      <3>1. CASE \E id \in Ids : CreateReplay(c, id) \/ PerformReplay(c, id) \/ CancelReplay(c, id)
        BY <2>1, <3>1 DEF CreateReplay, PerformReplay, CancelReplay, InFlight
      <3>2. CASE \/ CheckBegin(c)
                 \/ \E id \in Ids : \/ CreateBegin(c, id) \/ PerformBegin(c, id)
                                    \/ PerformExpired(c, id) \/ CancelBegin(c, id)
        <4>1. overlapped' = (overlapped \/ \E d \in Calls : InFlight(d))
          BY <3>2 DEF CheckBegin, CreateBegin, PerformBegin, PerformExpired, CancelBegin, Begin
        <4>2. QED
          BY <4>1 DEF InFlight
      <3>3. QED
        BY <2>1, <3>1, <3>2 DEF Request
    <2>2. CASE Step(c)
      BY <2>2 DEF Step, FindAccount, FindOrder, RegisterPayer, Reuse, WalkIn, Usable, Active, Insert,
                  ReplayCreate, Process, Settle, Unsettle, UpdateBegin, UpdateCommit, Store, StoreFails,
                  Mark, InFlight
    <2>3. QED
      BY <2>1, <2>2 DEF Fail
  <1>2. \A d \in Calls : d # c => pc[d] = "idle"
    BY <1>1 DEF Turns, InFlight
  <1>3. QED
    BY <1>2, OneMoves

\* Only three statements write merchant.orders.
LEMMA OrdersMove ==
  ASSUME [Next]_vars
  PROVE  orders' = orders \/ \E c \in Calls : WalkIn(c) \/ Process(c) \/ Mark(c)
  <1>1. ASSUME NEW c \in Calls, Request(c) PROVE orders' = orders
    BY <1>1 DEF Request, CheckBegin, CreateBegin, CreateReplay, PerformBegin, PerformExpired, PerformReplay,
                CancelBegin, CancelReplay, tables, Begin, book, traffic
  <1>2. ASSUME NEW c \in Calls, Step(c), ~WalkIn(c), ~Process(c), ~Mark(c) PROVE orders' = orders
    BY <1>2 DEF Step, FindAccount, FindOrder, RegisterPayer, Reuse, Usable, Active, Insert, ReplayCreate,
                Settle, Unsettle, UpdateBegin, UpdateCommit, Store, StoreFails, Abandon, tables,
                book, traffic
  <1>3. ASSUME NEW c \in Calls, Fail(c) PROVE orders' = orders
    BY <1>3 DEF Fail, Abandon, tables, book, traffic
  <1>4. CASE Tick \/ SetBlocked \/ UNCHANGED vars
    BY <1>4 DEF Tick, SetBlocked, vars, tables, book, traffic
  <1>5. QED
    BY <1>1, <1>2, <1>3, <1>4 DEF Next

\* A call that is about none of these statements has nothing to keep.
LEMMA Forgets ==
  ASSUME NEW c \in Calls,
         pc'[c] \notin {"account", "order", "payer", "reuse", "walkin", "usable", "active", "insert",
                        "process", "mark"}
  PROVE  Informed(loc[c], pc[c])'
  BY DEF Informed

\* The order a call has resolved is payable, or there is none to reuse.
LEMMA ResolveInforms ==
  ASSUME Inv, ReadsStand, NEW c \in Calls,
         FindAccount(c) \/ FindOrder(c) \/ RegisterPayer(c) \/ Reuse(c)
  PROVE  Informed(loc[c], pc[c])'
  <1>1. /\ pc[c] \in {"account", "order", "payer", "reuse"} /\ loc[c] \in Call
        /\ loc[c].order = 0 /\ orders' = orders
        /\ loc \in [Calls -> Call] /\ pc \in [Calls -> Statements]
    BY AtStatement DEF Inv, FindAccount, FindOrder, RegisterPayer, Reuse, tables, ReadsStand,
                       Informed, CallsTyped
  <1>2. CASE Ends(c)
    BY <1>1, <1>2, Forgets DEF Ends, Goto
  <1>3. ASSUME NEW o \in Orders, NEW s \in {"usable", "walkin"}, Payable(orders[o]),
               loc' = [loc EXCEPT ![c].order = o], Goto(c, s)
        PROVE  Informed(loc[c], pc[c])'
    <2>1. loc'[c].order = o /\ pc'[c] = s /\ o # 0
      BY <1>1, <1>3, TransactionAssumption DEF Goto, Call, TransactionAssumption
    <2>2. QED
      BY <1>1, <1>3, <2>1 DEF Informed, Payable
  <1>4. CASE /\ Reusable(loc[c].value, loc[c].amount) = {}
             /\ UNCHANGED loc /\ Goto(c, "walkin")
    <2>1. loc'[c] = loc[c] /\ pc'[c] = "walkin"
      BY <1>1, <1>4 DEF Goto
    <2>2. QED
      BY <1>1, <1>4, <2>1 DEF Informed, Reusable
  <1>5. ASSUME NEW s \in {"order", "payer", "reuse"}, Goto(c, s), UNCHANGED loc
        PROVE  Informed(loc[c], pc[c])'
    <2>1. loc'[c] = loc[c] /\ pc'[c] = s
      BY <1>1, <1>5 DEF Goto
    <2>2. QED
      BY <1>1, <2>1 DEF Informed
  <1>6. QED
    BY <1>2, <1>3, <1>4, <1>5
    DEF FindAccount, FindOrder, RegisterPayer, Reuse, Candidates, Reusable

\* A call that goes on with its order keeps it payable.
LEMMA CreateInforms ==
  ASSUME Inv, ReadsStand, NEW c \in Calls, WalkIn(c) \/ Usable(c) \/ Active(c) \/ Insert(c)
  PROVE  Informed(loc[c], pc[c])'
  <1>1. /\ loc[c] \in Call /\ loc \in [Calls -> Call] /\ pc \in [Calls -> Statements]
        /\ orders \in [Orders -> OrderStatus] /\ Informed(loc[c], pc[c])
        /\ CallWellFormed(loc[c], pc[c])
    BY AtStatement DEF Inv, ReadsStand, CallsTyped, TablesTyped
  <1>2. CASE Ends(c)
    BY <1>1, <1>2, Forgets DEF Ends, Goto
  <1>3. ASSUME NEW s \in {"usable", "active", "insert", "process"}, Goto(c, s),
               Payable(orders'[loc'[c].order])
        PROVE  Informed(loc[c], pc[c])'
    <2>1. pc'[c] = s
      BY <1>1, <1>3 DEF Goto
    <2>2. QED
      BY <1>3, <2>1 DEF Informed, Payable
  <1>4. CASE WalkIn(c)
    <2>1. CASE loc[c].order # 0 /\ UNCHANGED <<orders, loc>>
      BY <1>1, <1>3, <1>4, <2>1 DEF WalkIn, Informed, book, traffic
    <2>2. ASSUME NEW o \in Orders, orders' = [orders EXCEPT ![o] = "new"],
                 loc' = [loc EXCEPT ![c].order = o]
          PROVE  Informed(loc[c], pc[c])'
      <3>1. loc'[c].order = o /\ orders'[o] = "new"
        BY <1>1, <2>2 DEF Call
      <3>2. QED
        BY <1>3, <1>4, <3>1 DEF WalkIn, Payable, book, traffic
    <2>3. QED
      BY <1>4, <2>1, <2>2 DEF WalkIn, FreeRows, book, traffic
  <1>5. CASE (Usable(c) \/ Active(c)) /\ ~Ends(c)
    <2>1. Payable(orders[loc[c].order]) /\ orders' = orders /\ loc'[c].order = loc[c].order
      BY <1>1, <1>5 DEF Usable, Active, Informed, tables, Call, book, traffic
    <2>2. QED
      BY <1>3, <1>5, <2>1 DEF Usable, Active, book, traffic
  <1>6. CASE Insert(c)
    <2>1. CASE Goto(c, "replay")
      BY <1>1, <2>1, Forgets DEF Goto
    <2>2. CASE Goto(c, "process")
      BY <1>1, <1>3, <1>6, <2>2 DEF Insert, Informed, book, traffic
    <2>3. QED
      BY <1>6, <2>1, <2>2 DEF Insert, book, traffic
  <1>7. QED
    BY <1>2, <1>4, <1>5, <1>6

\* An order that is released has no active transaction left.
LEMMA StoreInforms ==
  ASSUME Inv, NEW c \in Calls, Store(c) PROVE Informed(loc[c], pc[c])'
  <1>1. /\ loc \in [Calls -> Call] /\ pc \in [Calls -> Statements] /\ txs \in [Ids -> TransactionRow]
        /\ loc[c].id \in Ids /\ CallWellFormed(loc[c], "store") /\ pc[c] = "store"
        /\ CallFresh(loc[c], "store", txs[loc[c].id])
    BY AtStatement, Serving DEF Inv, CallsTyped, TablesTyped, Store, InFlight, CallWellFormed, book,
                                traffic
  <1>2. CASE Ends(c)
    BY <1>1, <1>2, Forgets DEF Ends, Goto
  <1>3. CASE UNCHANGED loc /\ Goto(c, "mark")
    <2>1. PICK id \in Ids, t \in {loc[c].tx} : id = loc[c].id /\ txs' = [txs EXCEPT ![id] = t]
      BY <1>1 DEF Store, book, traffic
    <2>2. ASSUME loc[c].op = "Cancel" PROVE ActiveOn(t.order)' = {}
      <3>1. IsFinal(t.state) /\ IsActive(txs[id].state) /\ txs[id].order = t.order
        BY <1>1, <2>1, <2>2 DEF CallWellFormed, CallFresh, Origin, IsActive
      <3>2. \A j \in Ids : j # id => ~(txs[j].order = t.order /\ IsActive(txs[j].state))
        BY <3>1 DEF Inv, OneActivePerOrder
      <3>3. \A j \in Ids : txs'[j] = IF j = id THEN t ELSE txs[j]
        BY <1>1, <2>1
      <3>4. \A j \in Ids : ~(txs'[j].order = t.order /\ IsActive(txs'[j].state))
        BY <3>1, <3>2, <3>3 DEF IsActive, IsFinal
      <3>5. QED
        BY <3>4 DEF ActiveOn, IsActive
    <2>3. loc'[c] = loc[c] /\ pc'[c] = "mark"
      BY <1>1, <1>3 DEF Goto
    <2>4. QED
      BY <2>1, <2>2, <2>3 DEF Informed, ActiveOn
  <1>4. QED
    BY <1>2, <1>3 DEF Store, book, traffic

\* As long as calls take turns, what one has read stands until it is done with it.
LEMMA SerialStep ==
  ASSUME Inv, Turns, ReadsStand, ~overlapped', [Next]_vars
  PROVE  Turns' /\ ReadsStand'
  <1>0. Typed /\ pc \in [Calls -> Statements] /\ loc \in [Calls -> Call]
    BY DEF Inv, Typed, CallsTyped
  <1>1. ASSUME NEW c \in Calls, (Request(c) /\ InFlight(c)') \/ Step(c) \/ Fail(c), Informed(loc[c], pc[c])'
        PROVE  Turns' /\ ReadsStand'
    BY <1>0, <1>1, OthersIdle, StandsIf
  <1>2. ASSUME UNCHANGED <<txs, orders, pc, loc>> PROVE Turns' /\ ReadsStand'
    <2>1. Turns'
      BY <1>2 DEF Turns, InFlight
    <2>2. ReadsStand'
      BY <1>2 DEF ReadsStand, Informed, Payable, Reusable, ActiveOn
    <2>3. QED
      BY <2>1, <2>2
  <1>3. ASSUME NEW c \in Calls, Request(c) PROVE Turns' /\ ReadsStand'
    <2>1. CASE CheckBegin(c) \/ \E id \in Ids : CreateBegin(c, id)
      <3>1. PICK call : loc' = [loc EXCEPT ![c] = call] /\ call.order = 0
        BY <2>1, BeginsAs
      <3>3. pc'[c] = "account" /\ loc'[c].order = 0 /\ InFlight(c)'
        BY <1>0, <2>1, <3>1 DEF CheckBegin, CreateBegin, Begin, InFlight
      <3>2. QED
        BY <1>1, <1>3, <3>3 DEF Informed
    <2>2. CASE \E id \in Ids : PerformBegin(c, id) \/ PerformExpired(c, id) \/ CancelBegin(c, id)
      <3>1. pc'[c] \in {"settle", "store", "unsettle"} /\ InFlight(c)'
        BY <1>0, <2>2 DEF PerformBegin, PerformExpired, CancelBegin, Begin, InFlight
      <3>2. QED
        BY <1>1, <1>3, <3>1, Forgets
    <2>3. CASE \E id \in Ids : CreateReplay(c, id) \/ PerformReplay(c, id) \/ CancelReplay(c, id)
      BY <1>2, <2>3 DEF CreateReplay, PerformReplay, CancelReplay, tables
    <2>4. QED
      BY <1>3, <2>1, <2>2, <2>3 DEF Request
  <1>4. ASSUME NEW c \in Calls, Step(c) PROVE Turns' /\ ReadsStand'
    <2>1. CASE \/ ReplayCreate(c) \/ Process(c) \/ UpdateCommit(c) \/ StoreFails(c) \/ Mark(c)
               \/ Settle(c) \/ Unsettle(c) \/ UpdateBegin(c)
      <3>1. pc'[c] \in {"idle", "store", "update", "commit"}
        BY <1>0, <2>1 DEF ReplayCreate, Process, UpdateCommit, StoreFails, Abandon, Mark, Settle, Unsettle,
                          UpdateBegin, Ends, Goto
      <3>2. QED
        BY <1>1, <1>4, <3>1, Forgets
    <2>2. QED
      BY <1>1, <1>4, <2>1, ResolveInforms, CreateInforms, StoreInforms DEF Step
  <1>5. ASSUME NEW c \in Calls, Fail(c) PROVE Turns' /\ ReadsStand'
    <2>1. pc'[c] = "idle"
      BY <1>0, <1>5 DEF Fail, Abandon, Ends, Goto
    <2>2. QED
      BY <1>1, <1>5, <2>1, Forgets
  <1>6. CASE Tick \/ SetBlocked \/ UNCHANGED vars
    BY <1>2, <1>6 DEF Tick, SetBlocked, vars, tables
  <1>7. QED
    BY <1>3, <1>4, <1>5, <1>6 DEF Next

\* Until calls overlap, the invariant and what calls have read hold in every state.
LEMMA SerialHolds ==
  ASSUME Overlap # "any" PROVE Spec => [](Inv /\ (~overlapped => Turns /\ ReadsStand))
  <1>1. Init => Turns /\ ReadsStand
    BY DEF Init, Turns, InFlight, ReadsStand, Informed, NoCall
  <1>2. Inv /\ (~overlapped => Turns /\ ReadsStand) /\ [Next]_vars
          => Inv' /\ (~overlapped' => Turns' /\ ReadsStand')
    <2>1. Inv /\ [Next]_vars => Inv'
      BY InvStep
    <2>2. ASSUME Inv, ~overlapped => Turns /\ ReadsStand, [Next]_vars, ~overlapped'
          PROVE  Turns' /\ ReadsStand'
      BY <2>2, RacesStay, SerialStep
    <2>3. QED
      BY <2>1, <2>2
  <1>3. QED
    BY <1>1, <1>2, InvInit, PTL DEF Spec
-----------------------------------------------------------------------------
(* Orders *)

\* A call inserts an order only where there is none to reuse, and takes none back that
\* was paid or released.
LEMMA OpenStep ==
  ASSUME Inv, ReadsStand, OneOpenOrder, [Next]_vars PROVE OneOpenOrder'
  <1>0. orders \in [Orders -> OrderStatus]
    BY DEF Inv, Typed, TablesTyped
  <1>1. ASSUME \A o \in Orders : Payable(orders'[o]) => Payable(orders[o]) PROVE OneOpenOrder'
    BY <1>1 DEF OneOpenOrder, Payable
  <1>2. ASSUME NEW c \in Calls, WalkIn(c) PROVE OneOpenOrder'
    <2>1. CASE orders' = orders
      BY <1>1, <2>1
    <2>2. ASSUME NEW n \in FreeRows(loc[c].value, loc[c].amount), loc[c].order = 0,
                 orders' = [orders EXCEPT ![n] = "new"]
          PROVE  OneOpenOrder'
      <3>1. /\ n \in Orders /\ Owner[n] = loc[c].value /\ Amount[n] = loc[c].amount
            /\ Reusable(loc[c].value, loc[c].amount) = {}
        BY <1>2, <2>2 DEF FreeRows, ReadsStand, Informed, WalkIn, book, traffic
      <3>2. \A o \in Orders : ~(Payable(orders[o]) /\ Owner[o] = Owner[n] /\ Amount[o] = Amount[n])
        BY <3>1 DEF Reusable
      <3>3. \A o \in Orders : o # n => orders'[o] = orders[o]
        BY <1>0, <2>2
      <3>4. ASSUME NEW o \in Orders, NEW p \in Orders, Payable(orders'[o]), Payable(orders'[p]),
                   Owner[o] = Owner[p], Amount[o] = Amount[p]
            PROVE  o = p
        BY <3>2, <3>3, <3>4 DEF OneOpenOrder
      <3>5. QED
        BY <3>4 DEF OneOpenOrder, Payable
    <2>3. QED
      BY <1>2, <2>1, <2>2 DEF WalkIn, book, traffic
  <1>3. ASSUME NEW c \in Calls, Process(c) PROVE OneOpenOrder'
    <2>1. Payable(orders[loc[c].order]) /\ orders' = [orders EXCEPT ![loc[c].order] = "processing"]
      BY <1>3 DEF Process, ReadsStand, Informed, book, traffic
    <2>2. \A o \in Orders : o = loc[c].order \/ orders'[o] = orders[o]
      BY <1>0, <2>1
    <2>3. QED
      BY <1>1, <2>1, <2>2
  <1>4. ASSUME NEW c \in Calls, Mark(c) PROVE OneOpenOrder'
    <2>1. \A o \in Orders : orders'[o] \in {"paid", "cancelled", orders[o]}
      BY <1>0, <1>4 DEF Mark, book, traffic
    <2>2. QED
      BY <1>1, <2>1 DEF Payable
  <1>5. QED
    BY <1>1, <1>2, <1>3, <1>4, OrdersMove

\* Until calls overlap, walk-ins leave no trail of unpaid duplicates: if no payer
\* begins with two orders of one amount, none ever has two that can be paid, whatever
\* is paid, cancelled, expired or cut short in between.
THEOREM WalkInsAreReused ==
  ASSUME Overlap # "any",
         \A o, p \in Existing : Owner[o] = Owner[p] /\ Amount[o] = Amount[p] => o = p
  PROVE  Spec => []NoDuplicateWalkIns
  <1>1. Init => OneOpenOrder
    <2>1. Init => \A o \in Orders : Payable(orders[o]) => o \in Existing
      BY DEF Init, Payable
    <2>2. QED
      BY <2>1 DEF OneOpenOrder
  <1>2. Inv /\ (~overlapped => Turns /\ ReadsStand) /\ (~overlapped => OneOpenOrder) /\ [Next]_vars
          => (~overlapped' => OneOpenOrder')
    BY OpenStep, RacesStay
  <1>3. (~overlapped => OneOpenOrder) => NoDuplicateWalkIns
    <2> SUFFICES ASSUME OneOpenOrder, NEW v \in Values, NEW a \in Amounts
                 PROVE  Cardinality(Reusable(v, a)) <= 1
      BY DEF NoDuplicateWalkIns
    <2>1. \A o, p \in Reusable(v, a) : o = p
      BY DEF OneOpenOrder, Reusable
    <2>2. CASE Reusable(v, a) = {}
      BY <2>2, FS_EmptySet
    <2>3. ASSUME NEW o \in Reusable(v, a) PROVE Cardinality(Reusable(v, a)) <= 1
      <3>1. Reusable(v, a) = {o}
        BY <2>1, <2>3
      <3>2. Cardinality({o}) = 1
        BY FS_Singleton
      <3>3. QED
        BY <3>1, <3>2
    <2>4. QED
      BY <2>2, <2>3
  <1>4. QED
    BY <1>1, <1>2, <1>3, SerialHolds, PTL DEF Spec

\* Where neither rows nor orders change and no call comes to mark, an order stands as
\* it stood.
LEMMA QuietOrders ==
  ASSUME PaidWhileHeld, UNCHANGED <<txs, orders>>, failures' = 0 => failures = 0,
         \A d \in Calls : pc[d] = "mark" => pc'[d] = "mark" /\ loc'[d] = loc[d]
  PROVE  PaidWhileHeld'
  <1> SUFFICES ASSUME failures = 0, NEW o \in Orders,
                      \A d \in Calls : pc'[d] = "mark" => loc'[d].tx.order # o
               PROVE  orders'[o] = "paid" <=> HeldBy(o)'
    BY DEF PaidWhileHeld
  <1>1. \A d \in Calls : pc[d] = "mark" => loc[d].tx.order # o
    OBVIOUS
  <1>2. HeldBy(o)' <=> HeldBy(o)
    BY DEF HeldBy
  <1>3. QED
    BY <1>1, <1>2 DEF PaidWhileHeld

\* A row that becomes or stops being performed is that of the order its call is about
\* to mark.
LEMMA RowsKeepPaid ==
  ASSUME Inv, PaidWhileHeld, NEW c \in Calls, Insert(c) \/ Store(c),
         \A d \in Calls : d # c => pc[d] = "idle"
  PROVE  PaidWhileHeld'
  <1>0. /\ txs \in [Ids -> TransactionRow] /\ pc \in [Calls -> Statements] /\ loc \in [Calls -> Call]
        /\ orders' = orders /\ failures' = failures /\ pc[c] \in {"insert", "store"}
        /\ CallWellFormed(loc[c], pc[c]) /\ CallFresh(loc[c], pc[c], txs[loc[c].id])
    BY AtStatement, Serving DEF Inv, Typed, TablesTyped, CallsTyped, Insert, Store, InFlight, book,
                                traffic
  <1> SUFFICES ASSUME failures = 0, NEW o \in Orders,
                      \A d \in Calls : pc'[d] = "mark" => loc'[d].tx.order # o
               PROVE  orders'[o] = "paid" <=> HeldBy(o)'
    BY <1>0 DEF PaidWhileHeld
  <1>1. orders[o] = "paid" <=> HeldBy(o)
    BY <1>0 DEF PaidWhileHeld
  <1>2. CASE txs' = txs
    BY <1>0, <1>1, <1>2 DEF HeldBy
  <1>3. CASE txs' # txs
    <2>1. PICK id \in Ids, t \in {loc[c].tx} :
             /\ txs' = [txs EXCEPT ![id] = t]
             /\ \/ txs[id].state = NoRow /\ t.state = StateCreated
                \/ /\ t.order = txs[id].order
                   /\ \/ txs[id].state = StateCreated /\ t.state \in {StatePerformed, StateCancelled}
                      \/ txs[id].state = StatePerformed /\ t.state = StateCancelledAfterDo
      BY <1>3, RowMoves
    <2>2. \A j \in Ids : txs'[j] = IF j = id THEN t ELSE txs[j]
      BY <1>0, <2>1
    <2>3. CASE t.state \in {StatePerformed, StateCancelledAfterDo}
      <3>1. Store(c) /\ t = loc[c].tx
        BY <1>0, <2>3 DEF CallWellFormed, Insert, book, traffic
      <3>2. pc'[c] = "mark" /\ loc'[c] = loc[c]
        BY <1>0, <2>3, <3>1 DEF Store, Goto, book, traffic
      <3>3. t.order # o /\ txs[id].order # o
        BY <2>1, <2>3, <3>1, <3>2
      <3>4. HeldBy(o)' <=> HeldBy(o)
        BY <2>2, <3>3 DEF HeldBy
      <3>5. QED
        BY <1>0, <1>1, <3>4
    <2>4. CASE t.state \in {StateCreated, StateCancelled}
      <3>1. txs[id].state # StatePerformed /\ t.state # StatePerformed
        BY <2>1, <2>4
      <3>2. HeldBy(o)' <=> HeldBy(o)
        BY <2>2, <3>1 DEF HeldBy
      <3>3. QED
        BY <1>0, <1>1, <3>2
    <2>5. QED
      BY <2>1, <2>3, <2>4
  <1>4. QED
    BY <1>2, <1>3

\* An order is marked as the transaction on it has become.
LEMMA OrdersKeepPaid ==
  ASSUME Inv, ReadsStand, PaidWhileHeld, NEW c \in Calls, WalkIn(c) \/ Process(c) \/ Mark(c),
         \A d \in Calls : d # c => pc[d] = "idle"
  PROVE  PaidWhileHeld'
  <1>0. /\ orders \in [Orders -> OrderStatus] /\ txs' = txs /\ failures' = failures
        /\ CallWellFormed(loc[c], pc[c]) /\ CallFresh(loc[c], pc[c], txs[loc[c].id])
        /\ Informed(loc[c], pc[c]) /\ pc[c] \in {"walkin", "process", "mark"}
    BY AtStatement, Serving
    DEF Inv, Typed, TablesTyped, WalkIn, Process, Mark, InFlight, ReadsStand, book, traffic
  <1> SUFFICES ASSUME failures = 0, NEW o \in Orders
               PROVE  orders'[o] = "paid" <=> HeldBy(o)
    BY <1>0 DEF PaidWhileHeld, HeldBy
  <1>1. CASE WalkIn(c) \/ Process(c)
    <2>1. orders[o] = "paid" <=> HeldBy(o)
      BY <1>1 DEF PaidWhileHeld, WalkIn, Process, book, traffic
    <2>2. orders'[o] = "paid" <=> orders[o] = "paid"
      <3>1. CASE WalkIn(c)
        BY <1>0, <3>1 DEF WalkIn, FreeRows, book, traffic
      <3>2. CASE Process(c)
        BY <1>0, <3>2 DEF Process, Informed, Payable, book, traffic
      <3>3. QED
        BY <1>1, <3>1, <3>2
    <2>3. QED
      BY <2>1, <2>2
  <1>2. CASE Mark(c)
    <2>1. /\ pc[c] = "mark" /\ loc[c].id \in Ids /\ loc[c].op \in {"Perform", "Cancel"}
          /\ txs[loc[c].id].state = loc[c].tx.state /\ txs[loc[c].id].order = loc[c].tx.order
      BY <1>0, <1>2 DEF Mark, CallWellFormed, CallFresh, book, traffic
    <2>2. CASE loc[c].tx.order # o
      BY <1>0, <1>2, <2>1, <2>2 DEF Mark, PaidWhileHeld, book, traffic
    <2>3. CASE loc[c].tx.order = o /\ loc[c].op = "Perform"
      <3>1. orders'[o] = "paid"
        BY <1>0, <1>2, <2>3 DEF Mark, book, traffic
      <3>2. HeldBy(o)
        BY <1>0, <2>1, <2>3 DEF HeldBy, CallWellFormed
      <3>3. QED
        BY <3>1, <3>2
    <2>4. CASE loc[c].tx.order = o /\ loc[c].op = "Cancel"
      <3>1. orders'[o] # "paid"
        BY <1>0, <1>2, <2>4 DEF Mark, book, traffic
      <3>2. ~HeldBy(o)
        BY <1>0, <2>1, <2>4 DEF HeldBy, Informed, ActiveOn, IsActive
      <3>3. QED
        BY <3>1, <3>2
    <2>5. QED
      BY <2>1, <2>2, <2>3, <2>4
  <1>3. QED
    BY <1>1, <1>2

\* As long as calls take turns, orders keep up with the transactions on them.
LEMMA PaidStands ==
  ASSUME Inv, Turns, ReadsStand, PaidWhileHeld, ~overlapped', [Next]_vars
  PROVE  PaidWhileHeld'
  <1>0. Typed /\ pc \in [Calls -> Statements] /\ loc \in [Calls -> Call] /\ failures \in Nat
    BY DEF Inv, Typed, CallsTyped, CountersTyped
  <1>1. ASSUME NEW c \in Calls, Fail(c) PROVE PaidWhileHeld'
    <2>1. failures' # 0
      BY <1>0, <1>1 DEF Fail, book, traffic
    <2>2. QED
      BY <2>1 DEF PaidWhileHeld
  <1>2. ASSUME NEW c \in Calls, Request(c) \/ Step(c), pc[c] # "mark",
               UNCHANGED <<txs, orders, failures>>
        PROVE  PaidWhileHeld'
    <2>1. \A d \in Calls : pc[d] = "mark" => pc'[d] = "mark" /\ loc'[d] = loc[d]
      BY <1>0, <1>2, OneMoves
    <2>2. QED
      BY <1>2, <2>1, QuietOrders
  <1>3. ASSUME NEW c \in Calls, Request(c) PROVE PaidWhileHeld'
    <2>1. pc[c] = "idle" /\ UNCHANGED <<txs, orders, failures>>
      BY <1>3 DEF Request, CheckBegin, CreateBegin, CreateReplay, PerformBegin, PerformExpired, PerformReplay,
                  CancelBegin, CancelReplay, MayBegin, tables, Begin, book, traffic
    <2>2. QED
      BY <1>2, <1>3, <2>1
  <1>4. ASSUME NEW c \in Calls, Step(c) PROVE PaidWhileHeld'
    <2>1. \A d \in Calls : d # c => pc[d] = "idle"
      BY <1>0, <1>4, OthersIdle
    <2>2. CASE WalkIn(c) \/ Process(c) \/ Mark(c)
      BY <2>1, <2>2, OrdersKeepPaid
    <2>3. CASE Insert(c) \/ Store(c)
      BY <2>1, <2>3, RowsKeepPaid
    <2>4. CASE \/ FindAccount(c) \/ FindOrder(c) \/ RegisterPayer(c) \/ Reuse(c) \/ Usable(c) \/ Active(c)
               \/ ReplayCreate(c) \/ Settle(c) \/ Unsettle(c) \/ UpdateBegin(c) \/ UpdateCommit(c) \/ StoreFails(c)
      <3>1. pc[c] # "mark" /\ UNCHANGED <<txs, orders, failures>>
        BY <2>4 DEF FindAccount, FindOrder, RegisterPayer, Reuse, Usable, Active, ReplayCreate, Settle,
                    Unsettle, UpdateBegin, UpdateCommit, StoreFails, Abandon, tables, book, traffic
      <3>2. QED
        BY <1>2, <1>4, <3>1
    <2>5. QED
      BY <1>4, <2>2, <2>3, <2>4 DEF Step
  <1>5. CASE Tick \/ SetBlocked \/ UNCHANGED vars
    BY <1>5, QuietOrders DEF Tick, SetBlocked, vars, tables, book, traffic
  <1>6. QED
    BY <1>1, <1>3, <1>4, <1>5 DEF Next

\* Until calls overlap or one fails, the orders that are paid are between calls
\* exactly those a performed transaction holds: no expiry, refund or second
\* payment leaves the two tables at odds.
THEOREM PaidIffPerformedSafety == ASSUME Overlap # "any" PROVE Spec => []PaidIffPerformed
  <1>1. Init => PaidWhileHeld
    BY DEF Init, PaidWhileHeld, HeldBy, NoTransaction
  <1>2. Inv /\ (~overlapped => Turns /\ ReadsStand) /\ (~overlapped => PaidWhileHeld) /\ [Next]_vars
          => (~overlapped' => PaidWhileHeld')
    BY PaidStands, RacesStay
  <1>3. (~overlapped => PaidWhileHeld) => PaidIffPerformed
    BY DEF PaidWhileHeld, PaidIffPerformed, HeldBy, InFlight
  <1>4. QED
    BY <1>1, <1>2, <1>3, SerialHolds, PTL DEF Spec
=============================================================================
