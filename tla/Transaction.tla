---------------------------- MODULE Transaction ----------------------------
(***************************************************************************)
(* The Merchant API transaction aggregate (merchant/domain/transaction.go): *)
(* its four protocol states, its confirmation window and the pure rules by  *)
(* which Perform and Cancel change it.  Times are the protocol's            *)
(* timestamps, counted here in abstract units; 0 means "not yet".           *)
(***************************************************************************)
EXTENDS Integers

CONSTANTS
    Orders,              \* ids of merchant.orders rows, natural numbers above 0
    Reasons,             \* cancellation reasons a caller may send
    TransactionTimeout   \* Settings.TransactionTimeoutMillis

ASSUME TransactionAssumption ==
    /\ Orders \subseteq Nat \ {0}
    /\ Reasons \subseteq Nat
    /\ TransactionTimeout \in Nat

StateCreated          == 1
StatePerformed        == 2
StateCancelled        == -1
StateCancelledAfterDo == -2

\* Not a state of the protocol: no row with this Payme id has been inserted.
NoRow == 0

\* The reason recorded when the confirmation window has passed.
ReasonTimeout == 4

IsFinal(s)  == s \in {StateCancelled, StateCancelledAfterDo}
IsActive(s) == s \in {StateCreated, StatePerformed}

\* A row's columns, as far as any handler reads or writes them.
TransactionRow ==
    [state : {NoRow, StateCreated, StatePerformed, StateCancelled, StateCancelledAfterDo},
     order : Orders \cup {0},
     reason : Reasons \cup {0, ReasonTimeout},
     createTime : Nat, performTime : Nat, cancelTime : Nat]

NoTransaction ==
    [state |-> NoRow, order |-> 0, reason |-> 0,
     createTime |-> 0, performTime |-> 0, cancelTime |-> 0]

\* Two mistakes the properties of the service have to catch: a transaction built
\* without its order, and a cancellation that ends in -1 whatever it started from.
NewTransactionNoOrder(o, now) ==
    [NoTransaction EXCEPT !.state = StateCreated, !.createTime = now]

CancelledPlain(t, reason, now) ==
    [t EXCEPT !.state = StateCancelled, !.reason = reason, !.cancelTime = now]

NewTransaction(o, now) ==
    [NoTransaction EXCEPT !.state = StateCreated, !.order = o, !.createTime = now]

\* A created transaction has outlived its window strictly after the timeout.
Expired(t, now) ==
    /\ t.state = StateCreated
    /\ now - t.createTime > TransactionTimeout

\* What Perform leaves in a created transaction that is still in its window.
Performed(t, now) ==
    [t EXCEPT !.state = StatePerformed, !.performTime = now]

\* The private cancel: the state entered matches the one left.
Cancelled(t, reason, now) ==
    [t EXCEPT !.state = IF t.state = StatePerformed THEN StateCancelledAfterDo
                                                    ELSE StateCancelled,
              !.reason = reason,
              !.cancelTime = now]
=============================================================================
