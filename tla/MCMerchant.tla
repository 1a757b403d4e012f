----------------------------- MODULE MCMerchant -----------------------------
(* Small stands for TLC: two payments, two orders of one payer or more. *)
EXTENDS MerchantService, TLC

CONSTANTS p1, p2, c1, c2

\* Two seeded orders, of a payer each and of the same amount.
EachOwns    == [o \in {1, 2} |-> o]
FlatAmount  == [o \in {1, 2} |-> 5]

\* A payment naming order 1 is registered under that name, as payer 1 with an order of
\* its amount, which order 1 may become; named again when it is taken, another one is
\* registered.  Order 4 of payer 7 is seeded and asks for another amount.
NamedOwns   == [o \in {1, 2, 3, 4} |-> IF o = 4 THEN 7 ELSE 1]
NamedAmount == [o \in {1, 2, 3, 4} |-> IF o = 4 THEN 5 ELSE 3]

\* What tells states apart where nothing is asked about overtaken settlements: the
\* ghosts left out steer no action, and no property of the run reads them.
Payments    == <<txs, orders, balance, blocked, known, now, pc, loc,
                 applied, torn, acked, failures, overlapped>>

\* And where nothing is asked about failures and answers.  Once settlements have
\* crossed or raced, what was counted until then decides nothing either.
Settlements == <<txs, orders, balance, blocked, known, now, pc, loc, crossed, raced,
                 IF crossed THEN <<>> ELSE <<applied, stale>>,
                 IF raced THEN <<>> ELSE <<history, late>>>>

\* The calls are interchangeable; the payments are too.
Symmetric == Permutations({p1, p2}) \cup Permutations({c1, c2})
=============================================================================
