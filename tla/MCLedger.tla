------------------------------ MODULE MCLedger ------------------------------
(* A register that pays out, and one that takes in, for TLC.                  *)
EXTENDS RegisterLedger, TLC

CONSTANTS e1, e2, o1, m1

SmallSums == [x \in {o1, m1} |-> IF x = o1 THEN 2 ELSE 1]

UpOrDown == {2, -3}

Symmetric == Permutations(Edits)
=============================================================================
