------------------------------ MODULE MCCards -------------------------------
(* A merchant with two registers, for TLC. *)
EXTENDS StandCards, TLC

CONSTANTS s1, s2, g1, n1, c1, c2

Joined == [s \in {s1, s2} |-> g1]

TwoForms == { [outcome |-> "success", verify |-> FALSE, sms |-> TRUE],
              [outcome |-> "verify_failed", verify |-> TRUE, sms |-> FALSE] }

Symmetric == Permutations(Callers) \union Permutations(Registers)
=============================================================================
