------------------------------ MODULE MCStands ------------------------------
(* Two addresses, two profiles and two directions, for TLC. *)
EXTENDS Stands, TLC

CONSTANTS c1, c2, k1, k2

TwoShipped == <<"flaky", "walkin">>

Form(slug, profile, kind) == [slug |-> slug, profile |-> profile, kind |-> kind]
Filled == {Form("east", 0, "topup"), Form("east", 2, "topup"), Form("east", 2, "dividend"),
           Form("west", 2, "topup")}

Symmetric == Permutations(Callers) \union Permutations(Consoles)
=============================================================================
