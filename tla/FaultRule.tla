------------------------------ MODULE FaultRule ------------------------------
(* Fault rules: simulation/fault/domain and what the store's statements do to *)
(* one row of control.fault_rules.  A pattern is the set of methods it        *)
(* matches ("*" all of them, one nobody can parse none); what else a rule can *)
(* be narrowed by - account, payment, amounts - is the set of payloads it      *)
(* accepts.  A probability is one of never, sometimes, always.                *)
EXTENDS Integers, FiniteSets

CONSTANTS
    Stands,     \* sandboxes
    Methods,    \* JSON-RPC methods
    Bodies,     \* what a request carries besides its method
    EveryStand, \* a rule without a sandbox
    Unlimited,  \* a rule without a number of uses
    NoRule      \* no row

Actions == {"delay", "rpc_error", "http_status", "malformed", "drop",
            "duplicate", "passthrough"}
Chances == {"never", "sometimes", "always"}

RuleRow == [service : {"merchant", "paymemock", "*"}, stand : Stands \union {EveryStand},
            methods : SUBSET Methods, bodies : SUBSET Bodies, action : Actions,
            chance : Chances, left : Nat \union {Unlimited}, enabled : BOOLEAN,
            priority : Nat, profile : BOOLEAN, hits : Nat]

\* Active: enabled, of no profile, for this stand or for every one.
Active(rule, stand) ==
    /\ rule # NoRule
    /\ rule.enabled /\ ~rule.profile
    /\ rule.stand \in {stand, EveryStand}

Matches(rule, service, q) ==
    /\ rule.enabled
    /\ rule.stand \in {q.stand, EveryStand}
    /\ rule.service \in {service, "*"}
    /\ q.method \in rule.methods
    /\ q.body \in rule.bodies

\* Two mistakes: a rule that is spent only by its switch, and a count of uses
\* that nothing stops at zero.
NeverExhausted(rule) == FALSE

ConsumedBelow(rule) ==
    [rule EXCEPT !.hits = @ + 1, !.left = IF @ = Unlimited THEN @ ELSE @ - 1,
                 !.enabled = @ /\ (rule.left = Unlimited \/ rule.left > 1)]

Exhausted(rule) == rule.left # Unlimited /\ rule.left <= 0

\* sortByPriority: lowest priority first, the older rule first among equals.
Precedes(rules, i, j) ==
    \/ rules[i].priority < rules[j].priority
    \/ rules[i].priority = rules[j].priority /\ i < j

(* Evaluate: the rules that may fire for a request, 0 for none.  A rule that  *)
(* loses its roll lets the next one take over.                                *)
Decisions(rules, service, q) ==
    LET candidates == {i \in DOMAIN rules : /\ Active(rules[i], q.stand)
                                            /\ Matches(rules[i], service, q)
                                            /\ ~Exhausted(rules[i])}
        certain    == {i \in candidates : rules[i].chance = "always"}
    IN  {i \in candidates : /\ rules[i].chance # "never"
                            /\ \A j \in certain : ~Precedes(rules, j, i)}
        \union (IF certain = {} THEN {0} ELSE {})

\* Decision.Faulted: the fault layer answers, or shapes, the request.
Faulted(action) == action \notin {"none", "passthrough"}

\* Consume: one use and one hit, and disabled with the last use.
Consumed(rule) ==
    [rule EXCEPT !.hits = @ + 1,
                 !.left = IF @ = Unlimited \/ @ = 0 THEN @ ELSE @ - 1,
                 !.enabled = @ /\ (rule.left = Unlimited \/ rule.left > 1)]

\* Hit: counted without spending a use.
Counted(rule) == [rule EXCEPT !.hits = @ + 1]

(* What the console's form makes of its fields: a wait, a timeout or an error *)
(* of one method or of all, with a chance and a number of uses; every rule    *)
(* gets the same priority, and the pattern matches one method or every one.   *)
RuleForms ==
    {f \in [service : {"merchant", "paymemock"}, stand : Stands \union {EveryStand},
            methods : SUBSET Methods, action : {"passthrough", "drop", "rpc_error"},
            chance : Chances, left : (Nat \ {0}) \union {Unlimited}] :
        f.methods = Methods \/ Cardinality(f.methods) = 1}

\* insertRule: the row a form is stored as.
Inserted(f) ==
    [service |-> f.service, stand |-> f.stand, methods |-> f.methods, bodies |-> Bodies,
     action |-> f.action, chance |-> f.chance, left |-> f.left, enabled |-> TRUE,
     priority |-> 100, profile |-> FALSE, hits |-> 0]

\* UpdateRule: what the rule does, not whether it is on nor whom it is for.
Updated(rule, f) ==
    [rule EXCEPT !.methods = f.methods, !.action = f.action, !.chance = f.chance,
                 !.left = f.left]
=============================================================================
