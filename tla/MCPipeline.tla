----------------------------- MODULE MCPipeline -----------------------------
(* One stand of the provider behind a proxy, for TLC. *)
EXTENDS RequestPipeline, TLC

CONSTANTS r1, r2, r3, create, check, b1, b2

Create(body, cred, forwarded) ==
    [stand |-> "s1", method |-> create, body |-> body, id |-> "7", cred |-> cred,
     known |-> TRUE, shared |-> TRUE, remote |-> 0, forwarded |-> forwarded]

\* A card asked for behind a proxy whose own entry cannot be read, and another
\* under the same id by a page that forges an entry before the proxy's and a line
\* below it.
Calls == {Create(b1, "key", << <<3, Unreadable>> >>),
          Create(b2, "browser", << <<3, 1>>, <<3>> >>)}

Form(action, methods, left) ==
    [service |-> "paymemock", stand |-> "s1", methods |-> methods, action |-> action,
     chance |-> "always", left |-> left]
Timeout   == Form("drop", {create}, 1)

Timeouts == {Timeout}

\* Written into the table by hand: the console's form cannot make it.
Twice == <<[Inserted(Form("drop", {create}, 1)) EXCEPT !.action = "duplicate",
                                                    !.chance = "sometimes"]>>

\* What the operator types, and the network 2..3 it stands for.
Networks    == {[net |-> 3, len |-> 1]}
OpenOrUpper == {{}, {[net |-> 2, len |-> 1]}}

\* How often a rule was counted decides nothing.
Uncounted(rule) == IF rule = NoRule THEN rule ELSE [rule EXCEPT !.hits = 0]
Seen == <<[i \in RuleIds |-> Uncounted(rules[i])], nextRule, allow, calls, log, pc, loc, now,
          edits, failures, granted>>

Symmetric == Permutations(Requests)
=============================================================================
