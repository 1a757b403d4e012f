------------------------------- MODULE Stands -------------------------------
(* The stands the console keeps, the profiles it seeds for them, and the       *)
(* handlers the two services build from both.  A service reads the stand of a   *)
(* call from the table, and serves it with a handler it may have built for an    *)
(* earlier call: the provider keeps one per stand and profile, the merchant one   *)
(* per profile and direction.  Seeding inserts a profile and its rules by one      *)
(* statement each, in consoles that may start together and may end at any of them. *)
EXTENDS Integers, Sequences

CONSTANTS
    Slugs,            \* addresses of stands
    Kinds,            \* directions a register moves money in
    Shipped,          \* the profiles of Seeds that are seeded
    Callers,          \* calls a service may have under way
    Consoles,         \* console processes
    NoRow, NoHandler,
    Forms,            \* what an operator fills in for a stand
    MaxStands, MaxCalls, MaxEdits, MaxFailures

Provider == "paymemock"
Merchant == "merchant"
Services == {Provider, Merchant}

\* SeedProfiles: the settings of a profile, told apart where they differ, and how
\* many fault rules it comes with.
Seeds ==
    [clean   |-> [settings |-> "default", rules |-> 0],
     slow    |-> [settings |-> "default", rules |-> 1],
     flaky   |-> [settings |-> "default", rules |-> 2],
     errors  |-> [settings |-> "default", rules |-> 6],
     timeout |-> [settings |-> "default", rules |-> 1],
     strict  |-> [settings |-> "short deadlines", rules |-> 1],
     walkin  |-> [settings |-> "any payer", rules |-> 0]]

ASSUME StandsAssumption ==
    /\ Shipped \in Seq(DOMAIN Seeds) /\ Consoles # {}
    /\ \A i, j \in DOMAIN Shipped : Shipped[i] = Shipped[j] => i = j
    /\ Kinds \subseteq {"topup", "dividend", "deposit"}
    /\ \A form \in Forms : /\ form.slug \in Slugs /\ form.kind \in Kinds
                           /\ form.profile \in DOMAIN Shipped \union {0}
    /\ {MaxStands, MaxCalls, MaxEdits, MaxFailures} \subseteq Nat
    /\ NoHandler \notin [settings : {"default", "short deadlines", "any payer"},
                          stand : 1..MaxStands, merchant : Slugs]

NoProfile == 0
Profiles == DOMAIN Shipped
Ids == 1..MaxStands

VARIABLES
    profiles, rules,  \* control.configs, and how many rules of each are there
    stands, serial,   \* control.sandboxes by id, and the last id given out
    built,            \* each service's cache: handlers by key
    runner,           \* what the provider's scheduler runs
    at, loc,          \* the step a call runs next, and what it holds
    seeding,          \* how far each console's SeedProfiles has come
    calls, edits, failures,
    cut               \* history: profiles whose seeding ended before its last rule

tables == <<profiles, rules, stands, serial>>
caches == <<built, runner>>
vars == <<profiles, rules, stands, serial, built, runner, at, loc, seeding,
          calls, edits, failures, cut>>

-----------------------------------------------------------------------------
(* Stands and handlers.                                                       *)

Live == {i \in Ids : stands[i] # NoRow}

\* Forms name a profile that exists; the foreign key refuses any other.
FormOK(form) == form.profile \in profiles \union {NoProfile}

\* A stand without a profile runs on the defaults.
SettingsOf(p) == IF p = NoProfile THEN "default" ELSE Seeds[Shipped[p]].settings

\* The context a call carries: its stand as it was when the call arrived.
Scoped(i) == [id |-> i, row |-> stands[i]]

\* A mistake: the merchant's handlers are kept by profile alone.
KeyOfProfile(service, scope) ==
    IF service = Provider THEN <<scope.id, scope.row.profile>> ELSE <<scope.row.profile, "any">>

Key(service, scope) ==
    IF service = Provider THEN <<scope.id, scope.row.profile>>
    ELSE <<scope.row.profile, scope.row.kind>>

\* What a handler is built from, and keeps.  The provider's calls the stand's own
\* merchant.
HandlerFor(service, scope) ==
    LET settings == SettingsOf(scope.row.profile)
    IN  IF service = Provider
        THEN [settings |-> settings, stand |-> scope.id, merchant |-> scope.row.slug]
        ELSE [settings |-> settings, kind |-> scope.row.kind]

Held(service, key) == {e \in built[service] : e.key = key}

Init ==
    /\ profiles = {} /\ rules = [p \in Profiles |-> 0]
    /\ stands = [i \in Ids |-> NoRow] /\ serial = 0
    /\ built = [s \in Services |-> {}] /\ runner = NoHandler
    /\ at = [c \in Callers |-> "idle"] /\ loc = [c \in Callers |-> NoRow]
    /\ seeding = [k \in Consoles |-> [next |-> 1, left |-> 0]]
    /\ calls = 0 /\ edits = 0 /\ failures = 0 /\ cut = {}

-----------------------------------------------------------------------------
(* Calls.                                                                     *)
Goto(c, step, held) == at' = [at EXCEPT ![c] = step] /\ loc' = [loc EXCEPT ![c] = held]
Ends(c) == Goto(c, "idle", NoRow)
Untouched == UNCHANGED <<tables, seeding, calls, edits, failures, cut>>

\* The stand is found by its slug or by its merchant id; a call that finds none
\* changes nothing.
Resolve(c, service, i) ==
    /\ at[c] = "idle" /\ i \in Live
    /\ calls < MaxCalls /\ calls' = calls + 1               \* bound
    /\ Goto(c, "lookup", [service |-> service, scope |-> Scoped(i), handler |-> NoHandler])
    /\ UNCHANGED <<tables, caches, seeding, edits, failures, cut>>

Lookup(c) ==
    LET held == Held(loc[c].service, Key(loc[c].service, loc[c].scope))
    IN  /\ at[c] = "lookup"
        /\ \/ /\ held = {}
              /\ Goto(c, "build", [loc[c] EXCEPT !.handler = HandlerFor(loc[c].service, loc[c].scope)])
           \/ \E e \in held : Goto(c, "serve", [loc[c] EXCEPT !.handler = e.handler])
        /\ Untouched /\ UNCHANGED caches

\* A mistake: the scheduler is left with what it had.
NeverAttached(handler) == runner

\* The scheduler, which every stand shares, runs the service built last.
Attached(handler) == handler

\* The runner goes to the scheduler before the handler can be found.
Attach(c) ==
    /\ at[c] = "build" /\ loc[c].service = Provider
    /\ runner' = Attached(loc[c].handler)
    /\ Goto(c, "publish", loc[c])
    /\ Untouched /\ UNCHANGED built

Publish(c) ==
    LET service == loc[c].service
        key     == Key(service, loc[c].scope)
    IN  /\ at[c] = "publish" \/ (at[c] = "build" /\ service = Merchant)
        /\ built' = [built EXCEPT ![service] =
                       (@ \ Held(service, key)) \union {[key |-> key, handler |-> loc[c].handler]}]
        /\ Goto(c, "serve", loc[c])
        /\ Untouched /\ UNCHANGED runner

Serve(c) == at[c] = "serve" /\ Ends(c) /\ Untouched /\ UNCHANGED caches

\* The profile could not be read: the call fails and nothing is kept.
LoadFails(c) ==
    /\ at[c] = "build" /\ loc[c].scope.row.profile # NoProfile
    /\ failures < MaxFailures /\ failures' = failures + 1  \* bound
    /\ Ends(c) /\ UNCHANGED <<tables, caches, seeding, calls, edits, cut>>

\* A service ends and starts again, its cache and its scheduler empty.
Restart(service) ==
    /\ failures < MaxFailures /\ failures' = failures + 1  \* bound
    /\ built' = [built EXCEPT ![service] = {}]
    /\ runner' = IF service = Provider THEN NoHandler ELSE runner
    /\ LET of == {c \in Callers : at[c] # "idle" /\ loc[c].service = service}
       IN  /\ at' = [c \in Callers |-> IF c \in of THEN "idle" ELSE at[c]]
           /\ loc' = [c \in Callers |-> IF c \in of THEN NoRow ELSE loc[c]]
    /\ UNCHANGED <<tables, seeding, calls, edits, cut>>

-----------------------------------------------------------------------------
(* The console.                                                               *)
Seeding(k) == seeding[k].next <= Len(Shipped)
Advance(k, left) ==
    seeding' = [seeding EXCEPT ![k] = [next |-> @.next + (IF left = 0 THEN 1 ELSE 0), left |-> left]]

\* A mistake: the rules are left to a console that finds the profile there.
RulesLeftToNext(p) == 0

\* How many rules the statements after the profile's own insert.
RulesOf(p) == Seeds[Shipped[p]].rules

\* "No rows means the profile was already there, so its rules are too."
SeedProfile(k) ==
    LET p == seeding[k].next
    IN  /\ Seeding(k) /\ seeding[k].left = 0
        /\ profiles' = profiles \union {p}
        /\ Advance(k, IF p \in profiles THEN 0 ELSE RulesOf(p))
        /\ UNCHANGED <<rules, stands, serial, caches, at, loc, calls, edits, failures, cut>>

SeedRule(k) ==
    LET p == seeding[k].next
    IN  /\ seeding[k].left > 0
        /\ rules' = [rules EXCEPT ![p] = @ + 1]
        /\ Advance(k, seeding[k].left - 1)
        /\ UNCHANGED <<profiles, stands, serial, caches, at, loc, calls, edits, failures, cut>>

\* A statement fails or the console ends; it seeds again when it is started.
SeedEnds(k) ==
    /\ Seeding(k)
    /\ failures < MaxFailures /\ failures' = failures + 1  \* bound
    /\ seeding' = [seeding EXCEPT ![k] = [next |-> 1, left |-> 0]]
    /\ cut' = IF seeding[k].left > 0 THEN cut \union {seeding[k].next} ELSE cut
    /\ UNCHANGED <<tables, caches, at, loc, calls, edits>>

Edit ==
    /\ edits < MaxEdits /\ edits' = edits + 1              \* bound
    /\ UNCHANGED <<profiles, rules, caches, at, loc, seeding, calls, failures, cut>>

\* A slug names one stand; ids and credentials are never given out again.
CreateSandbox(form) ==
    /\ Edit /\ FormOK(form) /\ \A i \in Live : stands[i].slug # form.slug
    /\ serial < MaxStands /\ serial' = serial + 1          \* bound
    /\ stands' = [stands EXCEPT ![serial'] = form]

\* The slug is not editable.
UpdateSandbox(i, form) ==
    /\ Edit /\ FormOK(form) /\ i \in Live /\ form.slug = stands[i].slug
    /\ stands' = [stands EXCEPT ![i] = form]
    /\ UNCHANGED serial

DeleteSandbox(i) ==
    /\ Edit /\ i \in Live
    /\ stands' = [stands EXCEPT ![i] = NoRow]
    /\ UNCHANGED serial

Next ==
    \/ \E c \in Callers :
          \/ \E s \in Services, i \in Ids : Resolve(c, s, i)
          \/ Lookup(c) \/ Attach(c) \/ Publish(c) \/ Serve(c) \/ LoadFails(c)
    \/ \E s \in Services : Restart(s)
    \/ \E k \in Consoles : SeedProfile(k) \/ SeedRule(k) \/ SeedEnds(k)
    \/ \E form \in Forms : CreateSandbox(form) \/ \E i \in Ids : UpdateSandbox(i, form)
    \/ \E i \in Ids : DeleteSandbox(i)

Spec == Init /\ [][Next]_vars

-----------------------------------------------------------------------------
Serving == {c \in Callers : at[c] = "serve"}

(* "A switch of either must take effect without a restart" (paymemock's and      *)
(* merchant's handler.go:22): a call is served with the settings of the profile    *)
(* its stand had when it was resolved, by a handler of that stand that calls that   *)
(* stand's merchant, and moves money in that stand's direction, whatever was         *)
(* edited, deleted, recreated or built meanwhile.                                 *)
ServedAsResolved ==
    \A c \in Serving :
        LET h == loc[c].handler
            s == loc[c].scope
        IN  /\ h.settings = SettingsOf(s.row.profile)
            /\ IF loc[c].service = Provider
               THEN h.stand = s.id /\ h.merchant = s.row.slug
               ELSE h.kind = s.row.kind

(* A payment that is being served can queue the step that moves its receipt: no   *)
(* call finds a handler before the scheduler has something to run                *)
(* (handler.go:127, support.go:109).                                              *)
StepsFindARunner ==
    \A c \in Serving : loc[c].service = Provider => runner # NoHandler

(* Consoles that start together insert a profile's rules once, and once they are   *)
(* done a profile has all its rules, unless the seeding of that profile was cut     *)
(* short (store.go:113): nothing makes up for that later.                         *)
RulesComeWithProfiles ==
    /\ \A p \in Profiles : rules[p] <= Seeds[Shipped[p]].rules
    /\ (\A k \in Consoles : ~Seeding(k)) =>
          \A p \in Profiles : p \in profiles /\ (p \in cut \/ rules[p] = Seeds[Shipped[p]].rules)
=============================================================================
